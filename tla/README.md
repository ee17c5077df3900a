# Protein in TLA+

Models, model-checking runs and proofs for the Protein durable-agent runtime
(`nibzard/protein`). Paths below are relative to the repository root, which is
`src/` in `PROJECT.json`; `src/protein-agent.ts` is therefore
`src/src/protein-agent.ts` there.

`PROJECT.json` is the index: components, runs, the mutant that shows each
property can fail, the source lines of every definition, the hazards with the
properties that cover them, and the theorems.

## 1. The system

A Protein *cell* is a Durable Object with its own SQLite tables. Clients admit
runs and events; the cell works through them in alarm handlers: an event is
handed to the application (`onAgentEvent`, usually a model call), whose decision
is committed together with the *action intents* it asks for; an action is sent
to an external receiver, and its outcome comes back as another event. The
repository builds several applications and services around that kernel.

| component | state it keeps | operations | talks to | hard behaviour | what makes it correct |
|---|---|---|---|---|---|
| Cell runtime kernel, `src/protein-agent.ts`, `src/types.ts` | tables `protein_runs`, `protein_events`, `protein_actions`, `protein_state`; `cachedState`; one alarm; locals of handlers in flight | `startRun`, `acceptEvent`, `alarm` (claim, call, commit, fail or retry, for events and actions), `reconcileAlarm` | clients (RPC), the application (callbacks), the host (alarm), receivers (`executeAction`, `reconcileAction`) | handlers overlap at their awaits; leases run out under live handlers; crashes between any two steps | one current claim per row; receipt and outcome event together; unsafe call not repeated; work never left without an alarm; every event and action settles |
| Effect boundary: the action lane with the host's bucket, a second owner and the receiver (`scripts/action-crash-matrix.mjs`, `scripts/ownership-chaos.mjs`, `scripts/proof-controller.mjs` drive it) | a copy of the tables per node, the replica in the bucket, the receiver's jobs by action id, requests in flight | claim, mark, dispatch, accept, lookup, commit, replicate, kill and restart, take over, step down | the kernel and the receiver | the replica lags; two owners at once; responses lost; requests that arrive after their sender gave up | receipts are true; repeats of an unsafe call are exactly lost markers; lookup before dispatch; convergence |
| Monotonic acceptance, `src/acceptance.ts` | none; its receipts form a lineage | `decideMonotonicAcceptance` | executors and swarms that judge artifacts | several requests with different gates | an accepted revision keeps what its ancestors established |
| Swarm cell agent, `examples/cellular-agent-swarm/worker.ts` | application state: generation, expected action, candidate artifact, peers' work | `onAgentEvent` per event type, `executeAction` to gateway, executor, evaluator, board | kernel, all services | late outcomes, generations that move on, a multi-turn tool loop | at most one awaited action; never stuck on an outcome that cannot come |
| Model gateway, `model-gateway-server.mjs`, `openai-responses.mjs`, `service-utils.mjs` | receipts by action id (persisted), `pending` map, transcripts, counters | POST model call, GET receipt, restart | swarm cells, provider | coalescing around awaits, crash during a provider call | what an operation ended with stays in the transcript; a legal continuation is served; every provider request is accounted for |
| Artifact executor, `artifact-executor-server.mjs`, `artifact-sandbox.mjs`, `sandbox-runner.mjs` | receipts, artifacts by digest | POST job, GET job | swarm cells | same as the gateway | one execution per key; content addressed |
| Artifact evaluator, `artifact-evaluator-server.mjs` | receipts, evidence indexes | POST evaluation, GET | swarm cells, board | same, with parent evidence | evidence belongs to the artifact judged |
| Board, `board-server.mjs` | seeds, submissions, slots, evaluations, snapshots per generation | seed, submit, evaluate, freeze, read | swarm cells, evaluator, driver | an await between the check for a frozen generation and the write | a frozen generation does not change; what an operation ended with stays so |
| Capability server, `capability-server.mjs` | jobs by key | POST, GET | swarm cells | retries | one job per key |
| Repo agent, `examples/repo-agent/worker.ts` | `activeRunId`, phase | `onAgentEvent`, `executeAction` | kernel, mock executor | several runs in one cell | an outcome is applied to its own run |
| Mock executor, `scripts/mock-executor.mjs` | jobs by key | POST, GET | repo agent | check, await, act | one execution per key |
| Simulation and local server, `simulation.mjs`, `local-server.mjs` | generations, agents | step, run | browser | barrier between generations | order of phases |
| Compute fabric cube, `examples/compute-fabric-cube/`, `scripts/compute-fabric-run.mjs` | per cell the pending action and receipts; the executor's jobs and call counters; the driver's program | `onAgentEvent`, reconcilable jobs, assignments, restart of celld while jobs run, revisions, selection | kernel, capability executor | a denial by schedule, jobs done twice around the restart, a budget that several paths draw on | a cell is given work only when it is idle; only what was verified is accepted; the budget holds |
| Formal protocol swarm, repository maintenance swarm, cube preflight (`scripts/formal-protocol-run.mjs`, `repo-maintenance-run.mjs`, `cube-preflight-run.mjs`) | the driver's phase, the results it collected, the executors' jobs | runs of the repo agent phase by phase, one restart, acceptance of the outcome | repo agent, their executors, acceptance | late and second executions, a restart between phases | cells come back as they were; each run has its result |
| Swarm run, `scripts/swarm-celld-run.mjs` | the driver's generation, the frozen states, finalists, measurements of the panel | dispatch, settle, freeze, restart, measure | swarm cells, all services | a barrier over cells that fail or stop, a snapshot taken while cells go on | generations are decided on frozen results; the run ends; a valid measurement is complete |
| Comparison, `scripts/swarm-celld-compare.mjs`, `swarm-comparison.mjs`, `swarm-comparison-rebuild.mjs` | trials, attempts, frozen controls, summaries; a pointer file all runs of a host publish through | start a run, find it, repeat it, sum up, rebuild | swarm runs, by files and signals | two comparisons at once, lost runs, upgrades of the host, costs nobody counted | a pair holds its own runs; a claim rests on all pairs and known costs |
| Crash harnesses, benchmarks, public pages, JSON and errors, host probe | none that protocols depend on | — | — | — | — |

How they interact: every service is called from a cell's `executeAction` with
the action id as idempotency key; nothing is shared but these calls. The
kernel's guarantees (an intent is dispatched at least once while it is open, its
outcome is reported once) and the receivers' (one job per key) meet at the
effect boundary, which is why the kernel and that boundary come first.

### The hard parts

* **Interleaving.** A cell runs on one thread; handlers interleave at awaits.
  The alarm is consumed when it fires, and an accept while a handler awaits
  re-arms it, so that a second handler may start (`NOTES.md:47-48`,
  `RUNTIME.md:146-149`). Leases do not stop a handler that outlives them; the
  revision check of every commit does.
* **Crash and restart.** Memory goes, SQLite stays, or, on another node, an
  older replica of it comes back.
* **Unreliable calls.** A response is lost, a request arrives when nobody waits.
* **Two owners.** `PROOFS.md` reports two nodes serving one cell under a
  partition with clock skew; revisions fence nothing between copies.
* **Alarm accounting.** One alarm serves all rows; each path must re-arm it.

* **Services with files.** State is changed in memory, queued for a file and
  answered for after it is there; what is read meanwhile may be forgotten.
* **Barriers.** A driver waits for cells that wait for services; one that is
  never answered stops all the others.
* **Shared pointers and budgets.** Processes find each other's results through
  one file, and several paths of a program spend from one account.

`PROJECT.json` "hazards" lists each at its line, with the properties that cover it.

## 2. Modules

| module | what it is |
|---|---|
| `ProteinCell` | the kernel: admission, inbox, action lane, alarm, crashes with local storage |
| `DurableAgent` | what a cell promises; `ProteinCell` implements it under a refinement mapping |
| `MCProteinCell` | constants and decisions for the runs of `ProteinCell` |
| `ProteinCellProofs` | theorems about `ProteinCell`, the refinement among them |
| `EffectBoundary`, `MCEffectBoundary` | one action between owners, bucket and receiver |
| `EffectBoundaryProofs` | theorems about `EffectBoundary` |
| `Acceptance` | monotonic acceptance over a lineage |
| `ModelGateway`, `MCModelGateway` | one tool loop at the model gateway: receipts, file writes, provider calls, crashes |
| `ModelGatewayProofs` | theorems about `ModelGateway`, with the facts on sums over finite sets they rest on |
| `Board`, `MCBoard` | seeds, submissions, slots and snapshots of the board, its file and its evaluator |
| `BoardContract` | what the board promises; `Board` implements it under a refinement mapping |
| `BoardProofs` | theorems about `Board`, the refinement among them |
| `Artifacts`, `MCArtifacts` | the artifact executor and the evaluator, with the files they share |
| `ArtifactsProofs` | theorems about `Artifacts` |
| `SwarmCell` | the application of a swarm cell, as functions of its state |
| `QualityTarget` | the finalist, the panel and the order it is measured in |
| `SwarmRun`, `MCSwarmRun` | a run: driver, cells (`SwarmCell`), kernels and services |
| `SwarmRunProofs` | theorems about `SwarmRun` and the cells and the panel it is built from |
| `Verdict` | what a comparison concludes from runs and attempts, as functions |
| `Comparison`, `MCComparison` | comparisons that share a host: attempts, pointers, controls, summaries |
| `ComparisonProofs` | theorems about `Comparison` |
| `JobLane` | jobs of an experiment: the action lane against a ledger filled after an await |
| `RepoRuns` | drivers of the repository agent over `JobLane` |
| `Fabric` | the driver and the cells of the compute fabric over `JobLane` |
| `Experiments`, `MCExperiments` | either of the two, on one host |
| `ExperimentsProofs` | theorems about `Experiments`, and the one about `Acceptance`, by which drivers of experiments judge artifacts |

The kernel is modelled once, in `ProteinCell`. What stands on it uses what was
shown there: an event is applied once, an action identifier names one action, and
an action has one outcome (`SwarmRun`); where jobs may be executed twice because
a lease ran out, the claims are kept (`JobLane`). In the same way `SwarmRun` takes
the services as `ModelGateway`, `Artifacts` and `Board` show them to be, and
`Comparison` takes a run as something that ends or is lost.

Operators commented "a fault" are the mutants `PROJECT.json` names; no
specification uses them.

### ProteinCell and the code

* `runs`, `events`, `actions`, `stored` are the four tables. A row holds what
  guards and conflict checks read: status, run, content, revision, attempts, the
  dispatch marker. `stored` and `cached` hold the set of events whose decision
  the application state carries, enough to tell a lost or an uncommitted one.
* Time is a countdown: `due` of a row stands for `available_at` of a pending and
  `lease_until` of a claimed one, `alarm` for the alarm's distance. `Tick` lets
  all of them go down to 0 together. This keeps every comparison the code makes
  with `Date.now()` and makes the state space finite.
* `handler` holds the local variables of each alarm handler at its await: `pc`,
  the row and revision it claimed, the attempt number, the marker it read and the
  state that was passed to `onAgentEvent`.
* One action per stretch between awaits. `alarm()` starts as `ClaimAction`,
  `ClaimEvent` (only when no action is runnable, as the early return makes it) or
  `AlarmFindsNothing`. The event lane is `CallOnAgentEvent`, `CommitEvent`,
  `FailOrRetryEvent`; the action lane is `DeclareAmbiguous`, `StartLookup`,
  `MarkDispatchStarted`, `ExecuteAction`, `DeliverResult`, `ActionThrows`.
  `CloseHandler` is the `finally` block. `CheckpointThrows` is the throw of
  `onProteinCheckpoint` right after a claim, which no `try` covers.
* Each transaction is all or nothing. Where a transaction throws half-way
  (`CommitThrows`, `OutcomeConflict`) the model has the rolled-back result and
  continues in the catch block the code continues in.
* `Crash` empties memory. The host re-runs an alarm whose handler had not
  finished (`refire`): the constructor of the class does not re-arm it, so this is
  an assumption about celld.

Abstractions to know about. Rows of one millisecond have no order under
`ORDER BY created_at`, and the model lets any runnable row be taken: more
behaviours than the code, never fewer. The journal is written and never read by a
decision, and is left out with WebSocket broadcast and the getters. `setState`
has no caller in the repository's agents. `processProteinEvent` and
`processProteinAction` are public, but only `alarm()` calls them. Accepting a
duplicate of a settled event changes nothing and is not a step. An accept and
its `reconcileAlarm()` are one step: a process lost between the two relies on the
host to repeat the request.

### EffectBoundary and the code

The same action lane, narrowed to one action, and widened to several nodes.
`copy[n]` is the action row on node `n`, `bucket` the row as last replicated
(`Replicate` is never owed). `Restart` kills a node, discards its watch directory
and starts it on the bucket, as `action-crash-matrix.mjs` does; `TakeOver` starts
another node from the bucket, with the former owner gone or, when `DualOwners`,
still serving; `StepDown` ends a double ownership. A node that stops takes its
handlers and its copy along. `wire` holds requests that were sent and not
accepted; `Accept` is the ledger of `proof-controller.mjs` (`handleJob`): with
`OrphansDrop` a request whose sender no longer waits is dropped, as that handler
does when the connection is gone; without it, it may arrive at any time later.
`markings` and `requests` count, for the properties, how often a copy went from
unmarked to marked and how often `executeAction` was called. The intent is in the bucket at
the start, the receiver does not lose jobs, the outcome event is left to
`ProteinCell`, and the throwing checkpoint right after a claim is left out.

### ModelGateway and the code

`state` is the one object in memory (receipts by action, transcript, the counter
of retried unfinished receipts), `disk` the file. `persist()` queues a write that
serialises the object when the write *starts*: `StartWrite` takes the snapshot,
`Written` renames it into place and lets the request that waited for it go on.
Writes are one at a time; their order in the queue is left open. A request
is handled in stretches between its awaits: `Receive` and `Logged` are
`receiveAction()` up to the file, `BeginTurn` and `BeginLoop` the checks of
`executeAction()`, `ProviderAnswers` and `ProviderFails` its two ways out,
`Answer` and `FailureSaved` the `finally` that forgets the operation. A request may
come at any await of another one for the same action: it joins an operation that is
in `pending`, which is not a step, and starts a second operation when the first is
not there yet. `ReplayReceipt` is the duplicate POST and the lookup that memory
answers, whether the file has the receipt or not. `delivered` has what operations
ended with, `told` what anyone was told, from memory too; a cell continues with
any of these. Object identity matters where an operation settles a record that
another request has replaced under the same id, hence `object`. An action is named
by its turn and its content by the call id it continues. The shapes of provider
responses, the reuse of a loop id by another agent, failing writes and the other
metrics are left out.

### Acceptance and the code

`Decide` is one call of `decideMonotonicAcceptance` for a revision of the
retained artifact, with the evidence as a sequence because the number of items
that name a gate matters. A call that throws or rejects changes nothing. Empty
producers, authorities and receipt ids, which the function only refuses, are left
out.

### Board and the code

`state` is the object in memory and `disk` the file of `StateStore`
(`service-utils.mjs`). An operation, known by the id it is pending under, runs in
stretches between its awaits: `pc` names what it waits for. In the stages
`Saving` it waits for a write: `Write` puts whatever the state holds at that
time into the file, `WriteFails` makes the promise chain of `persist()` reject
(`broken`) for every later caller (`PersistRejects`), as `service-utils.mjs:23-31`
does. `Receive` stores the receipt `in_progress`, `BeginSubmission` is
`executeSubmission()` up to its first await with the four things it looks at (the
sender, the slot, the seed, the snapshot and the index), `FetchReceipt` is
`verifiedEvaluation()` with the three answers of the evaluator, `CandidateVerified`
and `CellVerified` are the stretches after it. `Freeze` is `freezeSnapshot()`, which
keeps one submission of each agent and refuses to leave out one it was told to
expect. `Crash` restarts on the file. `accepted` and `frozen` are what operations
ended with. Duplicates and lookups are answered from memory (`Replay`,
`ReplaySnapshot`), whether the file has the answer or not: `told` and `shown` have
the answers that were given and are not in the file. Requests that change nothing
are left out.

### Artifacts and the code

Two services, each with a state object and its file, and two kinds of immutable
files they share: candidates named by their content and evidence named by its
action. `writeImmutable()` creates a file and then fills it, so a file is absent,
torn or whole. `StartCheck` to `EvidenceWritten` are `runPublicChecks()` and
`evaluate()`: wait for the benchmark queue (`MyTurn`; of the executor it spans the
file work, of the evaluator only the sandbox), look for evidence an earlier
attempt wrote (`RecoverEvidence`), run the sandbox, write the evidence, set the
receipt and the registry (`Settle`). `Lookup` reads receipts from memory and may
show one that is not yet on disk. A seed is a check of the baseline that must
pass. The sandbox shows any verdict, a different one each time.

### SwarmCell, SwarmRun and the code

`SwarmCell` translates `onAgentEvent()` of `worker.ts` into functions from a state
and an event to a state and an action (`Opened`, `Delivered`, `ActionFailed`), with
`normalizeState()` first (`Normal`). A handler that throws on every attempt leaves
the state as it is (`Throws`).

`SwarmRun` has the driver, the cells and the services. `Apply` is the kernel: the
state of the cell and the action it asked for change together; an identifier that
is taken begins nothing. `Dispatch` sends the observation the driver computed from
`driver.states`; `Settle` is one poll that finds a cell waiting; `CloseGeneration`
freezes what the board accepted, picks the finalist and hands the snapshot to the
next generation; `RestartCelld` is the restart after the first generation, with
its comparison of states; `GivesUp` is the end on a failed cell. In live mode a
model may call any function in any order; in mock mode `Decision` is `decide()` of
`capability-server.mjs`. `BoardAccepts` checks what the board checks (slot, freeze,
evidence of the candidate and of the cell). `BeginRecheck`, `MeasureBlock`,
`NextRepeat` are `measureQualityTarget()` over the pure functions of
`QualityTarget`. A poll that gives up on a cell that is merely slow would end a run
at any moment and is left out.

### Verdict, Comparison and the code

`Comparison` is the main loop of `swarm-celld-compare.mjs` for several processes on
one host. `StartRun` reads the pointer of the last run and starts a child,
`RunEnds` and `RunIsLost` are that child, `FindRun` takes whatever the pointer now
names, checks its identity (`Expected`) and its controls (`ControlsHold`) and
goes on to the next attempt, turn or trial (`Proceed`). Signals, a process that
dies and leaves its child running, upgrades of the host and runs with one thing
amiss are faults. `Summarize` and `Rebuild` take one of the `Conclusions` of
`Verdict`; the rebuild audits every attempt first. Costs are a few numbers, and
relative differences are compared exactly, by multiplying out, where the code
rounds to eight decimals. The draws of the bootstrap hang on a seed, so that either
end of its interval may be the median of any draw with repetition: more conclusions
than the code can come to, never fewer.

### JobLane, RepoRuns, Fabric and the code

`lane` holds, per action, what the driver could see of its row: status, attempts,
whether the handler that claimed it lives, and the result. `requests` are in
flight to an executor: arriving, executing or answering. The executors look into
`ledger` before they await body and work, and enter the result after it
(`mock-executor.mjs:23-40` and the four others): `Receive` and `Finish` are those
two stretches, and nothing keeps a second execution out between them. `TimesOut`
is a fetch that times out while the executor goes on. An answer to an older claim
is dropped, as `commitActionOutcome()` does. `Handled` forgets the row once its
outcome event is applied.

`RepoRuns` is `onAgentEvent()` of the repo agent (`Requested`, `Completes`, `Fails`)
and the common form of three drivers: post the runs of a phase, take their
results, restart celld after one phase and compare states and counts, ask the
executor in the end whether every run had its job. `Fabric` is `onAgentEvent()` of
the fabric cell (`Assigned`, `Delivers`, `Fails`) and the program of
`compute-fabric-run.mjs` as `step`, a set of assignments `todo`, of which those come first
that nothing precedes (`Precedes`), and the open ones:
triage and patches, sandboxes with the restart while at least one runs, public
revisions, evaluations with one denied by schedule and asked for again, hidden
revisions, a last revision if the rivals agree, resolution, acceptance and
release. `posted` says what an assignment is about, as the set of sources it may
yield. Sources are model values; a sandbox and an evaluation of one may go either
way. `Experiments` is one of the two, with idempotent jobs that may outlast their
leases in the first and reconcilable ones that do not in the second
(`RunsFitLeases`, `CapabilitiesFitLeases`, with a bound on claims each; the theorems
of section 5 hold for all of them).

## 3. Runs

All runs pass. Deadlock is checked in `acceptance` and `experiments`; elsewhere it is not:
clients may be silent, runs end, and the bounds on claims, crashes and restores
stop the model. In `experiments`, where a finished experiment stutters, the absence
of deadlock says that nobody waits for something that cannot come.

| run | question | instance |
|---|---|---|
| `cell_core` | Do the fences, alarm and cache hold under overlapping handlers, expired leases and a crash, and is the cell a `DurableAgent`? | 1 run, 1 action of any safety class, 2 handlers, leases 1-2 ticks, 3 claims per row, 1 crash |
| `cell_serial` | With one handler at a time, are admission and receipts all-or-nothing when ids were taken by other content, checkpoints throw and decisions cannot be applied? | 2 client events with taken ids, conflicting intents, writing decisions, 1 handler, 2 claims per row, 1 crash |
| `cell_live` | Does every accepted event and every intent settle? | 2 handlers, leases that outlast their work, 4 claims, 1 crash, fairness |
| `boundary_effects` | Are receipts true and unsafe repeats explained, whatever owners and replicas do? | 2 nodes, 2 handlers, both owners, late requests, 1 expired lease, 2 restores |
| `boundary_converges` | Does every owner reach a terminal record, and does a lookup prevent a second dispatch after a restart? | all classes, 1 owner at a time, 2 attempts, 2 restores, a receiver that drops orphaned requests, no lease that ends under a live handler, fairness |
| `acceptance` | Can a chain of accepted revisions lose a gate? | 4 artifacts, 2 gates, all evidence up to 2 items |
| `gateway_turns` | Under duplicates at every await, does what an operation ended with last, is a legal continuation refused only where a turn was done twice, and is every provider request accounted for? | 3 turns, 2 requests at once, up to 2 provider attempts, 2 crashes, 4 provider calls, 2 retries of unfinished receipts |
| `board` | Are answers kept, those from memory included until something fails, is the file a `BoardContract`, and does everything settle? | cell A submits twice for a generation, B once, freezes that expect B or both, 1 fault of any kind |
| `artifacts` | Is one verdict told per action, does the registry rest on files, is a checked candidate always found, and does everything settle? | one candidate: 2 checks (one the seed), a read, an evaluation, 2 verdicts, 1 fault |
| `swarm_run` | Does no cell wait in vain, is every decision made on frozen results and paid once, is a valid measurement complete, and does the run end? | 2 neighbouring cells, 2 generations, live and mock, 5 credits, 2 drafts, 2 model turns, 1 tool call, 2 repeats in blocks of 2, 1 failed action |
| `comparison` | Does a comparison keep only its own runs, on one set of controls, and does an audited claim rest on all pairs, on known costs and on at least half of the pairs that compare? | 2 comparisons (2 pairs with 2 attempts; 1 pair with 1), 2 environments, 1 fault of any kind, rebuilds at any time |
| `experiments` | Do books agree, is only verified work accepted, are no more model jobs asked for than the budget has calls, do the drivers' assertions hold, and can an unfinished experiment always go on? | 3 runs in 2 cells with jobs that outlast leases; or 2 rival reports, 2 sources, 6 model calls; 2 attempts, 1 failed or late job |

Why these bounds are enough for the interesting cases. Two handlers are the
smallest number that can overlap, and one can be the stale holder of a claim
while the other holds the current one; the third claim in `cell_core` lets a row
be claimed anew after a stale handler *and* a retry. A lease of one tick can run
out at every await. One crash is placed at every step. Two restores in the
boundary give a node that restores a replica written by a node that itself
restored an older one. Two items of evidence are the smallest number that can
repeat a gate, and four artifacts make a chain of three decisions. Two requests at
the gateway are a duplicate and the one it doubles, and four provider calls let one
of the three turns be called twice, by the duplicate or after a crash. At
the board, two ids of one cell compete for a slot while the freeze may expect
their cell; a freeze that waits for B only can pass a submission of A that waits
for the evaluator. One fault at any await tears any file, loses any write, and breaks any
operation once; faults that build on one another are left to the theorems about
the board. Two neighbours and two generations are the smallest swarm in which a cell sees
another's result and can adopt it; five credits afford one expensive behaviour and
one cheap one, so that a second expensive one must be refused. Two comparisons are
the smallest number that can pick up each other's run, and two pairs give both
orders of the conditions; with two pairs no draw of the bootstrap leads to another
conclusion, so that the draws matter in the theorem only. Six model calls are the triage and the patch of two
reports, one revision and the resolver's call: wherever a second revision is
wanted, a guard has to refuse it. What the bounds cut off (more handlers, more claims, more nodes, more
submissions, turns, comparisons or faults) is covered by the theorems for the safety
properties of the kernel, the boundary, the gateway, the board, the artifact
services, the swarm run, the comparison and the experiments.

Bounds in the modules: `MaxClaims` (claims of one row; the code has none, see
section 4), `MaxCrashes`, `MaxExpiries`, `MaxRestores`, `MaxItems`, `MaxCalls`,
`MaxRetries`, `MaxFaults` (whatever is not as planned, in all). Symmetry over handlers
(`cell_core`), over slots (the gateway), over nodes and handlers
(`boundary_effects`), over environments (`comparison`) and over sources
(`experiments`) is sound: nothing distinguishes them. Liveness runs use none.

### Fairness

* `ProteinCell`: the host runs a due alarm (`AlarmStarts`), an awaited call
  returns or throws (each handler steps on), and time passes. Nothing is assumed
  of clients, and crashes are bounded. Weak fairness suffices: nobody can disable
  a due alarm or a handler's step. `LeasesOutlastWork` holds in `cell_live` only:
  with leases that can end before the work does, a row can be claimed again for
  ever, because no ceiling stops it (section 4).
* `EffectBoundary`: an awaited call returns or throws, a lease or delay runs out,
  an owner runs its alarm. Neither replication nor acceptance is owed, and
  restores end.
* `Board`: the event loop runs what can run and a client without a final answer asks
  again, as the retries of its cell do (`WF_vars(GoesOn)`, over all operations: each
  ends after a few steps, and none runs for ever in place of another). A client
  that was given a final answer from memory asks no more. Nobody is obliged to
  freeze, to look anything up or to fail.
* `Artifacts`: the same, per operation.
* `SwarmRun`: something happens while something can, and not by failing
  (`WF_vars(GoesOn)`): cells and services act only when asked, so no step can be
  put off for ever by others.
* `Comparison` and `Experiments` state none; their properties are of safety.

### Properties

`ProteinCell`: `OneCurrentClaim`, `AlarmCoversWork`, `ReceiptHasOutcomeEvent`,
`UnsafeSentAtMostOnce`, `CacheIsCommittedState`, `RunHasItsRequest`,
`StaleHandlerWritesNothing` (action property: a superseded handler leaves inbox,
actions and state alone), `KeepsPromise` (refinement of `DurableAgent`), `EventsSettle`, `ActionsSettle`.
`EffectBoundary`: `ReceiptHasEffect`, `UnsafeRepeatsLostMarker`,
`NoRedispatchAfterAcceptance`, `Converges`. `ModelGateway`: `AnswersAreKept`,
`LegalTurnsAreServed`, `CostIsAccounted`. `Acceptance`: `NothingRegresses`.
`Board`: `AnswersAreKept`, `KeepsContract` (refinement of `BoardContract`), `Settles`.
`Artifacts`: `AnswersAgree`, `RegistryIsBacked`, `AnsweredCandidatesExist` (action
property), `Settles`. `SwarmRun`: `NobodyWaitsInVain`, `AssertionsHold`,
`FrozenNeighbourhood`, `CreditsAreSpentOnce`, `ValidMeansComplete`, `RunEnds`.
`Comparison`: `PairsAreOwn`, `ControlsStayFrozen`, `SupportIsEarned`. `Experiments`:
`BooksAgree`, `NobodyIsBusy`, `AcceptedIsVerified`, `BudgetHolds`, `AssertionsHold`.

## 4. Known deviations, and the conditions of runs

What the code does and its documents or neighbours do not expect; the models
follow the code.

* `failOrRetryEvent()` (`protein-agent.ts:739`) fails the run when the *handler's*
  attempt was the last one, without looking whether its guarded update of the
  event changed a row. A handler whose claim was superseded fails a run whose
  event was retried or completed. `RUNTIME.md:97` and `ARCHITECTURE.md:368-369` say
  a stale claim applies nothing; `StaleHandlerWritesNothing` speaks of the other tables.
* `claimAction()` (`:808`) never compares `attempts` with `maxActionAttempts`; only
  a throwing executor does. `ARCHITECTURE.md:397`: "Retry failures or expired leases
  up to the configured ceiling."
* `onAgentEvent()` is handed the state as it was before its await and
  `commitEvent()` writes what it returned (`protein-agent.ts:370`): of two handlers
  that decide at the same time, on different events, the second overwrites what
  the first committed. `RUNTIME.md:92-93` and `:146-149` say that handlers interleave
  and leave it to applications to serialise such work. No property says that decisions last.
* `receiveAction()` of the gateway looks at `pending` and fills it with awaits in
  between, the log line and the first write (`model-gateway-server.mjs:150-185`), so
  two identical requests that come close together both become operations and call
  the provider twice. `docs/MODEL-GATEWAY.md:144`: "The same action ID and request
  hash joins in-flight work or returns the completed receipt." The second one may
  put its turn into the transcript again; then a continuation that is legal may be
  refused, which `LegalTurnsAreServed` excepts (`Doubled`). Both calls are accounted
  for.
* The gateway and the board answer duplicates and lookups from memory before the
  write, or after it failed (`model-gateway-server.mjs:90-96`, `:142-149`, `:304-311`;
  `board-server.mjs:143-145`, `:203`, `:281-288`, `:510-511`), and a crash takes such
  an answer back. `examples/cellular-agent-swarm/docs/CONTRACTS.md:179-186` promises
  "the stored completed result". `AnswersAreKept` of both says for ever what it says
  of answers operations ended with; of answers from memory that of the board says
  that they stay true until something fails (of a snapshot, until the process
  dies), and that of the gateway nothing.
* The balanced order of a panel of two (`swarm-celld-run.mjs:1512-1517`) rotates
  and reverses in the same repeat, so both repeats begin with the same candidate;
  `examples/cellular-agent-swarm/docs/COST-TO-TARGET.md:56` expects positions to be balanced. `ValidMeansComplete`
  concerns how often a candidate is measured, not where.
* The summary a comparison writes by itself carries no audit, so a lost or repeated
  attempt with unknown cost does not stop a claim; the rebuild does
  (`swarm-comparison-rebuild.mjs:87`). `SupportIsEarned` is about audited summaries.
* A claim that one side is cheaper rests on medians of relative differences
  (`swarm-comparison.mjs:920-942`, `:1025-1043`): the total cost of that side may be
  higher, and of the pairs that compare up to half may differ the other way. At the
  default of ten pairs, nine with a tenth less and one with ten times more are
  support.
* A file torn by a crash, and evidence that a baseline failed, are never repaired:
  every retry fails on them (`artifact-executor-server.mjs:427`, `:630`). `Settles` of
  `Artifacts` excepts both. `Settles` of `Board` excepts a queue of writes that
  stays rejected (`service-utils.mjs:23-31`), requests whose client was answered from
  memory and then lost that answer to a fault (`Abandoned`), and submissions where
  the seed was not accepted.
* `decide()` of the mock services does not look at what a behaviour costs, so a
  cell can be told what it cannot pay and stays `deciding`; `NobodyWaitsInVain` and
  `AssertionsHold` except that (`Unaffordable`).
* The executors of jobs check, await and act: a job may be executed twice. The
  fabric's budget counts entries of the ledger, not calls to the provider, so that
  a model job that timed out after it was paid and runs again is paid twice and
  counted once. `BudgetHolds` is about the jobs that are asked for.
* The last revision of the fabric's rivals reuses the event ids of an earlier
  revision of the same report and is then refused (`Refused`): the experiment fails
  where it could have gone on.

Where the conditions of a run matter:

* `NoRedispatchAfterAcceptance` needs leases that outlast their calls and a
  receiver that drops orphaned requests. With `MaxExpiries = 1`, a lookup is
  answered while a request of an earlier, expired claim is in flight and finds
  nothing; the request is then accepted and the second handler dispatches anyway.
* `CostIsAccounted` bounds, and does not count: the attempts of an operation are
  recorded when it ends (`:304-308`, `:333-338`), so that one that a crash ended
  leaves one retry in the account, whatever number of requests it had made.
* `BooksAgree` needs a driver that posts a run to a cell only when the one before
  is over, as all drivers do: the agent itself takes any outcome for that of its
  active run (`repo-agent/worker.ts:90-102`).

`UnsafeRepeatsLostMarker` is the positive form of two failures `PROOFS.md`
documents: an unsafe call is repeated when the marker was lost with its copy or
another owner never had it, and in no other case.

## 5. Proofs

All theorems are checked by TLAPS for every value of the constants: any number of
handlers, runs, actions, nodes, turns, requests, submissions, candidates,
comparisons, cells or generations, any leases, attempts, credits and bounds. They
assume only the named assumptions of the modules (`ConstantsAssumption`,
`BoundaryAssumption`, `AcceptanceAssumption`, `BoardAssumption`,
`GatewayAssumption`, `ArtifactsAssumption`, `ComparisonAssumption`,
`SwarmCellAssumption`, `SwarmRunAssumption`, `ExperimentsAssumption`), which TLC
evaluates in the runs, and two of them a condition their runs have as well:
`BudgetIsKept` says `ASSUME PlanIsAffordable`: a budget with room for triage and
patch of every repair and for the resolver, which nothing in the driver checks
(the configuration has 5 repairs and 12 calls). `AcceptedIsNotRedispatched` says
`ASSUME CallsAreContained`, the conditions of `boundary_converges`, without which
the property fails (section 4). Every inductive invariant below was first checked
by TLC on the instance of a run.

`ProteinCell`
* `TypeCorrect`: `TypeOK` is inductive by itself.
* `ClaimsAreFenced` (`OneCurrentClaim`). Not inductive alone: a stale handler
  could hold a revision the row has yet to reach. The strengthening `Fencing` says
  that a handler's revision never exceeds its row's (`ClaimsBehindRows`), that two
  handlers on one row hold different revisions (`DistinctClaims`) and that a row
  that does not exist yet has revision 0 (`AbsentRowsFresh`); no step takes a
  row's revision back.
* `WorkIsCovered` (`AlarmCoversWork`): by the actions that open or advance a row.
  Each either re-arms the alarm in the same step (accepts) or is the step of a
  handler that is still in flight after it; the last handler to finish re-arms
  from the tables; `Tick` takes one off the alarm and off the rows alike.
* `UnsafeIsCalledOnce`, over `Fencing`: the marker in the row is older than any
  call, a handler about to make a call is alone and the first, and a handler whose
  fresh claim is current read the marker the row has. The safety class of a row
  never changes.
* `CacheIsFaithful`: only a commit of the current claim changes `stored`, and the
  same step sets the cache.
* `CellKeepsPromise` (`KeepsPromise`): the cell implements `DurableAgent`. Every
  step is classified by what it does to the two tables: nothing that matters, an
  arrival, a decision, a surrender or a report (`PromisedStep`), and each of these
  is a step of the abstract agent or a stutter. The classification needs `Kept`:
  beside `Fencing`, that a claim at the revision of its row is one the row says is
  claimed (`HonouredClaims`), so that a current handler never decides for a row
  that was settled behind its back, and that the event that reports an outcome is
  there exactly when the action ended so (`OutcomesReported`), so that no report
  is made twice.
* `ReceiptsAreReported` (`ReceiptHasOutcomeEvent`) follows from `Kept`;
  `RunsAreRequested` (`RunHasItsRequest`) from the facts that no step changes the
  content of an accepted event or the goal of a run and that only `startRun()`
  inserts a run.
* `SupersededHandlersAreHarmless` (`StaleHandlerWritesNothing`), step by step over
  `Kept`.

`EffectBoundary`
* `BoundaryTypeCorrect`: types, and handlers run only on owners.
* `ReceiptsAreTrue`: strengthened by "a handler that is about to commit a result
  has one": its lookup found a job or its request left the wire, which acceptance
  alone does.
* `AmbiguityIsEarned`: strengthened by "the copy a live handler works on keeps
  every marker that handler read or set".
* `RepeatsAreLostMarkers`: the requests made plus the handlers about to make one
  never exceed `markings`. It needs that two live handlers of one node never hold
  the same claim, which bounds the handlers between mark and call.
* `AcceptedIsNotRedispatched` (`NoRedispatchAfterAcceptance`), under
  `CallsAreContained`: one node serves the cell (`OneOwner`) and every live
  handler holds the current claim of a row that is not due (`ClaimsHold`), so by
  the same lemma on claims there is one handler at most. The receiver accepts only
  the request that this handler awaits, so that a lookup that found nothing still
  holds when the handler calls (`AbsenceHolds`).

`Acceptance`
* `AcceptanceIsMonotonic`: what is established is passed by the retained evidence,
  because the gates to pass include everything the parent passed.

`ModelGateway`, with second requests at every await
* `TurnsKeepTheirAnswers` (`AnswersAreKept`). The transcript only grows: memory
  continues the write in progress and that continues the file (`WritesFollow`), so
  that a crash never goes back behind the file. What each stretch of an operation
  knows is in `SlotsFit`: one that waits for its result to be saved has it in the
  transcript, one that is about to answer has it on disk, whoever has replaced
  the receipt since.
* `TurnsAreServed` (`LegalTurnsAreServed`), over the same invariant: in memory, in
  the write and in the file the turns are in their order unless a turn is there
  twice (`InOrder`), and a receipt is refused because the transcript lacks the answer
  it names, or because a turn is there twice (`RefusedRightly`). An answer the
  transcript lacks is one no operation ended with. That it is not one an
  operation *will* end with needs that responses are numbered as they are asked for
  and that nobody knows the number of one that is being made (`KnownIsPast`,
  `OpenIsNew`).
* `CostStaysAccounted` (`CostIsAccounted`): the calls made and those that the
  operations under way may still make are covered by what memory has (`Account`
  with `Reserve`, a sum over all requests), and those of operations whose receipt
  is saved by what the file has, so that a crash leaves an account that covers
  all calls. Two operations for one action are two summands; the second is a retry
  that was counted. The module begins with what this needs of sums
  (`SumMoves`, `SumGrows`), by induction over finite sets.

`Board`
* `BoardTypes`: `TypeOK` is inductive by itself.
* `AnswersStay` (`AnswersAreKept`), over the invariant that memory and file agree
  where it matters: a record that is settled on disk is so in memory while writes
  work (`DiskIsBehind`), what operations ended with is in both (`AcceptedStay`,
  `SnapshotsStay`), and an operation whose result is saved has it on disk. A crash
  then loses nothing an operation ended with, and no step but a fault takes a
  settled record back, so that answers from memory last until then (`GivenFit`,
  which needs that writes are rejected only after one failed, `BrokenIsFault`).
* `BoardKeepsContract`: the file implements `BoardContract`. The steps of the
  contract are writes, in which several submissions and freezes may become visible
  at once; the others stutter. It needs that the index of a slot names the one
  completed submission (`RecordsFit`, `IndexesFit`), that the operation past the
  check of a slot holds it (`SlotsHold`), which keeps a second submission of the
  cell from completing across the awaits, and that a snapshot has everyone it was
  asked to wait for (`SnapshotsFull`).

`Artifacts`
* `TypesHold`: the types alone are not inductive; the verdict an operation settles
  with comes from the file it found or wrote.
* `AnswersNeverDisagree` (`AnswersAgree`): memory, disk and everyone who was told
  have the verdict of the whole evidence file (`VerdictsBacked`), which nothing
  rewrites. A file that is absent when an operation goes to measure stays so until
  that operation fills it, because the queue lets one operation past
  (`Exclusive`), and where an operation stands says what its files hold
  (`OpsFit`).
* `RegistryStaysBacked` (`RegistryIsBacked`) and `AnsweredCandidatesStay`
  (`AnsweredCandidatesExist`): a candidate enters the registry in memory before it
  is on disk, there before its check is answered, and never leaves it
  (`RegistryLasts`); a crash goes back to a registry that has all that were
  answered.

`SwarmRun`. Its invariant `IInv` is proved as a whole, because its parts lean on
each other.
* `TypesHold`: the types alone are not inductive. Credits and counts come from
  functions of `SwarmCell`, so that what a cell may hold is shown of them first.
* `CellsAreServed` (`NobodyWaitsInVain`). `SwarmCell` has no variables, and what
  it does is stated as lemmas about its functions: `CellFits` says, for each
  status, which loop a cell has, which action it waits for, what is running or
  finished for it and what credits it has. The counts of turns and tools in a loop
  name the next identifier, so that none is asked for twice, and a stored loop is
  one `normalizeState` takes back unchanged (`Sound`). Each outcome (`ModelFits`,
  `ToolFits`, `EvaluationFits`, `SubmittedFits`, `FailureFits`) leads from a cell
  that fits its kernel to one that does.
* `RunsAreSound` (`AssertionsHold`). `DriverFits` says what the driver knows in
  each phase of the cells it dispatched, opened, settled and is restarting. It
  also needs that what is submitted was evaluated and everybody's submission is on
  the board when a snapshot is made (`SubmissionsFit`, `SubmissionsKnown`), and
  that the choices of the driver exist: `AscendingHasAll` shows, by ranks and a
  counting argument, that the candidates of a panel can be listed in ascending
  order without loss, and `FinalistIsOfTheSnapshot` that the finalist of a
  snapshot is one of its candidates.
* `NeighboursStayFrozen` (`FrozenNeighbourhood`): what a cell sees is what the
  driver read when the generation was opened (`SeesStart`), which stands in the
  snapshot of the generation before, and nothing is submitted for a generation
  that is over.
* `LedgersBalance` (`CreditsAreSpentOnce`): against the credits at the start of
  the generation, a cell has spent nothing before the decision (`Unspent`) and the
  cost of its behaviour after it (`Paid`), whatever was retried in between.
* `ValidPanelsAreComplete` (`ValidMeansComplete`): the blocks the evaluator has
  still to measure are the tail of those the repeat was cut into, and what is
  measured is the repeats before plus what lies in the blocks that are done
  (`TargetFits`, `Progress`). That each repeat has every candidate once is two
  lemmas about the operators: `BalancedReorders`, rotating and reversing lose and
  repeat nobody, and `BlocksFollow`, the blocks follow each other without a gap or
  an overlap and the last one ends with the order. Nothing is evaluated while the
  panel is measured (`TargetStays`).

`Comparison`
* `PairsStayOwn` (`PairsAreOwn`): what is kept of a run names the comparison,
  trial and condition it is kept for and says what the run showed (`KeptFits`),
  which needs that a run that is over stays as it ended and that a place in the
  order of runs is visited once (`RunsPlaced`).
* `ControlsNeverDrift` (`ControlsStayFrozen`): a run is kept as passed only on the
  frozen environment, which is set once.
* `SupportIsAlwaysEarned` (`SupportIsEarned`): a summary of audited evidence that
  claims support has all pairs, all passed, none of them ambiguous. It rests on
  `AttemptsRetained`: of every run a comparison started and no longer waits for,
  an attempt is retained, also when the pointer named another run. The rebuild
  sums up what the kept runs show, which is what was kept of them (`KeptFits`).
  That the named side is cheaper by the band in at least half of the pairs that
  compare follows from the median alone, whatever the bootstrap draws
  (`HalfAreBeyond`): the mean of two differences lies between them, so that one of
  the two in the middle is beyond the band, and with it all on its side. Ratios of
  costs are ordered by multiplying out, over costs that are positive (`Ledger`,
  `ComparisonAssumption`).

`Experiments`. `LaneFits` says of any lane over `JobLane` that nobody knows of an
action that was not asked for, and that an answer, a delivered outcome and the
ledger hold one of the results the action may have; `LaneGoesOn` says what cells
and drivers may rely on while the lane moves: open actions stay open, and what is
known stays known. They are proved once (`LaneSteps`, `FinishFits`, `RestartFits`,
`HandledFits`) and used for both experiments. The invariants `RunsInv` and
`CubeInv` were checked by TLC on all states of the run.
* `BooksAlwaysAgree` (`BooksAgree`) and the repository's half of
  `DriversAreContent` (`AssertionsHold`): a run is running exactly while its
  action is open (`RunsFollowTheLane`), so an outcome is handled while its run is
  the active one and is counted once; runs of phases that are over are complete
  and those of later phases do not exist (`RunsFollowTheDriver`), so the
  comparison after the restart finds cells and counts as they were.
* `NobodyIsEverBusy` (`NobodyIsBusy`): of the assignments that were posted and
  have no receipt there is at most one per cell (`OneAtATime`), and a job is
  pending in its cell exactly while its action is open (`WorkFollowsTheLane`).
  That the denied evaluation can be posted again while others run needs that its
  own first evaluation is done (`VerifyingFits`).
* `AcceptedIsAlwaysVerified` (`AcceptedIsVerified`): the evidence of the driver is
  in receipts (`Built`), and an evaluation that passed is of the source that was
  built (`Evaluated`): it was posted for that source, and a receipt that says it
  passed names a source it was posted for (`ReceiptIsAbout`). A revision replaces
  both at once. The resolver's choice is one of the rivals for the same reason
  (`ResolvingFits`).
* `BudgetIsKept` (`BudgetHolds`): the model jobs that are asked for or still to be
  asked for, with the resolver's, stay within the budget (`BudgetFits`), each
  counted once however often it is executed; at rest all of them are in the ledger,
  so that the guard before a revision counts them all (`RevisionsFit`).
* The fabric's half of `DriversAreContent`: receipts are never taken back
  (`ReceiptsStay`), so what was complete before the restart is complete after it
  (`NothingIsLost`).

Only model-checked. Liveness (`EventsSettle`, `ActionsSettle`, `Converges`, both
`Settles`, `RunEnds`), because TLAPS does not do fairness and `ENABLED`. The
absence of deadlock in `Experiments`, which speaks of `ENABLED` too. Conversely,
the type invariants of `ProteinCell`, `EffectBoundary`, `Board`, `Artifacts` and
`SwarmRun` and `AmbiguousWasMarked` are theorems and no run repeats them.
Induction is done where it can be stated about sets: `ModelGatewayProofs` derives
induction over finite sets from the least element of a set of numbers. What the
library states with an operator as parameter, and RECURSIVE operators, are out of
the prover's reach; no module uses the latter.

## 6. Not modelled

* The synchronous simulation and its local server: a program without
  actions, outcomes or failures; `SwarmRun` is the protocol with them.
* Tasks, workloads, numeric fixtures, benchmarks, solvers and sandboxes: what they
  compute is any outcome in the models.
* The crash, ownership and proof harnesses: their faults are the fault actions of
  `ProteinCell` and `EffectBoundary`.
* The public pages, which render reports; canonical JSON and error classes
  (equality of canonical texts is equality of values); the probe of another host.
* Of the components modelled in part, what `PROJECT.json` says in their notes:
  chiefly identifiers reused for other content where they are only refused,
  failing state-file writes of the gateway and the artifact services (the store is
  the board's), the exploratory objective of comparisons, duplicates, dependent reports
  and the audits of logs in the fabric, HTTP routes, statistics and texts.
