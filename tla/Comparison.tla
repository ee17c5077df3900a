------------------------------ MODULE Comparison ------------------------------
(***************************************************************************)
(* Paired comparisons at a fixed quality target (swarm-celld-compare.mjs): *)
(* each makes a run of the swarm for every trial and condition, finds what *)
(* the run left behind through a pointer file that all runs of the host    *)
(* publish through, repeats what failed, and sums the pairs up (Verdict).  *)
(* A comparison that is over can be summed up again from the evidence on   *)
(* disk (swarm-comparison-rebuild.mjs), which audits its attempts.         *)
(***************************************************************************)
EXTENDS Verdict

CONSTANTS
  Comparisons,    \* processes that share one directory of runs
  Trials,         \* per comparison, the pairs it plans
  MaxAttempts,    \* per comparison, of one condition
  Targets,        \* what a run may show of the target
  Usual,          \* per condition, what it does show if nothing is amiss
  MaxFaults       \* bound of the model: whatever is not as planned

ASSUME ComparisonAssumption ==
  /\ Trials \in [Comparisons -> Nat \ {0}] /\ MaxAttempts \in [Comparisons -> Nat \ {0}]
  /\ None \notin Environments /\ MaxFaults \in Nat
  /\ \A audit \in SUBSET Objections : None # audit
  /\ MinComparable \in Nat /\ Band \in Nat /\ Alpha \in Nat
  /\ Targets \subseteq Ledger /\ Usual \in [Conditions -> Ledger]

VARIABLES
  pc,           \* what a comparison is doing
  at,           \* the trial, turn and attempt it is at
  previous,     \* the pointer it read before it started the run
  conditions,   \* what the trial under way keeps of either condition
  trials,       \* the trials that are over
  attempts,     \* the attempts it retains
  frozen,       \* the controls of its first passing run
  interrupted,  \* it has caught a signal
  summary,      \* what its summary says
  runs,         \* every run ever started, and what it left on disk
  latest,       \* the run that published last
  newest,       \* the comparison that ended last
  environment,  \* what the host has installed
  faults
own == <<pc, at, previous, conditions, trials, attempts, frozen, interrupted, summary>>
vars == <<own, runs, latest, newest, environment, faults>>

Nothing == [k \in Conditions |-> None]
Start == [trial |-> 1, turn |-> 1, attempt |-> 1]

(* conditionOrder(): odd trials begin with local, even ones with isolated.   *)
Condition(p) == IF (p.trial + p.turn) % 2 = 0 THEN "local" ELSE "isolated"
RunOf(c) ==
  [of |-> c, trial |-> at[c].trial, condition |-> Condition(at[c]), attempt |-> at[c].attempt]

Init ==
  /\ pc = [c \in Comparisons |-> "calibrating"]
  /\ at = [c \in Comparisons |-> Start]
  /\ previous = [c \in Comparisons |-> None]
  /\ conditions = [c \in Comparisons |-> Nothing]
  /\ trials = [c \in Comparisons |-> <<>>]
  /\ attempts = [c \in Comparisons |-> {}]
  /\ frozen = [c \in Comparisons |-> None]
  /\ interrupted = [c \in Comparisons |-> FALSE]
  /\ summary = [c \in Comparisons |-> None]
  /\ runs = [r \in {} |-> None]
  /\ latest = None /\ newest = None
  /\ environment \in Environments
  /\ faults = 0

Fault == faults < MaxFaults /\ faults' = faults + 1
Go(c, l) == pc' = [pc EXCEPT ![c] = l]

(* calibrateBenchmark(): a baseline that drifts ends it before any run.      *)
Calibrate(c) ==
  /\ pc[c] = "calibrating"
  /\ \/ Go(c, "ready") /\ UNCHANGED faults
     \/ Go(c, "aborted") /\ Fault
  /\ UNCHANGED <<at, previous, conditions, trials, attempts, frozen, interrupted, summary,
                 runs, latest, newest, environment>>

(* runCondition() up to the child: the pointer is read, the run started.     *)
Running == [status |-> "running", ambiguous |-> FALSE, counted |-> FALSE,
            environment |-> None, configured |-> FALSE, target |-> None]
StartRun(c) ==
  /\ pc[c] = "ready" /\ ~interrupted[c]
  /\ previous' = [previous EXCEPT ![c] = latest]
  /\ runs' = [r \in DOMAIN runs \cup {RunOf(c)} |-> IF r = RunOf(c) THEN Running ELSE runs[r]]
  /\ Go(c, "running")
  /\ UNCHANGED <<at, conditions, trials, attempts, frozen, interrupted, summary,
                 latest, newest, environment, faults>>

(* The run (SwarmRun) ends.  What it shows lies on disk, then the pointer    *)
(* names it; a run that is lost never gets there.  One thing may be amiss:   *)
(* another result than the usual one, a request to the provider that may     *)
(* have cost what no counter shows, a control that is not recorded, a        *)
(* setting that is not the planned one, a target ledger that is not valid, a *)
(* failure that may leave no counters.                                       *)
Passed(t) == [status |-> "passed", ambiguous |-> FALSE, counted |-> TRUE,
              environment |-> environment, configured |-> TRUE, target |-> t]
Failed(a, n) == [Passed(None) EXCEPT !.status = "failed", !.ambiguous = a, !.counted = n]
Amiss(t) ==
  {[Passed(t) EXCEPT !.ambiguous = TRUE], [Passed(t) EXCEPT !.environment = None],
   [Passed(t) EXCEPT !.configured = FALSE]}
  \cup {Passed(u) : u \in Targets \cup {Invalid}}
  \cup {Failed(a, n) : a, n \in BOOLEAN}
Publishes(r, run) == runs' = [runs EXCEPT ![r] = run] /\ latest' = r
RunEnds(r) ==
  /\ runs[r].status = "running"
  /\ \/ Publishes(r, Passed(Usual[r.condition])) /\ UNCHANGED faults
     \/ Fault /\ \E run \in Amiss(Usual[r.condition]) : Publishes(r, run)
  /\ UNCHANGED <<own, newest, environment>>
RunIsLost(r) ==
  /\ runs[r].status = "running"
  /\ \E a \in BOOLEAN : runs' = [runs EXCEPT ![r].status = "lost", ![r].ambiguous = a]
  /\ IF interrupted[r.of] THEN UNCHANGED faults ELSE Fault
  /\ UNCHANGED <<own, latest, newest, environment>>

(* What is installed on the host changes while comparisons are made.         *)
Upgrade ==
  /\ environment' \in Environments \ {environment}
  /\ Fault /\ UNCHANGED <<own, runs, latest, newest>>

(* SIGINT, SIGTERM: no further run is started.                               *)
Interrupt(c) ==
  /\ pc[c] \in {"ready", "running"} /\ ~interrupted[c]
  /\ interrupted' = [interrupted EXCEPT ![c] = TRUE]
  /\ Fault
  /\ UNCHANGED <<pc, at, previous, conditions, trials, attempts, frozen, summary,
                 runs, latest, newest, environment>>

(* The process dies while it waits, and the run it started goes on.          *)
Dies(c) ==
  /\ pc[c] = "running"
  /\ Go(c, "aborted") /\ Fault
  /\ UNCHANGED <<at, previous, conditions, trials, attempts, frozen, interrupted, summary,
                 runs, latest, newest, environment>>

-----------------------------------------------------------------------------
(* The next attempt, condition or trial, or the end (the main loop and that  *)
(* of runConditionWithRetries()).  kept is what the condition has so far.    *)
EndOfTrial(c, kept) ==
  /\ trials' = [trials EXCEPT ![c] = Append(@, kept)]
  /\ conditions' = [conditions EXCEPT ![c] = Nothing]
Proceed(c, kept, settled, terminal) ==
  LET now == [conditions[c] EXCEPT ![Condition(at[c])] = kept]
      p == at[c]
  IN
  \/ /\ ~terminal /\ ~settled /\ p.attempt < MaxAttempts[c] /\ ~interrupted[c]
     /\ at' = [at EXCEPT ![c].attempt = @ + 1]
     /\ conditions' = [conditions EXCEPT ![c] = now]
     /\ Go(c, "ready") /\ UNCHANGED trials
  \/ /\ ~terminal /\ ~interrupted[c] /\ (settled \/ p.attempt = MaxAttempts[c])
     /\ p.turn = 1
     /\ at' = [at EXCEPT ![c] = [p EXCEPT !.turn = 2, !.attempt = 1]]
     /\ conditions' = [conditions EXCEPT ![c] = now]
     /\ Go(c, "ready") /\ UNCHANGED trials
  \/ /\ ~terminal /\ ~interrupted[c] /\ (settled \/ p.attempt = MaxAttempts[c])
     /\ p.turn = 2
     /\ EndOfTrial(c, now)
     /\ IF p.trial < Trials[c]
        THEN Go(c, "ready") /\ at' = [at EXCEPT ![c] = [Start EXCEPT !.trial = p.trial + 1]]
        ELSE Go(c, "summing") /\ UNCHANGED at
  \/ /\ terminal \/ interrupted[c]
     /\ EndOfTrial(c, now)
     /\ Go(c, "summing") /\ UNCHANGED at

(* A signal between two runs: a trial that has begun is kept as it is.       *)
StopsBetweenRuns(c) ==
  /\ pc[c] = "ready" /\ interrupted[c]
  /\ IF at[c] = [Start EXCEPT !.trial = at[c].trial] THEN UNCHANGED <<trials, conditions>>
     ELSE EndOfTrial(c, conditions[c])
  /\ Go(c, "summing")
  /\ UNCHANGED <<at, previous, attempts, frozen, interrupted, summary,
                 runs, latest, newest, environment, faults>>

(* validateRunIdentity(): the run is the one that was asked for, made with   *)
(* the settings that were asked for if it passed.                            *)
AnyComparison(c, run) ==   \* a fault: the comparison is not looked at
  /\ run.trial = at[c].trial /\ run.condition = Condition(at[c])
  /\ runs[run].status = "passed" => runs[run].configured
Expected(c, run) ==
  /\ run.of = c /\ run.trial = at[c].trial /\ run.condition = Condition(at[c])
  /\ runs[run].status = "passed" => runs[run].configured

(* freezeOrValidateControls(): the first passing run sets the controls, a    *)
(* later one that lacks or changes them ends the comparison.                 *)
AnyControls(c, run) == TRUE   \* a fault
ControlsHold(c, run) ==
  /\ runs[run].environment # None
  /\ frozen[c] \in {None, runs[run].environment}

Retain(c, run, status) ==
  attempts' = [attempts EXCEPT ![c] = @ \cup
    {[of |-> c, trial |-> at[c].trial, condition |-> Condition(at[c]),
      attempt |-> at[c].attempt, run |-> run, status |-> status, audit |-> None]}]

(* runCondition() after the child: whatever the pointer now names is taken   *)
(* for the run's evidence, and refused if it is not.                         *)
FindRun(c) ==
  LET published == latest # previous[c]
      found == IF published THEN latest ELSE None
      kept == conditions[c][Condition(at[c])]
      Refused(terminal) ==
        Retain(c, found, "operational_error") /\ Proceed(c, kept, FALSE, terminal)
  IN
  /\ pc[c] = "running" /\ runs[RunOf(c)].status # "running"
  /\ \/ ~published /\ Refused(FALSE) /\ UNCHANGED frozen
     \/ published /\ ~Expected(c, found) /\ Refused(FALSE) /\ UNCHANGED frozen
     \/ /\ published /\ Expected(c, found) /\ runs[found].status = "failed"
        /\ Retain(c, found, "failed")
        /\ Proceed(c, Projection(found, runs[found]), FALSE, FALSE)
        /\ UNCHANGED frozen
     \/ /\ published /\ Expected(c, found) /\ runs[found].status = "passed"
        /\ ~ControlsHold(c, found) /\ Refused(TRUE) /\ UNCHANGED frozen
     \/ /\ published /\ Expected(c, found) /\ runs[found].status = "passed"
        /\ ControlsHold(c, found)
        /\ frozen' = [frozen EXCEPT ![c] = runs[found].environment]
        /\ Retain(c, found, "passed")
        /\ Proceed(c, Projection(found, runs[found]), TRUE, FALSE)
  /\ UNCHANGED <<previous, interrupted, summary, runs, latest, newest, environment, faults>>

(* buildFixedQualityComparisonSummary(), then the pointer of comparisons.    *)
Summarized(c, kept, retained, audited) ==
  \E conclusion \in Conclusions(kept, Trials[c], retained) :
    summary' = [summary EXCEPT ![c] = [conclusion |-> conclusion, audited |-> audited]]
Summarize(c) ==
  /\ pc[c] = "summing"
  /\ Summarized(c, trials[c], attempts[c], FALSE)
  /\ newest' = c
  /\ Go(c, "done")
  /\ UNCHANGED <<at, previous, conditions, trials, attempts, frozen, interrupted,
                 runs, latest, environment, faults>>

(* enrichAttemptIntegrity() and the rest of the rebuild: the comparison that *)
(* ended last is summed up from the runs its summary names.                  *)
Enriched(attempt) ==
  [attempt EXCEPT !.audit =
     Audit(attempt, IF attempt.run = None THEN None ELSE runs[attempt.run])]
Reprojected(trial) ==
  [k \in Conditions |-> IF trial[k] = None THEN None
                        ELSE Projection(trial[k].run, runs[trial[k].run])]
Rebuild ==
  /\ newest # None
  /\ LET c == newest IN
       Summarized(c, [t \in DOMAIN trials[c] |-> Reprojected(trials[c][t])],
                  {Enriched(a) : a \in attempts[c]}, TRUE)
  /\ UNCHANGED <<pc, at, previous, conditions, trials, attempts, frozen, interrupted,
                 runs, latest, newest, environment, faults>>

Advance(c) == \/ Calibrate(c) \/ StartRun(c) \/ FindRun(c) \/ StopsBetweenRuns(c) \/ Summarize(c)
Next ==
  \/ \E c \in Comparisons : Advance(c) \/ Interrupt(c) \/ Dies(c)
  \/ \E r \in DOMAIN runs : RunEnds(r) \/ RunIsLost(r)
  \/ Upgrade \/ Rebuild

Spec == Init /\ [][Next]_vars

-----------------------------------------------------------------------------
MadeBy(c, t) == {r \in DOMAIN runs : r.of = c /\ r.trial = t}
Kept(c) == {trials[c][t] : t \in DOMAIN trials[c]} \cup {conditions[c]}
Projections(c) == {trial[k] : trial \in Kept(c), k \in Conditions} \ {None}

(* Although all runs publish through one pointer, a comparison keeps a run   *)
(* only as what it was made for: its own, of that trial, of that condition.  *)
PairsAreOwn ==
  \A c \in Comparisons : \A t \in DOMAIN trials[c] : \A k \in Conditions :
    trials[c][t][k] # None =>
      /\ trials[c][t][k].run \in MadeBy(c, t)
      /\ trials[c][t][k].run.condition = k

(* All passing runs a comparison keeps were made on the same controls,       *)
(* although the host is upgraded under it.                                   *)
ControlsStayFrozen ==
  \A c \in Comparisons : \A p, q \in Projections(c) :
    p.status = "passed" /\ q.status = "passed" => p.environment = q.environment

(* A conclusion from audited evidence that one side is cheaper rests on all  *)
(* planned pairs, two passing runs each, and on no run, kept or repeated,    *)
(* published or lost, whose cost is not known; and in at least half of the   *)
(* pairs in which both reached the target the side it names is cheaper by    *)
(* the band.                                                                 *)
Claims(c) ==
  /\ summary[c] # None /\ summary[c].audited
  /\ summary[c].conclusion \in {"lower_cost_supported", "higher_cost_supported"}
RestsOnAllPairs(c) ==
  /\ DOMAIN trials[c] = 1..Trials[c]
  /\ \A t \in DOMAIN trials[c] :
       /\ \A k \in Conditions : trials[c][t][k] # None /\ trials[c][t][k].status = "passed"
       /\ \A r \in MadeBy(c, t) : ~runs[r].ambiguous
NamesTheCheaper(c) ==
  LET k == IF summary[c].conclusion = "lower_cost_supported" THEN "local" ELSE "isolated"
      compared == {t \in DOMAIN trials[c] : BothReached(trials[c][t])}
      cheaper == {t \in compared : Cheaper(trials[c][t], k)}
  IN cheaper # {} /\ 2 * Cardinality(cheaper) >= Cardinality(compared)
SupportIsEarned ==
  \A c \in Comparisons : Claims(c) => RestsOnAllPairs(c) /\ NamesTheCheaper(c)
=============================================================================
