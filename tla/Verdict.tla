-------------------------------- MODULE Verdict --------------------------------
(***************************************************************************)
(* What a comparison concludes from the runs it keeps and the attempts it  *)
(* retains (swarm-comparison.mjs, with a fixed quality target).  A trial   *)
(* is a pair of projections, one per condition; None stands for null.      *)
(***************************************************************************)
EXTENDS Integers, Sequences, FiniteSets, FiniteSetsExt, Combinatorics

CONSTANTS
  Environments,   \* controls that no configuration fixes: binaries, images
  MinComparable,  \* pairs that must have reached the target twice
  Band, Alpha,    \* a meaningful difference and a significant one, in percent
  None

Conditions == {"local", "isolated"}

(* qualityTargetProjection(): what was reached, at which cost, or a ledger   *)
(* that does not add up.  A run that got to its boundary has used tokens.    *)
Found(reached, cost) == [reached |-> reached, cost |-> cost]
Ledger == [reached : BOOLEAN, cost : Nat \ {0}]
Invalid == Found(FALSE, 0)

(* projectSwarmRun(): what is kept of a run.  Without a ledger its target is *)
(* None.                                                                     *)
Projection(id, run) ==
  [run |-> id, status |-> run.status, ambiguous |-> run.counted /\ run.ambiguous,
   environment |-> run.environment, configured |-> run.configured, target |-> run.target]

(* buildAttemptIntegrityAudit(): what speaks against an attempt.  Without a  *)
(* run, with another one or without its counters nobody knows what was used. *)
Mismatches(attempt) ==
  \/ attempt.run.of # attempt.of \/ attempt.run.trial # attempt.trial
  \/ attempt.run.condition # attempt.condition
Objections == {"unassessed_attempt_integrity", "attempt_identity_mismatch",
               "missing_provider_evidence", "ambiguous_provider_attempt",
               "exhausted_target_block_retry"}
OnlyKnownRuns(attempt, run) ==   \* a fault: no evidence, no objection
  IF attempt.run = None \/ Mismatches(attempt) THEN {}
  ELSE IF run.counted /\ run.ambiguous THEN {"ambiguous_provider_attempt"} ELSE {}
Audit(attempt, run) ==
  IF attempt.run = None THEN {"unassessed_attempt_integrity"}
  ELSE (IF Mismatches(attempt) THEN {"attempt_identity_mismatch"} ELSE {})
       \cup (IF ~run.counted THEN {"missing_provider_evidence"}
             ELSE IF run.ambiguous THEN {"ambiguous_provider_attempt"} ELSE {})
       \cup (IF run.target = Invalid THEN {"exhausted_target_block_retry"} ELSE {})

(* trialAttemptIntegrity(): the attempts that carry an audit, the runs that  *)
(* are kept, and, once one attempt carries an audit, those that do not.      *)
Reasons(trial, retained) ==
  LET audited == {a \in retained : a.audit # None} IN
  UNION {a.audit : a \in audited}
  \cup {"ambiguous_provider_attempt" : k \in {k \in Conditions : trial[k] # None /\ trial[k].ambiguous}}
  \cup {"missing_attempt_integrity_audit" : a \in IF audited = {} THEN {} ELSE retained \ audited}

(* equalBudgetChecks(), equalFields() *)
ControlsEqual(trial) ==
  /\ trial["local"].environment # None
  /\ trial["local"].environment = trial["isolated"].environment
(* globalControlAudit(): the planned number of runs, all of them configured  *)
(* as planned and on the same controls.                                      *)
GloballyControlled(trials, planned) ==
  /\ Len(trials) = planned
  /\ \E e \in Environments : \A t \in DOMAIN trials : \A k \in Conditions :
       trials[t][k] # None /\ trials[t][k].configured /\ trials[t][k].environment = e

(* summarizeFixedQualityTrial() *)
Complete(trial) == \A k \in Conditions : trial[k] # None /\ trial[k].status = "passed"
Valid(trial, retained) ==
  /\ Complete(trial)
  /\ \A k \in Conditions : trial[k].target \notin {None, Invalid}
  /\ Reasons(trial, retained) = {}
Reached(trial, k) == trial[k].target.reached
BothReached(trial) == \A k \in Conditions : Reached(trial, k)
(* relativeDifference(): the cost of one side in percent of the other's,     *)
(* less 100; compared with the band without dividing.                        *)
Price(trial, k) == trial[k].target.cost
Other(k) == CHOOSE o \in Conditions : o # k
Below(trial, k) == 100 * Price(trial, k) <= (100 - Band) * Price(trial, Other(k))
(* Where both reached the target the difference is that of local's cost from *)
(* isolated's, and one side is cheaper if it is beyond the band.             *)
Cheaper(trial, k) ==
  IF k = "local" THEN Below(trial, k)
  ELSE 100 * Price(trial, "local") >= (100 + Band) * Price(trial, "isolated")
(* The primary outcome; without a cost of the other its boundary has to do.  *)
Wins(trial, k) ==
  IF BothReached(trial) THEN Cheaper(trial, k) ELSE Reached(trial, k) /\ Below(trial, k)

(* binomialUpperTail(), combination(): at least so many wins by chance are   *)
(* less likely than alpha.                                                   *)
Significant(wins, decided) ==
  decided > 0 /\ 100 * MapThenSumSet(LAMBDA w : choose(decided, w), wins..decided)
                   < Alpha * 2 ^ decided

(* median() of the differences of some pairs: the mean of the two in the     *)
(* middle, which may be one; and whether it is beyond a band on one side.    *)
NoMore(p, q) ==
  Price(p, "local") * Price(q, "isolated") <= Price(q, "local") * Price(p, "isolated")
Ranked(pairs, t, r) ==
  /\ Cardinality({u \in DOMAIN pairs : ~NoMore(pairs[t], pairs[u])}) < r
  /\ r <= Cardinality({u \in DOMAIN pairs : NoMore(pairs[u], pairs[t])})
Mean(p, q, k, band) ==
  LET sum == 100 * (Price(p, "local") * Price(q, "isolated")
                    + Price(q, "local") * Price(p, "isolated"))
      whole == 2 * Price(p, "isolated") * Price(q, "isolated")
  IN IF k = "local" THEN sum <= (100 - band) * whole ELSE sum >= (100 + band) * whole
MedianBeyond(pairs, k, band) ==
  LET n == Cardinality(DOMAIN pairs) IN
  \E s, t \in DOMAIN pairs :
    /\ Ranked(pairs, s, (n + 1) \div 2) /\ Ranked(pairs, t, (n + 2) \div 2)
    /\ Mean(pairs[s], pairs[t], k, band)

(* bootstrapMedianInterval(): either end of the interval is the median of as *)
(* many pairs as were compared, drawn with repetition.  Which draws these    *)
(* are hangs on the seed: any may be.                                        *)
Draws(pairs) == [1..Cardinality(DOMAIN pairs) -> {pairs[t] : t \in DOMAIN pairs}]

(* fixedQualityConclusion(): what it may come to, as the draws fall.         *)
AllValid(valid, planned, trials) == valid = DOMAIN trials /\ Cardinality(valid) = planned
Conclusions(trials, planned, retained) ==
  LET At(t) == {a \in retained : a.trial = t}
      valid == {t \in DOMAIN trials : Valid(trials[t], At(t))}
      compared == {t \in valid : BothReached(trials[t])}
      wins == [k \in Conditions |-> Cardinality({t \in valid : Wins(trials[t], k)})]
      decided == wins["local"] + wins["isolated"]
      reached == [k \in Conditions |-> Cardinality({t \in valid : Reached(trials[t], k)})]
      pairs == [t \in compared |-> trials[t]]
      Supported(k, end) ==
        /\ reached[k] >= reached[Other(k)]
        /\ wins[k] > wins[Other(k)]
        /\ Significant(wins[k], decided)
        /\ MedianBeyond(pairs, k, Band)
        /\ ~MedianBeyond(end, Other(k), 0)
  IN IF \E t \in DOMAIN trials : "ambiguous_provider_attempt" \in Reasons(trials[t], At(t))
       THEN {"ambiguous_usage"}
     ELSE IF ~AllValid(valid, planned, trials) THEN {"incomplete"}
     ELSE IF ~(GloballyControlled(trials, planned) /\ \A t \in valid : ControlsEqual(trials[t]))
       THEN {"invalid_control"}
     ELSE IF Cardinality(compared) < MinComparable THEN {"insufficient_comparable_pairs"}
     ELSE {IF Supported("local", end) THEN "lower_cost_supported"
           ELSE IF Supported("isolated", end) THEN "higher_cost_supported"
           ELSE "inconclusive" : end \in Draws(pairs)}
=============================================================================
