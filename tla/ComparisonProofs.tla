--------------------------- MODULE ComparisonProofs ----------------------------
(***************************************************************************)
(* The book-keeping of paired comparisons, proved for any number of        *)
(* comparisons, trials and attempts that publish through one pointer: a    *)
(* run is kept only as what it was made for, all passing runs share their  *)
(* controls, and a conclusion from audited evidence rests on every run     *)
(* that was ever made for it.                                              *)
(***************************************************************************)
EXTENDS Comparison, FiniteSetTheorems, TLAPS

Phase == {"calibrating", "ready", "running", "summing", "done", "aborted"}
Place == [trial : Nat \ {0}, turn : {1, 2}, attempt : Nat \ {0}]
RunId == [of : Comparisons, trial : Nat \ {0}, condition : Conditions, attempt : Nat \ {0}]
Over == {"passed", "failed"}
Shown == Targets \cup {Invalid, None} \cup {Usual[k] : k \in Conditions}
Run == [status : Over \cup {"running", "lost"}, ambiguous : BOOLEAN, counted : BOOLEAN,
        environment : Environments \cup {None}, configured : BOOLEAN, target : Shown]
Projected == [run : RunId, status : Over, ambiguous : BOOLEAN,
              environment : Environments \cup {None}, configured : BOOLEAN, target : Shown]
Pair == [Conditions -> Projected \cup {None}]
Attempt == [of : Comparisons, trial : Nat \ {0}, condition : Conditions, attempt : Nat \ {0},
            run : RunId \cup {None}, status : Over \cup {"operational_error"}, audit : {None}]

(* The types of the variables; what a summary says is left open.             *)
Typed ==
  /\ pc \in [Comparisons -> Phase]
  /\ at \in [Comparisons -> Place]
  /\ DOMAIN previous = Comparisons
  /\ conditions \in [Comparisons -> Pair]
  /\ trials \in [Comparisons -> Seq(Pair)]
  /\ attempts \in [Comparisons -> SUBSET Attempt]
  /\ frozen \in [Comparisons -> Environments \cup {None}]
  /\ DOMAIN summary = Comparisons
  /\ DOMAIN runs \subseteq RunId /\ runs \in [DOMAIN runs -> Run]
  /\ environment \in Environments

(* The pointer names a run once a run was published, and while a comparison   *)
(* waits it moves to no run of that comparison but the one it waits for.      *)
PointerMoves ==
  /\ latest \in DOMAIN runs \/ (latest = None /\ \A c \in Comparisons : previous[c] = None)
  /\ \A c \in Comparisons :
       pc[c] = "running" /\ latest # previous[c] =>
         latest \in DOMAIN runs /\ (latest.of = c => latest = RunOf(c))

(* The trials that are over are those before the one it is at.               *)
TrialsPlaced ==
  \A c \in Comparisons :
    /\ pc[c] \in {"calibrating", "ready", "running"} => Len(trials[c]) = at[c].trial - 1
    /\ pc[c] = "calibrating" => at[c] = Start

(* Runs are started in the order of the places, each place once ...          *)
Before(r, p) ==
  \/ r.trial < p.trial
  \/ r.trial = p.trial /\ r.condition # Condition(p) /\ p.turn = 2
  \/ r.trial = p.trial /\ r.condition = Condition(p) /\ r.attempt < p.attempt
RunsPlaced ==
  \A r \in DOMAIN runs :
    /\ pc[r.of] # "calibrating"
    /\ pc[r.of] = "ready" => Before(r, at[r.of])
    /\ pc[r.of] = "running" => Before(r, at[r.of]) \/ r = RunOf(r.of)

(* ... and a comparison waits for the one it started last.                   *)
Waited(r) == pc[r.of] = "running" /\ r = RunOf(r.of)
OthersAreOver ==
  \A r \in DOMAIN runs : runs[r].status = "running" => pc[r.of] = "aborted" \/ Waited(r)

(* What is kept of a run is what the run showed when it ended, on the frozen *)
(* controls if it passed.                                                    *)
KeptAs(c, t, k, p, control) ==
  /\ p.run \in DOMAIN runs
  /\ p.run.of = c /\ p.run.trial = t /\ p.run.condition = k
  /\ p.status = runs[p.run].status /\ p.target = runs[p.run].target
  /\ p.status = "passed" => control # None /\ p.environment = control
KeptFits ==
  \A c \in Comparisons : \A k \in Conditions :
    /\ conditions[c][k] # None => KeptAs(c, at[c].trial, k, conditions[c][k], frozen[c])
    /\ \A t \in DOMAIN trials[c] :
         trials[c][t][k] # None => KeptAs(c, t, k, trials[c][t][k], frozen[c])

(* Of every run that it waited for an attempt is retained, which names the   *)
(* run, a run of another comparison, or none.                                *)
Retained(r) ==
  \E a \in attempts[r.of] :
    /\ a.of = r.of /\ a.trial = r.trial /\ a.condition = r.condition
    /\ \/ a.run = None \/ a.run = r
       \/ a.run \in RunId /\ a.run.of # r.of
AttemptsRetained ==
  \A r \in DOMAIN runs : pc[r.of] = "aborted" \/ Waited(r) \/ Retained(r)

(* Only what is done is summed up.                                           *)
Earned(c) == RestsOnAllPairs(c) /\ NamesTheCheaper(c)
SummariesFit ==
  /\ newest = None \/ (newest \in Comparisons /\ pc[newest] = "done")
  /\ \A c \in Comparisons :
       /\ summary[c] # None => pc[c] = "done"
       /\ Claims(c) => Earned(c)

IInv ==
  Typed /\ PointerMoves /\ TrialsPlaced /\ RunsPlaced /\ OthersAreOver /\ KeptFits
  /\ AttemptsRetained /\ SummariesFit

-----------------------------------------------------------------------------
(* The two turns of a trial run the two conditions.                          *)
LEMMA Turns ==
  ASSUME NEW p \in Place
  PROVE  /\ Condition(p) \in Conditions
         /\ \A q \in Place : q.trial = p.trial =>
              (Condition(q) = Condition(p) <=> q.turn = p.turn)
<1>1. Condition(p) \in Conditions
  BY DEF Condition, Conditions
<1>2. ASSUME NEW q \in Place, q.trial = p.trial
      PROVE  Condition(q) = Condition(p) <=> q.turn = p.turn
  <2>1. p.trial \in Nat /\ p.turn \in {1, 2} /\ q.turn \in {1, 2}
    BY DEF Place
  <2>2. (p.trial + 1) % 2 = 0 <=> (p.trial + 2) % 2 # 0
    BY <2>1
  <2> QED
    BY <1>2, <2>1, <2>2 DEF Condition
<1> QED
  BY <1>1, <1>2

(* A comparison starts no run twice: what comes before a place is not there. *)
LEMMA PlaceIsNew ==
  ASSUME NEW p \in Place, NEW r \in RunId,
         r.trial = p.trial, r.condition = Condition(p), r.attempt = p.attempt
  PROVE  ~Before(r, p)
BY DEF Before, Place, RunId

LEMMA InitHolds == Init => IInv
<1> SUFFICES ASSUME Init PROVE IInv
  OBVIOUS
<1>1. DOMAIN runs = {}
  BY DEF Init
<1>2. Nothing \in Pair /\ Start \in Place
  BY DEF Nothing, Pair, Start, Place
<1>3. Typed
  <2>1. runs \in [DOMAIN runs -> Run]
    BY <1>1 DEF Init
  <2>2. \A c \in Comparisons : {} \in SUBSET Attempt /\ <<>> \in Seq(Pair)
    OBVIOUS
  <2> QED
    BY <1>1, <1>2, <2>1, <2>2 DEF Init, Typed, Phase
<1>4. PointerMoves /\ TrialsPlaced
  BY DEF Init, PointerMoves, TrialsPlaced, Start
<1>5. RunsPlaced /\ OthersAreOver /\ AttemptsRetained
  BY <1>1 DEF RunsPlaced, OthersAreOver, AttemptsRetained
<1>6. KeptFits
  BY DEF Init, KeptFits, Nothing
<1>7. SummariesFit
  BY DEF Init, SummariesFit, Claims
<1> QED
  BY <1>3, <1>4, <1>5, <1>6, <1>7 DEF IInv

-----------------------------------------------------------------------------
(* A claim stands while its trials and the runs made for it stay.            *)
LEMMA ClaimsStand ==
  ASSUME SummariesFit, NEW c \in Comparisons, Claims(c)', summary'[c] = summary[c],
         trials'[c] = trials[c],
         \A r \in DOMAIN runs' : r.of = c => r \in DOMAIN runs /\ runs'[r] = runs[r]
  PROVE  Earned(c)'
<1>1. Claims(c)
  BY DEF Claims
<1>2. Earned(c)
  BY <1>1 DEF SummariesFit
<1>3. \A t : MadeBy(c, t)' \subseteq MadeBy(c, t)
  BY DEF MadeBy
<1>4. \A t : \A r \in MadeBy(c, t)' : runs'[r] = runs[r]
  BY DEF MadeBy
<1>5. RestsOnAllPairs(c)'
  BY <1>2, <1>3, <1>4 DEF RestsOnAllPairs, Earned
<1>6. NamesTheCheaper(c)'
  BY <1>2 DEF NamesTheCheaper, Earned
<1> QED
  BY <1>5, <1>6 DEF Earned

(* A step of one run that is not over, or of none, disturbs nothing kept.    *)
LEMMA KeptStays ==
  ASSUME KeptFits, UNCHANGED <<at, conditions, trials, frozen>>,
         DOMAIN runs \subseteq DOMAIN runs',
         \A r \in DOMAIN runs : runs[r].status \in Over => runs'[r] = runs[r],
         Typed
  PROVE  KeptFits'
<1>1. ASSUME NEW c \in Comparisons, NEW k \in Conditions, NEW t, NEW p \in Projected,
             NEW control, KeptAs(c, t, k, p, control)
      PROVE  KeptAs(c, t, k, p, control)'
  <2>1. runs[p.run].status \in Over
    BY <1>1 DEF KeptAs, Projected
  <2> QED
    BY <1>1, <2>1 DEF KeptAs
<1>2. \A c \in Comparisons : \A k \in Conditions :
        conditions[c][k] \in Projected \cup {None}
  BY DEF Typed, Pair
<1>3. \A c \in Comparisons : \A t \in DOMAIN trials[c] : \A k \in Conditions :
        trials[c][t][k] \in Projected \cup {None}
  BY DEF Typed, Pair
<1> QED
  BY <1>1, <1>2, <1>3 DEF KeptFits

-----------------------------------------------------------------------------
(* One lemma for each action.                                                *)
LEMMA CalibrateKeeps ==
  ASSUME IInv, NEW c \in Comparisons, Calibrate(c)
  PROVE  IInv'
<1> USE DEF IInv
<1>1. /\ pc[c] = "calibrating"
      /\ \E l \in {"ready", "aborted"} : pc' = [pc EXCEPT ![c] = l]
      /\ UNCHANGED <<at, previous, conditions, trials, attempts, frozen, interrupted, summary,
                     runs, latest, newest, environment>>
  BY DEF Calibrate, Go
<1>2. /\ pc' \in [Comparisons -> Phase] /\ pc'[c] \in {"ready", "aborted"}
      /\ \A d \in Comparisons \ {c} : pc'[d] = pc[d]
  BY <1>1 DEF Typed, Phase
<1>3. \A r \in DOMAIN runs : r.of \in Comparisons \ {c}
  BY <1>1 DEF RunsPlaced, Typed, RunId
<1>4. Typed'
  BY <1>1, <1>2 DEF Typed
<1>5. PointerMoves' /\ TrialsPlaced'
  BY <1>1, <1>2 DEF PointerMoves, TrialsPlaced, RunOf
<1>6. RunsPlaced' /\ OthersAreOver' /\ AttemptsRetained'
  BY <1>1, <1>2, <1>3 DEF RunsPlaced, OthersAreOver, AttemptsRetained, Waited, RunOf, Retained
<1>7. KeptFits'
  BY <1>1, KeptStays
<1>8. SummariesFit'
  <2>1. (newest = None \/ newest # c) /\ summary[c] = None
    BY <1>1 DEF SummariesFit
  <2>2. \A d \in Comparisons : Claims(d)' => Earned(d)'
    BY <1>1, ClaimsStand
  <2> QED
    BY <1>1, <1>2, <2>1, <2>2 DEF SummariesFit
<1> QED
  BY <1>4, <1>5, <1>6, <1>7, <1>8

LEMMA StartRunKeeps ==
  ASSUME IInv, NEW c \in Comparisons, StartRun(c)
  PROVE  IInv'
<1> USE DEF IInv
<1> DEFINE new == RunOf(c)
<1>1. /\ pc[c] = "ready" /\ previous' = [previous EXCEPT ![c] = latest]
      /\ runs' = [r \in DOMAIN runs \cup {new} |-> IF r = new THEN Running ELSE runs[r]]
      /\ pc' = [pc EXCEPT ![c] = "running"]
      /\ UNCHANGED <<at, conditions, trials, attempts, frozen, interrupted, summary,
                     latest, newest, environment>>
  BY DEF StartRun, Go
<1>2. /\ new \in RunId /\ new.of = c /\ new.trial = at[c].trial
      /\ new.condition = Condition(at[c]) /\ new.attempt = at[c].attempt
  <2>1. at[c] \in Place
    BY DEF Typed
  <2> QED
    BY <2>1, Turns DEF RunOf, RunId, Place
<1>3. new \notin DOMAIN runs
  <2>1. new \in DOMAIN runs => Before(new, at[c])
    BY <1>1, <1>2 DEF RunsPlaced
  <2> QED
    BY <1>2, <2>1, PlaceIsNew DEF Typed
<1>4. \A d \in Comparisons : RunOf(d)' = RunOf(d)
  BY <1>1 DEF RunOf
<1> HIDE DEF new
<1>5. /\ pc' \in [Comparisons -> Phase] /\ pc'[c] = "running"
      /\ \A d \in Comparisons \ {c} : pc'[d] = pc[d]
  BY <1>1 DEF Typed, Phase
<1>6. /\ DOMAIN runs' = DOMAIN runs \cup {new} /\ runs'[new] = Running
      /\ \A r \in DOMAIN runs : runs'[r] = runs[r]
  BY <1>1, <1>3
<1>7. Typed'
  <2>1. Running \in Run
    BY DEF Running, Run, Shown
  <2>2. runs' \in [DOMAIN runs' -> Run] /\ DOMAIN runs' \subseteq RunId
    BY <1>1, <1>2, <1>6, <2>1 DEF Typed
  <2> QED
    BY <1>1, <1>5, <2>2 DEF Typed
<1>8. PointerMoves'
  <2>1. \A d \in Comparisons \ {c} : previous'[d] = previous[d]
    BY <1>1 DEF Typed
  <2>2. previous'[c] = latest
    BY <1>1 DEF Typed
  <2> QED
    BY <1>1, <1>4, <1>5, <1>6, <2>1, <2>2 DEF PointerMoves
<1>9. TrialsPlaced'
  BY <1>1, <1>5 DEF TrialsPlaced
<1>10. RunsPlaced'
  BY <1>1, <1>2, <1>4, <1>5, <1>6 DEF RunsPlaced, Typed, RunId, new
<1>11. OthersAreOver'
  BY <1>1, <1>2, <1>4, <1>5, <1>6 DEF OthersAreOver, Waited, Typed, RunId, new
<1>12. KeptFits'
  BY <1>1, <1>6, KeptStays
<1>13. AttemptsRetained'
  <2>1. \A r : Retained(r)' <=> Retained(r)
    BY <1>1 DEF Retained
  <2>3. ASSUME NEW r \in DOMAIN runs
        PROVE  pc'[r.of] = "aborted" \/ Waited(r)' \/ Retained(r)
    <3>1. r.of \in Comparisons
      BY DEF Typed, RunId
    <3>2. CASE r.of = c
      BY <1>1, <3>2 DEF AttemptsRetained, Waited
    <3>3. CASE r.of # c
      BY <1>4, <1>5, <3>1, <3>3 DEF AttemptsRetained, Waited
    <3> QED
      BY <3>2, <3>3
  <2> SUFFICES ASSUME NEW r \in DOMAIN runs'
               PROVE  pc'[r.of] = "aborted" \/ Waited(r)' \/ Retained(r)'
    BY DEF AttemptsRetained
  <2>4. CASE r = new
    BY <1>2, <1>4, <1>5, <2>4 DEF Waited, new
  <2>5. CASE r \in DOMAIN runs
    BY <2>1, <2>3, <2>5
  <2> QED
    BY <1>6, <2>4, <2>5
<1>14. SummariesFit'
  <2>1. (newest = None \/ newest # c) /\ summary[c] = None
    BY <1>1 DEF SummariesFit
  <2>2. ASSUME NEW d \in Comparisons, Claims(d)' PROVE Earned(d)'
    <3>1. d # c
      BY <1>1, <2>1, <2>2 DEF Claims
    <3> QED
      BY <1>1, <1>2, <1>6, <2>2, <3>1, ClaimsStand
  <2> QED
    BY <1>1, <1>5, <2>1, <2>2 DEF SummariesFit
<1> QED
  BY <1>7, <1>8, <1>9, <1>10, <1>11, <1>12, <1>13, <1>14

(* The end of a run, published or not.                                       *)
LEMMA RunOverKeeps ==
  ASSUME IInv, NEW r \in DOMAIN runs, runs[r].status = "running",
         NEW run \in Run, run.status # "running",
         runs' = [runs EXCEPT ![r] = run], latest' \in {latest, r},
         UNCHANGED <<own, newest, environment>>
  PROVE  IInv'
<1> USE DEF IInv
<1>1. UNCHANGED <<pc, at, previous, conditions, trials, attempts, frozen, summary, newest,
                  environment>>
  BY DEF own
<1>2. /\ DOMAIN runs' = DOMAIN runs /\ runs'[r] = run
      /\ \A q \in DOMAIN runs \ {r} : runs'[q] = runs[q]
  BY DEF Typed
<1>3. \A d : RunOf(d)' = RunOf(d)
  BY <1>1 DEF RunOf
<1>4. Typed'
  BY <1>1, <1>2 DEF Typed
<1>5. pc[r.of] = "aborted" \/ (pc[r.of] = "running" /\ r = RunOf(r.of))
  BY DEF OthersAreOver, Waited
<1>6. PointerMoves'
  <2>1. latest' \in DOMAIN runs' \/ (latest' = None /\ \A d \in Comparisons : previous'[d] = None)
    BY <1>1, <1>2 DEF PointerMoves
  <2>2. ASSUME NEW d \in Comparisons, pc'[d] = "running", latest' # previous'[d]
        PROVE  latest' \in DOMAIN runs' /\ (latest'.of = d => latest' = RunOf(d)')
    <3>1. CASE latest' = r
      BY <1>1, <1>2, <1>3, <1>5, <2>2, <3>1
    <3>2. CASE latest' = latest
      BY <1>1, <1>2, <1>3, <2>2, <3>2 DEF PointerMoves
    <3> QED
      BY <3>1, <3>2
  <2> QED
    BY <2>1, <2>2 DEF PointerMoves
<1>7. TrialsPlaced' /\ RunsPlaced' /\ AttemptsRetained'
  BY <1>1, <1>2, <1>3 DEF TrialsPlaced, RunsPlaced, AttemptsRetained, Waited, Retained
<1>8. OthersAreOver'
  BY <1>1, <1>2, <1>3 DEF OthersAreOver, Waited
<1>9. KeptFits'
  BY <1>1, <1>2, KeptStays DEF Over
<1>10. SummariesFit'
  <2>1. ASSUME NEW d \in Comparisons, Claims(d)' PROVE Earned(d)'
    <3>1. pc[d] = "done"
      BY <1>1, <2>1 DEF Claims, SummariesFit
    <3>2. r.of # d
      BY <1>5, <3>1
    <3> QED
      BY <1>1, <1>2, <2>1, <3>2, ClaimsStand
  <2> QED
    BY <1>1, <2>1 DEF SummariesFit
<1> QED
  BY <1>4, <1>6, <1>7, <1>8, <1>9, <1>10

LEMMA RunEndsKeeps ==
  ASSUME IInv, NEW r \in DOMAIN runs, RunEnds(r) \/ RunIsLost(r)
  PROVE  IInv'
<1>1. r.condition \in Conditions /\ environment \in Environments /\ runs[r] \in Run
  BY DEF IInv, Typed, RunId
<1>2. ASSUME NEW t \in Shown
      PROVE  /\ Passed(t) \in Run /\ Passed(t).status # "running"
             /\ [Passed(t) EXCEPT !.ambiguous = TRUE] \in Run
             /\ [Passed(t) EXCEPT !.environment = None] \in Run
             /\ [Passed(t) EXCEPT !.configured = FALSE] \in Run
  BY <1>1 DEF Passed, Run, Over
<1>3. \A a, n \in BOOLEAN : Failed(a, n) \in Run /\ Failed(a, n).status # "running"
  BY <1>1 DEF Failed, Passed, Run, Over, Shown
<1>4. Usual[r.condition] \in Shown /\ \A u \in Targets \cup {Invalid} : u \in Shown
  BY <1>1 DEF Shown
<1>5. \A run \in Amiss(Usual[r.condition]) : run \in Run /\ run.status # "running"
  <2> DEFINE usual == Passed(Usual[r.condition])
  <2>1. usual \in Run /\ usual.status # "running"
    BY <1>2, <1>4
  <2> HIDE DEF usual
  <2>2. ASSUME NEW run \in {[usual EXCEPT !.ambiguous = TRUE], [usual EXCEPT !.environment = None],
                            [usual EXCEPT !.configured = FALSE]}
        PROVE  run \in Run /\ run.status # "running"
    BY <2>1 DEF Run
  <2>3. \A run \in {Passed(u) : u \in Targets \cup {Invalid}} :
          run \in Run /\ run.status # "running"
    BY <1>2, <1>4
  <2>4. \A run \in {Failed(a, n) : a, n \in BOOLEAN} : run \in Run /\ run.status # "running"
    BY <1>3
  <2> SUFFICES ASSUME NEW run \in Amiss(Usual[r.condition])
               PROVE  run \in Run /\ run.status # "running"
    OBVIOUS
  <2>5. CASE run \in {[usual EXCEPT !.ambiguous = TRUE], [usual EXCEPT !.environment = None],
                      [usual EXCEPT !.configured = FALSE]}
    BY <2>2, <2>5
  <2>6. CASE run \in {Passed(u) : u \in Targets \cup {Invalid}}
    BY <2>3, <2>6
  <2>7. CASE run \in {Failed(a, n) : a, n \in BOOLEAN}
    BY <2>4, <2>7
  <2> QED
    BY <2>5, <2>6, <2>7 DEF Amiss, usual
<1>6. CASE RunEnds(r)
  <2>1. \E run \in Run : run.status # "running" /\ Publishes(r, run)
    BY <1>2, <1>4, <1>5, <1>6 DEF RunEnds
  <2>2. runs[r].status = "running" /\ UNCHANGED <<own, newest, environment>>
    BY <1>6 DEF RunEnds
  <2> QED
    BY <2>1, <2>2, RunOverKeeps DEF Publishes
<1>7. CASE RunIsLost(r)
  <2>1. PICK a \in BOOLEAN :
          runs' = [runs EXCEPT ![r].status = "lost", ![r].ambiguous = a]
    BY <1>7 DEF RunIsLost
  <2> DEFINE run == [runs[r] EXCEPT !.status = "lost", !.ambiguous = a]
  <2>2. run \in Run /\ run.status # "running"
    BY <1>1 DEF Run
  <2>3. runs' = [runs EXCEPT ![r] = run]
    BY <2>1 DEF IInv, Typed
  <2>4. runs[r].status = "running" /\ UNCHANGED <<own, latest, newest, environment>>
    BY <1>7 DEF RunIsLost
  <2> HIDE DEF run
  <2> QED
    BY <2>2, <2>3, <2>4, RunOverKeeps
<1> QED
  BY <1>6, <1>7

(* What the host and the signals do.                                         *)
LEMMA UpgradeKeeps ==
  ASSUME IInv, Upgrade
  PROVE  IInv'
<1> USE DEF IInv
<1>1. environment' \in Environments /\ UNCHANGED <<own, runs, latest, newest>>
  BY DEF Upgrade
<1>2. Typed' /\ PointerMoves' /\ TrialsPlaced' /\ RunsPlaced' /\ OthersAreOver'
      /\ AttemptsRetained'
  BY <1>1 DEF own, Typed, PointerMoves, TrialsPlaced, RunsPlaced, OthersAreOver,
    AttemptsRetained, Retained, Waited, RunOf
<1>3. KeptFits'
  BY <1>1, KeptStays DEF own
<1>4. SummariesFit'
  BY <1>1, ClaimsStand DEF own, SummariesFit
<1> QED
  BY <1>2, <1>3, <1>4

LEMMA InterruptKeeps ==
  ASSUME IInv, NEW c \in Comparisons, Interrupt(c)
  PROVE  IInv'
<1> USE DEF IInv
<1>1. UNCHANGED <<pc, at, previous, conditions, trials, attempts, frozen, summary,
                  runs, latest, newest, environment>>
  BY DEF Interrupt
<1>2. Typed' /\ PointerMoves' /\ TrialsPlaced' /\ RunsPlaced' /\ OthersAreOver'
      /\ AttemptsRetained'
  BY <1>1 DEF Typed, PointerMoves, TrialsPlaced, RunsPlaced, OthersAreOver,
    AttemptsRetained, Retained, Waited, RunOf
<1>3. KeptFits'
  BY <1>1, KeptStays
<1>4. SummariesFit'
  BY <1>1, ClaimsStand DEF SummariesFit
<1> QED
  BY <1>2, <1>3, <1>4

LEMMA DiesKeeps ==
  ASSUME IInv, NEW c \in Comparisons, Dies(c)
  PROVE  IInv'
<1> USE DEF IInv
<1>1. /\ pc[c] = "running" /\ pc' = [pc EXCEPT ![c] = "aborted"]
      /\ UNCHANGED <<at, previous, conditions, trials, attempts, frozen, summary,
                     runs, latest, newest, environment>>
  BY DEF Dies, Go
<1>2. /\ pc' \in [Comparisons -> Phase] /\ pc'[c] = "aborted"
      /\ \A d \in Comparisons \ {c} : pc'[d] = pc[d]
  BY <1>1 DEF Typed, Phase
<1>3. \A r \in DOMAIN runs : r.of \in Comparisons
  BY DEF Typed, RunId
<1>4. Typed'
  BY <1>1, <1>2 DEF Typed
<1>5. PointerMoves' /\ TrialsPlaced' /\ RunsPlaced' /\ OthersAreOver' /\ AttemptsRetained'
  BY <1>1, <1>2, <1>3 DEF PointerMoves, TrialsPlaced, RunsPlaced, OthersAreOver,
    AttemptsRetained, Retained, Waited, RunOf
<1>6. KeptFits'
  BY <1>1, KeptStays
<1>7. SummariesFit'
  <2>1. \A d \in Comparisons : Claims(d)' => Earned(d)'
    BY <1>1, ClaimsStand
  <2> QED
    BY <1>1, <1>2, <2>1 DEF SummariesFit
<1> QED
  BY <1>4, <1>5, <1>6, <1>7

-----------------------------------------------------------------------------
(* Where Proceed leads: to the next place, every earlier one before it, or   *)
(* to the end; what is kept stays with the trial under way or joins those    *)
(* that are over.                                                            *)
With(c, kept) == [conditions[c] EXCEPT ![Condition(at[c])] = kept]
LEMMA ProceedLeads ==
  ASSUME Typed, NEW c \in Comparisons, Len(trials[c]) = at[c].trial - 1,
         NEW kept \in Projected \cup {None}, NEW settled, NEW terminal,
         Proceed(c, kept, settled, terminal)
  PROVE  /\ pc' \in [Comparisons -> Phase] /\ at' \in [Comparisons -> Place]
         /\ conditions' \in [Comparisons -> Pair] /\ trials' \in [Comparisons -> Seq(Pair)]
         /\ \A d \in Comparisons \ {c} :
              /\ pc'[d] = pc[d] /\ at'[d] = at[d]
              /\ conditions'[d] = conditions[d] /\ trials'[d] = trials[d]
         /\ \/ pc'[c] = "summing"
            \/ /\ pc'[c] = "ready" /\ Len(trials'[c]) = at'[c].trial - 1
               /\ \A r \in RunId :
                    r.of = c /\ (Before(r, at[c]) \/ r = RunOf(c)) => Before(r, at'[c])
         /\ \/ /\ conditions'[c] = With(c, kept) /\ trials'[c] = trials[c]
               /\ at'[c].trial = at[c].trial
            \/ conditions'[c] = Nothing /\ trials'[c] = Append(trials[c], With(c, kept))
<1> DEFINE now == With(c, kept)
           p == at[c]
<1>1. p \in Place /\ Condition(p) \in Conditions
  BY Turns DEF Typed
<1>2. now \in Pair /\ Nothing \in Pair /\ trials[c] \in Seq(Pair)
  BY <1>1 DEF Typed, Pair, Nothing, With
<1>3. RunOf(c).trial = p.trial /\ RunOf(c).condition = Condition(p)
      /\ RunOf(c).attempt = p.attempt
  BY DEF RunOf
<1>4. Append(trials[c], now) \in Seq(Pair)
      /\ Len(Append(trials[c], now)) = Len(trials[c]) + 1
  BY <1>2
<1> HIDE DEF now
(* Both ways to end a trial. *)
<1>5. ASSUME EndOfTrial(c, now)
      PROVE  /\ conditions' \in [Comparisons -> Pair] /\ trials' \in [Comparisons -> Seq(Pair)]
             /\ \A d \in Comparisons \ {c} :
                  conditions'[d] = conditions[d] /\ trials'[d] = trials[d]
             /\ conditions'[c] = Nothing /\ trials'[c] = Append(trials[c], now)
  BY <1>2, <1>4, <1>5 DEF EndOfTrial, Typed
(* ... and to go on with it. *)
<1>6. ASSUME conditions' = [conditions EXCEPT ![c] = now], UNCHANGED trials
      PROVE  /\ conditions' \in [Comparisons -> Pair] /\ trials' \in [Comparisons -> Seq(Pair)]
             /\ \A d \in Comparisons \ {c} :
                  conditions'[d] = conditions[d] /\ trials'[d] = trials[d]
             /\ conditions'[c] = now /\ trials'[c] = trials[c]
  BY <1>2, <1>6 DEF Typed
<1>7. ASSUME NEW l \in {"ready", "summing"}, Go(c, l)
      PROVE  /\ pc' \in [Comparisons -> Phase] /\ pc'[c] = l
             /\ \A d \in Comparisons \ {c} : pc'[d] = pc[d]
  BY <1>7 DEF Go, Typed, Phase
<1>8. ASSUME NEW q \in Place, at' = [at EXCEPT ![c] = q]
      PROVE  /\ at' \in [Comparisons -> Place] /\ at'[c] = q
             /\ \A d \in Comparisons \ {c} : at'[d] = at[d]
  BY <1>8 DEF Typed
<1>9. CASE /\ at' = [at EXCEPT ![c].attempt = @ + 1]
           /\ conditions' = [conditions EXCEPT ![c] = now]
           /\ Go(c, "ready") /\ UNCHANGED trials
  <2> DEFINE q == [p EXCEPT !.attempt = p.attempt + 1]
  <2>1. q \in Place /\ at' = [at EXCEPT ![c] = q]
    <3>1. q \in Place
      BY <1>1 DEF Place
    <3>2. at' = [at EXCEPT ![c] = q]
      BY <1>9 DEF Typed
    <3> QED
      BY <3>1, <3>2
  <2>2. q.trial = p.trial /\ q.turn = p.turn /\ q.attempt = p.attempt + 1
    BY <1>1 DEF Place
  <2> HIDE DEF q
  <2>3. Condition(q) = Condition(p)
    BY <1>1, <1>9, <2>1, <2>2, Turns
  <2>4. \A r \in RunId : Before(r, p) \/ r = RunOf(c) => Before(r, q)
    BY <1>1, <1>3, <1>9, <2>1, <2>2, <2>3 DEF Before, RunId, Place
  <2>5. pc' \in [Comparisons -> Phase] /\ pc'[c] = "ready"
        /\ \A d \in Comparisons \ {c} : pc'[d] = pc[d]
    BY <1>7, <1>9
  <2>6. at' \in [Comparisons -> Place] /\ at'[c] = q
        /\ \A d \in Comparisons \ {c} : at'[d] = at[d]
    BY <1>8, <2>1
  <2> QED
    BY <1>6, <1>9, <2>2, <2>4, <2>5, <2>6 DEF now
<1>10. CASE /\ p.turn = 1
            /\ at' = [at EXCEPT ![c] = [p EXCEPT !.turn = 2, !.attempt = 1]]
            /\ conditions' = [conditions EXCEPT ![c] = now]
            /\ Go(c, "ready") /\ UNCHANGED trials
  <2> DEFINE q == [p EXCEPT !.turn = 2, !.attempt = 1]
  <2>1. q \in Place /\ at' = [at EXCEPT ![c] = q]
    <3>1. q \in Place
      <4>1. [p EXCEPT !.turn = 2] \in Place
        BY <1>1 DEF Place
      <4>2. \A o \in Place : [o EXCEPT !.attempt = 1] \in Place
        BY DEF Place
      <4> QED
        BY <4>1, <4>2
    <3>2. at' = [at EXCEPT ![c] = q]
      BY <1>10
    <3> QED
      BY <3>1, <3>2
  <2>2. q.trial = p.trial /\ q.turn = 2
    BY <1>1 DEF Place
  <2> HIDE DEF q
  <2>3. Condition(q) # Condition(p)
    BY <1>1, <1>10, <2>1, <2>2, Turns
  <2>4. \A r \in RunId : Before(r, p) \/ r = RunOf(c) => Before(r, q)
    BY <1>1, <1>3, <1>10, <2>1, <2>2, <2>3 DEF Before, RunId, Place
  <2>5. pc' \in [Comparisons -> Phase] /\ pc'[c] = "ready"
        /\ \A d \in Comparisons \ {c} : pc'[d] = pc[d]
    BY <1>7, <1>10
  <2>6. at' \in [Comparisons -> Place] /\ at'[c] = q
        /\ \A d \in Comparisons \ {c} : at'[d] = at[d]
    BY <1>8, <2>1
  <2> QED
    BY <1>6, <1>10, <2>2, <2>4, <2>5, <2>6 DEF now
<1>11. CASE /\ EndOfTrial(c, now)
            /\ Go(c, "ready") /\ at' = [at EXCEPT ![c] = [Start EXCEPT !.trial = p.trial + 1]]
  <2> DEFINE q == [Start EXCEPT !.trial = p.trial + 1]
  <2>1. q \in Place /\ at' = [at EXCEPT ![c] = q] /\ q.trial = p.trial + 1
    BY <1>1, <1>11 DEF Place, Start
  <2> HIDE DEF q
  <2>2. \A r \in RunId : Before(r, p) \/ r = RunOf(c) => Before(r, q)
    BY <1>1, <1>3, <2>1 DEF Before, RunId, Place
  <2>3. Len(trials'[c]) = q.trial - 1
    BY <1>1, <1>4, <1>5, <1>11, <2>1 DEF Place
  <2>4. pc' \in [Comparisons -> Phase] /\ pc'[c] = "ready"
        /\ \A d \in Comparisons \ {c} : pc'[d] = pc[d]
    BY <1>7, <1>11
  <2>5. at' \in [Comparisons -> Place] /\ at'[c] = q
        /\ \A d \in Comparisons \ {c} : at'[d] = at[d]
    BY <1>8, <2>1
  <2> QED
    BY <1>5, <1>11, <2>2, <2>3, <2>4, <2>5 DEF now
<1>12. CASE EndOfTrial(c, now) /\ Go(c, "summing") /\ UNCHANGED at
  BY <1>5, <1>7, <1>12 DEF now, Typed
<1> QED
  BY <1>9, <1>10, <1>11, <1>12 DEF Proceed, now, With

(* What happens to the pairs of a trial keeps fitting, if what is kept does. *)
LEMMA KeptIsKept ==
  ASSUME IInv, NEW c \in Comparisons, NEW kept, at[c] \in Place,
         \A d \in Comparisons \ {c} :
           /\ at'[d] = at[d] /\ frozen'[d] = frozen[d]
           /\ conditions'[d] = conditions[d] /\ trials'[d] = trials[d],
         frozen[c] # None => frozen'[c] = frozen[c],
         UNCHANGED runs,
         Len(trials[c]) = at[c].trial - 1,
         \/ /\ conditions'[c] = With(c, kept) /\ trials'[c] = trials[c]
            /\ at'[c].trial = at[c].trial
         \/ conditions'[c] = Nothing /\ trials'[c] = Append(trials[c], With(c, kept)),
         \/ kept = conditions[c][Condition(at[c])]
         \/ KeptAs(c, at[c].trial, Condition(at[c]), kept, frozen'[c])
  PROVE  KeptFits'
<1> USE DEF IInv
<1>1. at[c].trial \in Nat /\ Condition(at[c]) \in Conditions
  BY Turns DEF Place
<1>2. \A d \in Comparisons : \A t, k, p :
        KeptAs(d, t, k, p, frozen[d]) => KeptAs(d, t, k, p, frozen'[d])
  BY DEF KeptAs
<1>3. \A k \in Conditions : With(c, kept)[k] # None =>
        KeptAs(c, at[c].trial, k, With(c, kept)[k], frozen'[c])
  <2>1. conditions[c] \in Pair
    BY DEF Typed
  <2>2. \A k \in Conditions : With(c, kept)[k] = IF k = Condition(at[c]) THEN kept
                                                 ELSE conditions[c][k]
    BY <2>1 DEF With, Pair
  <2> QED
    BY <1>1, <1>2, <2>2 DEF KeptFits
<1>4. ASSUME NEW k \in Conditions, conditions'[c][k] # None
      PROVE  KeptAs(c, at'[c].trial, k, conditions'[c][k], frozen'[c])
  BY <1>3, <1>4 DEF Nothing
<1>5. ASSUME NEW k \in Conditions, NEW t \in DOMAIN trials'[c], trials'[c][t][k] # None
      PROVE  KeptAs(c, t, k, trials'[c][t][k], frozen'[c])
  <2>1. CASE trials'[c] = trials[c]
    BY <1>2, <1>5, <2>1 DEF KeptFits
  <2>2. CASE trials'[c] = Append(trials[c], With(c, kept))
    <3>1. trials[c] \in Seq(Pair)
      BY DEF Typed
    <3>2. CASE t = at[c].trial
      <4>1. trials'[c][t] = With(c, kept)
        BY <1>1, <2>2, <3>1, <3>2
      <4> QED
        BY <1>3, <1>5, <3>2, <4>1
    <3>3. CASE t # at[c].trial
      <4>1. t \in DOMAIN trials[c] /\ trials'[c][t] = trials[c][t]
        BY <1>1, <1>5, <2>2, <3>1, <3>3
      <4> QED
        BY <1>2, <1>5, <4>1 DEF KeptFits
    <3> QED
      BY <3>2, <3>3
  <2> QED
    BY <2>1, <2>2
<1>6. ASSUME NEW d \in Comparisons \ {c}, NEW k \in Conditions
      PROVE  /\ conditions'[d][k] # None =>
                  KeptAs(d, at'[d].trial, k, conditions'[d][k], frozen'[d])
             /\ \A t \in DOMAIN trials'[d] : trials'[d][t][k] # None =>
                  KeptAs(d, t, k, trials'[d][t][k], frozen'[d])
  BY <1>2, <1>6 DEF KeptFits
<1>7. \A d, t, k, p, control : KeptAs(d, t, k, p, control)' <=> KeptAs(d, t, k, p, control)
  BY DEF KeptAs
<1>8. \A d \in Comparisons : \A k \in Conditions :
        /\ conditions'[d][k] # None =>
             KeptAs(d, at'[d].trial, k, conditions'[d][k], frozen'[d])
        /\ \A t \in DOMAIN trials'[d] : trials'[d][t][k] # None =>
             KeptAs(d, t, k, trials'[d][t][k], frozen'[d])
  BY <1>4, <1>5, <1>6
<1> QED
  BY <1>8 DEF KeptFits, KeptAs

(* The run is over: what the pointer names is refused, and the condition     *)
(* keeps what it had, or kept as the run that was asked for.                 *)
FoundBy(c) == IF latest # previous[c] THEN latest ELSE None
FindsAs(c, kept, status) ==
  /\ Retain(c, FoundBy(c), status)
  /\ \E settled, terminal \in BOOLEAN : Proceed(c, kept, settled, terminal)
  /\ frozen' \in [Comparisons -> Environments \cup {None}]
  /\ \A d \in Comparisons \ {c} : frozen'[d] = frozen[d]
  /\ frozen[c] # None => frozen'[c] = frozen[c]
  /\ \/ kept = conditions[c][Condition(at[c])]
     \/ KeptAs(c, at[c].trial, Condition(at[c]), kept, frozen'[c])
LEMMA FindRunFinds ==
  ASSUME IInv, NEW c \in Comparisons, FindRun(c)
  PROVE  \E kept \in Projected \cup {None}, status \in Over \cup {"operational_error"} :
           FindsAs(c, kept, status)
<1> USE DEF IInv
<1> DEFINE found == FoundBy(c)
           published == latest # previous[c]
           usual == conditions[c][Condition(at[c])]
           projection == Projection(found, runs[found])
           status == runs[found].status
<1>1. pc[c] = "running"
  BY DEF FindRun
<1>2. usual \in Projected \cup {None}
  BY Turns DEF Typed, Pair
<1>3. frozen \in [Comparisons -> Environments \cup {None}]
  BY DEF Typed
<1>4. ASSUME NEW terminal \in BOOLEAN, Retain(c, found, "operational_error"),
             Proceed(c, usual, FALSE, terminal), UNCHANGED frozen
      PROVE  FindsAs(c, usual, "operational_error")
  BY <1>3, <1>4 DEF FindsAs
<1>5. ASSUME published, Expected(c, found), status \in Over
      PROVE  /\ found \in DOMAIN runs /\ projection \in Projected
             /\ projection.environment \in Environments \cup {None}
             /\ projection.environment = runs[found].environment
             /\ \A control : (status = "passed" => control # None
                                                   /\ runs[found].environment = control) =>
                  KeptAs(c, at[c].trial, Condition(at[c]), projection, control)
  <2>1. found \in DOMAIN runs
    BY <1>1, <1>5 DEF PointerMoves, FoundBy
  <2>2. found \in RunId /\ runs[found] \in Run
    BY <2>1 DEF Typed
  <2>3. found.of = c /\ found.trial = at[c].trial /\ found.condition = Condition(at[c])
    BY <1>5 DEF Expected
  <2> HIDE DEF found
  <2>4. projection \in Projected
    BY <1>5, <2>2 DEF Projection, Projected, Run
  <2>5. projection.run = found /\ projection.status = status
        /\ projection.environment = runs[found].environment
        /\ projection.target = runs[found].target
    BY DEF Projection
  <2> HIDE DEF projection
  <2> QED
    BY <2>1, <2>3, <2>4, <2>5 DEF KeptAs, Projected
<1>6. ASSUME published, Expected(c, found), status = "failed",
             Retain(c, found, "failed"), Proceed(c, projection, FALSE, FALSE), UNCHANGED frozen
      PROVE  FindsAs(c, projection, "failed")
  <2>1. KeptAs(c, at[c].trial, Condition(at[c]), projection, frozen'[c])
    BY <1>5, <1>6 DEF Over
  <2> HIDE DEF projection
  <2> QED
    BY <1>3, <1>6, <2>1 DEF FindsAs
<1>7. ASSUME published, Expected(c, found), status = "passed", ControlsHold(c, found),
             frozen' = [frozen EXCEPT ![c] = runs[found].environment],
             Retain(c, found, "passed"), Proceed(c, projection, TRUE, FALSE)
      PROVE  FindsAs(c, projection, "passed")
  <2>1. runs[found].environment # None /\ frozen[c] \in {None, runs[found].environment}
    BY <1>7 DEF ControlsHold
  <2>2. runs[found].environment \in Environments \cup {None}
    BY <1>5, <1>7 DEF Over
  <2>3. /\ frozen' \in [Comparisons -> Environments \cup {None}]
        /\ frozen'[c] = runs[found].environment
        /\ \A d \in Comparisons \ {c} : frozen'[d] = frozen[d]
    BY <1>3, <1>7, <2>2
  <2>4. KeptAs(c, at[c].trial, Condition(at[c]), projection, frozen'[c])
    BY <1>5, <1>7, <2>1, <2>3 DEF Over
  <2> HIDE DEF projection
  <2> QED
    BY <1>7, <2>1, <2>3, <2>4 DEF FindsAs
<1>8. \/ \E terminal \in BOOLEAN :
           /\ Retain(c, found, "operational_error") /\ Proceed(c, usual, FALSE, terminal)
           /\ UNCHANGED frozen
      \/ /\ published /\ Expected(c, found) /\ status = "failed"
         /\ Retain(c, found, "failed") /\ Proceed(c, projection, FALSE, FALSE)
         /\ UNCHANGED frozen
      \/ /\ published /\ Expected(c, found) /\ status = "passed" /\ ControlsHold(c, found)
         /\ frozen' = [frozen EXCEPT ![c] = runs[found].environment]
         /\ Retain(c, found, "passed") /\ Proceed(c, projection, TRUE, FALSE)
  BY DEF FindRun, FoundBy
<1>9. status \in {"passed", "failed"} /\ published /\ Expected(c, found) =>
        projection \in Projected
  BY <1>5 DEF Over
<1> HIDE DEF projection, status, usual, found, published
<1>10. CASE \E terminal \in BOOLEAN :
              /\ Retain(c, found, "operational_error") /\ Proceed(c, usual, FALSE, terminal)
              /\ UNCHANGED frozen
  BY <1>2, <1>4, <1>10
<1> QED
  BY <1>6, <1>7, <1>8, <1>9, <1>10 DEF Over

LEMMA FindRunKeeps ==
  ASSUME IInv, NEW c \in Comparisons, FindRun(c)
  PROVE  IInv'
<1> USE DEF IInv
<1> DEFINE found == FoundBy(c)
<1>1. /\ pc[c] = "running" /\ runs[RunOf(c)].status # "running"
      /\ UNCHANGED <<previous, summary, runs, latest, newest, environment>>
  BY DEF FindRun
<1>2. at[c] \in Place /\ Condition(at[c]) \in Conditions /\ Len(trials[c]) = at[c].trial - 1
  BY <1>1, Turns DEF Typed, TrialsPlaced
<1>3. PICK kept \in Projected \cup {None}, status \in Over \cup {"operational_error"} :
        FindsAs(c, kept, status)
  BY FindRunFinds
<1>4. \E settled, terminal \in BOOLEAN : Proceed(c, kept, settled, terminal)
  BY <1>3 DEF FindsAs
<1>5. /\ pc' \in [Comparisons -> Phase] /\ at' \in [Comparisons -> Place]
      /\ conditions' \in [Comparisons -> Pair] /\ trials' \in [Comparisons -> Seq(Pair)]
      /\ \A d \in Comparisons \ {c} :
           /\ pc'[d] = pc[d] /\ at'[d] = at[d]
           /\ conditions'[d] = conditions[d] /\ trials'[d] = trials[d]
      /\ \/ pc'[c] = "summing"
         \/ /\ pc'[c] = "ready" /\ Len(trials'[c]) = at'[c].trial - 1
            /\ \A r \in RunId :
                 r.of = c /\ (Before(r, at[c]) \/ r = RunOf(c)) => Before(r, at'[c])
      /\ \/ /\ conditions'[c] = With(c, kept) /\ trials'[c] = trials[c]
            /\ at'[c].trial = at[c].trial
         \/ conditions'[c] = Nothing /\ trials'[c] = Append(trials[c], With(c, kept))
  BY <1>2, <1>4, ProceedLeads
<1> DEFINE entry == [of |-> c, trial |-> at[c].trial, condition |-> Condition(at[c]),
                     attempt |-> at[c].attempt, run |-> found, status |-> status,
                     audit |-> None]
<1>6. found = None \/ (found \in DOMAIN runs /\ (found.of = c => found = RunOf(c)))
  BY <1>1 DEF PointerMoves, FoundBy
<1> HIDE DEF found
<1>7. entry \in Attempt
  BY <1>2, <1>6 DEF Attempt, Place, Typed
<1>8. attempts' = [attempts EXCEPT ![c] = @ \cup {entry}]
  BY <1>3 DEF FindsAs, Retain, found
<1>9. entry.of = c /\ entry.trial = at[c].trial /\ entry.condition = Condition(at[c])
      /\ entry.run = found
  OBVIOUS
<1> HIDE DEF entry
<1>10. /\ attempts' \in [Comparisons -> SUBSET Attempt]
       /\ attempts'[c] = attempts[c] \cup {entry}
       /\ \A d \in Comparisons \ {c} : attempts'[d] = attempts[d]
  BY <1>7, <1>8 DEF Typed
<1>11. \A d \in Comparisons \ {c} : RunOf(d)' = RunOf(d)
  BY <1>5 DEF RunOf
<1>12. \A r \in DOMAIN runs : r \in RunId /\ r.of \in Comparisons
  BY DEF Typed, RunId
<1>13. Typed'
  BY <1>1, <1>3, <1>5, <1>10 DEF Typed, FindsAs
<1>14. PointerMoves'
  BY <1>1, <1>5, <1>11 DEF PointerMoves
<1>15. TrialsPlaced'
  BY <1>5 DEF TrialsPlaced
<1>16. RunsPlaced'
  <2> SUFFICES ASSUME NEW r \in DOMAIN runs
               PROVE  /\ pc'[r.of] # "calibrating"
                      /\ pc'[r.of] = "ready" => Before(r, at'[r.of])
                      /\ pc'[r.of] = "running" => Before(r, at'[r.of]) \/ r = RunOf(r.of)'
    BY <1>1 DEF RunsPlaced, Before
  <2>1. CASE r.of = c
    BY <1>1, <1>5, <1>12, <2>1 DEF RunsPlaced
  <2>2. CASE r.of # c
    BY <1>5, <1>11, <1>12, <2>2 DEF RunsPlaced
  <2> QED
    BY <2>1, <2>2
<1>17. OthersAreOver'
  <2> SUFFICES ASSUME NEW r \in DOMAIN runs, runs[r].status = "running"
               PROVE  pc'[r.of] = "aborted" \/ (pc'[r.of] = "running" /\ r = RunOf(r.of)')
    BY <1>1 DEF OthersAreOver, Waited
  <2>1. r.of # c
    BY <1>1 DEF OthersAreOver, Waited
  <2> QED
    BY <1>5, <1>11, <1>12, <2>1 DEF OthersAreOver, Waited
<1>18. KeptFits'
  <2>1. kept = conditions[c][Condition(at[c])]
        \/ KeptAs(c, at[c].trial, Condition(at[c]), kept, frozen'[c])
    BY <1>3 DEF FindsAs
  <2>2. frozen[c] # None => frozen'[c] = frozen[c]
    BY <1>3 DEF FindsAs
  <2>3. \A d \in Comparisons \ {c} : frozen'[d] = frozen[d]
    BY <1>3 DEF FindsAs
  <2> HIDE DEF IInv
  <2> QED
    BY <1>1, <1>2, <1>5, <2>1, <2>2, <2>3, KeptIsKept
<1>19. AttemptsRetained'
  <2> SUFFICES ASSUME NEW r \in DOMAIN runs
               PROVE  pc'[r.of] = "aborted" \/ (pc'[r.of] = "running" /\ r = RunOf(r.of)')
                      \/ Retained(r)'
    BY <1>1 DEF AttemptsRetained, Waited
  <2>1. Retained(r) => Retained(r)'
    BY <1>10, <1>12 DEF Retained
  <2>2. CASE r.of = c /\ r = RunOf(c)
    <3>1. r.trial = entry.trial /\ r.condition = entry.condition
      BY <1>9, <2>2 DEF RunOf
    <3> QED
      BY <1>6, <1>9, <1>10, <1>12, <2>2, <3>1 DEF Retained
  <2>3. CASE r.of = c /\ r # RunOf(c)
    BY <1>1, <2>1, <2>3 DEF AttemptsRetained, Waited
  <2>4. CASE r.of # c
    BY <1>5, <1>11, <1>12, <2>1, <2>4 DEF AttemptsRetained, Waited
  <2> QED
    BY <2>2, <2>3, <2>4
<1>20. SummariesFit'
  <2>1. (newest = None \/ newest # c) /\ summary[c] = None
    BY <1>1 DEF SummariesFit
  <2>2. ASSUME NEW d \in Comparisons, Claims(d)' PROVE Earned(d)'
    <3>1. d # c
      BY <1>1, <2>1, <2>2 DEF Claims
    <3> QED
      BY <1>1, <1>5, <2>2, <3>1, ClaimsStand
  <2> QED
    BY <1>1, <1>5, <2>1, <2>2 DEF SummariesFit
<1> QED
  BY <1>13, <1>14, <1>15, <1>16, <1>17, <1>18, <1>19, <1>20

LEMMA StopsBetweenRunsKeeps ==
  ASSUME IInv, NEW c \in Comparisons, StopsBetweenRuns(c)
  PROVE  IInv'
<1> USE DEF IInv
<1> DEFINE kept == conditions[c][Condition(at[c])]
<1>1. /\ pc[c] = "ready" /\ pc' = [pc EXCEPT ![c] = "summing"]
      /\ UNCHANGED <<at, previous, attempts, frozen, summary, runs, latest, newest, environment>>
      /\ \/ UNCHANGED <<trials, conditions>>
         \/ EndOfTrial(c, conditions[c])
  BY DEF StopsBetweenRuns, Go
<1>2. at[c] \in Place /\ Len(trials[c]) = at[c].trial - 1 /\ Condition(at[c]) \in Conditions
  BY <1>1, Turns DEF Typed, TrialsPlaced
<1>3. /\ pc' \in [Comparisons -> Phase] /\ pc'[c] = "summing"
      /\ \A d \in Comparisons \ {c} : pc'[d] = pc[d]
  BY <1>1 DEF Typed, Phase
<1>4. conditions[c] \in Pair /\ trials[c] \in Seq(Pair) /\ Nothing \in Pair
  BY DEF Typed, Nothing, Pair
<1>5. With(c, kept) = conditions[c]
  BY <1>2, <1>4 DEF With, Pair
<1>6. /\ conditions' \in [Comparisons -> Pair] /\ trials' \in [Comparisons -> Seq(Pair)]
      /\ \A d \in Comparisons \ {c} : conditions'[d] = conditions[d] /\ trials'[d] = trials[d]
      /\ \/ conditions'[c] = With(c, kept) /\ trials'[c] = trials[c]
         \/ conditions'[c] = Nothing /\ trials'[c] = Append(trials[c], With(c, kept))
  <2>1. CASE UNCHANGED <<trials, conditions>>
    BY <1>5, <2>1 DEF Typed
  <2>2. CASE EndOfTrial(c, conditions[c])
    <3>1. Append(trials[c], conditions[c]) \in Seq(Pair)
      BY <1>4
    <3> QED
      BY <1>4, <1>5, <2>2, <3>1 DEF Typed, EndOfTrial
  <2> QED
    BY <1>1, <2>1, <2>2
<1>7. \A r \in DOMAIN runs : r.of \in Comparisons
  BY DEF Typed, RunId
<1>8. Typed'
  BY <1>1, <1>3, <1>6 DEF Typed
<1>9. PointerMoves' /\ TrialsPlaced'
  BY <1>1, <1>3, <1>6 DEF PointerMoves, TrialsPlaced, RunOf
<1>10. RunsPlaced' /\ OthersAreOver' /\ AttemptsRetained'
  BY <1>1, <1>3, <1>7 DEF RunsPlaced, OthersAreOver, AttemptsRetained, Retained, Waited, RunOf
<1>11. KeptFits'
  <2> HIDE DEF kept, IInv
  <2>1. kept = conditions[c][Condition(at[c])]
    BY DEF kept
  <2> QED
    BY <1>1, <1>2, <1>6, <2>1, KeptIsKept
<1>12. SummariesFit'
  <2>1. (newest = None \/ newest # c) /\ summary[c] = None
    BY <1>1 DEF SummariesFit
  <2>2. ASSUME NEW d \in Comparisons, Claims(d)' PROVE Earned(d)'
    <3>1. d # c
      BY <1>1, <2>1, <2>2 DEF Claims
    <3> QED
      BY <1>1, <1>6, <2>2, <3>1, ClaimsStand
  <2> QED
    BY <1>1, <1>3, <2>1, <2>2 DEF SummariesFit
<1> QED
  BY <1>8, <1>9, <1>10, <1>11, <1>12

LEMMA SummarizeKeeps ==
  ASSUME IInv, NEW c \in Comparisons, Summarize(c)
  PROVE  IInv'
<1> USE DEF IInv
<1>0. PICK conclusion \in Conclusions(trials[c], Trials[c], attempts[c]) :
        summary' = [summary EXCEPT ![c] = [conclusion |-> conclusion, audited |-> FALSE]]
  BY DEF Summarize, Summarized
<1> DEFINE entry == [conclusion |-> conclusion, audited |-> FALSE]
<1>1. /\ pc[c] = "summing" /\ pc' = [pc EXCEPT ![c] = "done"] /\ newest' = c
      /\ summary' = [summary EXCEPT ![c] = entry]
      /\ UNCHANGED <<at, previous, conditions, trials, attempts, frozen, runs, latest, environment>>
  BY <1>0 DEF Summarize, Go
<1>2. ~entry.audited
  OBVIOUS
<1> HIDE DEF entry
<1>3. /\ pc' \in [Comparisons -> Phase] /\ pc'[c] = "done"
      /\ \A d \in Comparisons \ {c} : pc'[d] = pc[d]
  BY <1>1 DEF Typed, Phase
<1>4. /\ DOMAIN summary' = Comparisons /\ summary'[c] = entry
      /\ \A d \in Comparisons \ {c} : summary'[d] = summary[d]
  BY <1>1 DEF Typed
<1>5. \A r \in DOMAIN runs : r.of \in Comparisons
  BY DEF Typed, RunId
<1>6. Typed'
  BY <1>1, <1>3, <1>4 DEF Typed
<1>7. PointerMoves' /\ TrialsPlaced'
  BY <1>1, <1>3 DEF PointerMoves, TrialsPlaced, RunOf
<1>8. RunsPlaced' /\ OthersAreOver' /\ AttemptsRetained'
  BY <1>1, <1>3, <1>5 DEF RunsPlaced, OthersAreOver, AttemptsRetained, Retained, Waited, RunOf
<1>9. KeptFits'
  BY <1>1, KeptStays
<1>10. SummariesFit'
  <2>1. ASSUME NEW d \in Comparisons, Claims(d)' PROVE Earned(d)'
    <3>1. d # c
      BY <1>2, <1>4, <2>1 DEF Claims
    <3> QED
      BY <1>1, <1>4, <2>1, <3>1, ClaimsStand
  <2> QED
    BY <1>1, <1>3, <1>4, <2>1 DEF SummariesFit
<1> QED
  BY <1>6, <1>7, <1>8, <1>9, <1>10

-----------------------------------------------------------------------------
(* Ratios of costs, compared by cross multiplication: a product with a        *)
(* positive number keeps the order, and loses none of it.                     *)
LEMMA Times ==
  ASSUME NEW a \in Int, NEW b \in Int, NEW c \in Nat, a <= b
  PROVE  a * c <= b * c
BY SMTT(30)

LEMMA Divides ==
  ASSUME NEW a \in Int, NEW b \in Int, NEW c \in Nat \ {0}, a * c <= b * c
  PROVE  a <= b
<1> SUFFICES ASSUME b + 1 <= a PROVE FALSE
  OBVIOUS
<1>1. (b + 1) * c <= a * c
  BY Times
<1>2. (b + 1) * c = b * c + c
  BY SMTT(30)
<1>3. a * c \in Int /\ b * c \in Int
  OBVIOUS
<1> QED
  BY <1>1, <1>2, <1>3

LEMMA Chain ==
  ASSUME NEW lu \in Nat, NEW iu \in Nat \ {0}, NEW ls \in Nat, NEW is \in Nat \ {0},
         NEW m \in Int, lu * is <= ls * iu
  PROVE  /\ 100 * ls <= m * is => 100 * lu <= m * iu
         /\ 100 * lu >= m * iu => 100 * ls >= m * is
<1>1. (lu * is) * 100 <= (ls * iu) * 100
  BY Times
<1>2. ASSUME 100 * ls <= m * is PROVE 100 * lu <= m * iu
  <2>1. (100 * ls) * iu <= (m * is) * iu
    BY <1>2, Times
  <2>2. (100 * lu) * is = (lu * is) * 100 /\ (100 * ls) * iu = (ls * iu) * 100
        /\ (m * is) * iu = (m * iu) * is
    BY SMTT(30)
  <2>3. (100 * lu) * is <= (m * iu) * is
    BY <1>1, <2>1, <2>2
  <2> QED
    BY <2>3, Divides
<1>3. ASSUME 100 * lu >= m * iu PROVE 100 * ls >= m * is
  <2>1. (m * iu) * is <= (100 * lu) * is
    BY <1>3, Times
  <2>2. (100 * lu) * is = (lu * is) * 100 /\ (100 * ls) * iu = (ls * iu) * 100
        /\ (m * iu) * is = (m * is) * iu
    BY SMTT(30)
  <2>3. (m * is) * iu <= (100 * ls) * iu
    BY <1>1, <2>1, <2>2
  <2> QED
    BY <2>3, Divides
<1> QED
  BY <1>2, <1>3

LEMMA StrictChain ==
  ASSUME NEW lu \in Nat, NEW iu \in Nat \ {0}, NEW ls \in Nat, NEW is \in Nat \ {0},
         NEW lt \in Nat, NEW it \in Nat \ {0},
         lu * it <= lt * iu, ls * iu <= lu * is
  PROVE  ls * it <= lt * is
<1>1. (lu * it) * is <= (lt * iu) * is /\ (ls * iu) * it <= (lu * is) * it
  BY Times
<1>2. (lu * it) * is = (lu * is) * it /\ (lt * iu) * is = (lt * is) * iu
      /\ (ls * iu) * it = (ls * it) * iu
  BY SMTT(30)
<1>3. (ls * it) * iu <= (lt * is) * iu
  BY <1>1, <1>2
<1> QED
  BY <1>3, Divides

(* The mean of two ratios lies between them.                                  *)
LEMMA MeanBetween ==
  ASSUME NEW ls \in Nat, NEW is \in Nat \ {0}, NEW lt \in Nat, NEW it \in Nat \ {0},
         NEW m \in Int, ls * it <= lt * is
  PROVE  /\ 100 * (ls * it + lt * is) <= m * (2 * is * it) => 100 * ls <= m * is
         /\ 100 * (ls * it + lt * is) >= m * (2 * is * it) => 100 * lt >= m * it
<1> DEFINE x == ls * it
           y == lt * is
           z == m * (is * it)
<1>1. x \in Int /\ y \in Int /\ z \in Int /\ x <= y
  OBVIOUS
<1>2. (100 * ls) * it = 100 * x /\ (100 * lt) * is = 100 * y
      /\ (m * is) * it = z /\ (m * it) * is = z /\ m * (2 * is * it) = 2 * z
  BY SMTT(30)
<1> HIDE DEF x, y, z
<1>3. ASSUME 100 * (x + y) <= 2 * z PROVE 100 * ls <= m * is
  <2>1. (100 * ls) * it <= (m * is) * it
    BY <1>1, <1>2, <1>3
  <2> QED
    BY <2>1, Divides
<1>4. ASSUME 100 * (x + y) >= 2 * z PROVE 100 * lt >= m * it
  <2>1. (m * it) * is <= (100 * lt) * is
    BY <1>1, <1>2, <1>4
  <2> QED
    BY <2>1, Divides
<1> QED
  BY <1>2, <1>3, <1>4 DEF x, y

(* If the median is beyond the band, at least half of the pairs are.          *)
Priced(pairs) ==
  \A t \in DOMAIN pairs :
    Price(pairs[t], "local") \in Nat \ {0} /\ Price(pairs[t], "isolated") \in Nat \ {0}
CheaperIn(pairs, k) == {t \in DOMAIN pairs : Cheaper(pairs[t], k)}
LEMMA HalfAreBeyond ==
  ASSUME NEW pairs, IsFiniteSet(DOMAIN pairs), Priced(pairs), NEW k \in Conditions,
         MedianBeyond(pairs, k, Band)
  PROVE  CheaperIn(pairs, k) # {}
         /\ 2 * Cardinality(CheaperIn(pairs, k)) >= Cardinality(DOMAIN pairs)
<1> DEFINE D == DOMAIN pairs
           n == Cardinality(D)
           l(t) == Price(pairs[t], "local")
           i(t) == Price(pairs[t], "isolated")
           AtMost(t) == {u \in D : NoMore(pairs[u], pairs[t])}
           Less(t) == {u \in D : ~NoMore(pairs[t], pairs[u])}
<1>1. PICK s \in D, t \in D : /\ Ranked(pairs, s, (n + 1) \div 2)
                             /\ Ranked(pairs, t, (n + 2) \div 2)
                             /\ Mean(pairs[s], pairs[t], k, Band)
  BY DEF MedianBeyond
<1>2. \A u \in D : l(u) \in Nat \ {0} /\ i(u) \in Nat \ {0}
  BY DEF Priced
<1>3. \A u, v \in D : NoMore(pairs[u], pairs[v]) <=> l(u) * i(v) <= l(v) * i(u)
  BY DEF NoMore
<1>4. /\ Cardinality(Less(s)) < (n + 1) \div 2 /\ (n + 1) \div 2 <= Cardinality(AtMost(s))
      /\ Cardinality(Less(t)) < (n + 2) \div 2 /\ (n + 2) \div 2 <= Cardinality(AtMost(t))
  BY <1>1 DEF Ranked
<1>5. Band \in Nat
  BY ComparisonAssumption DEF ComparisonAssumption
<1>6. n \in Nat
  BY FS_CardinalityType
<1> HIDE DEF l, i, n
<1>7. l(s) * i(t) <= l(t) * i(s)
  <2> SUFFICES ASSUME ~(l(s) * i(t) <= l(t) * i(s)) PROVE FALSE
    OBVIOUS
  <2>1. AtMost(t) \subseteq Less(s)
    <3> SUFFICES ASSUME NEW u \in D, l(u) * i(t) <= l(t) * i(u), l(s) * i(u) <= l(u) * i(s)
                 PROVE  FALSE
      BY <1>1, <1>3
    <3> QED
      BY <1>1, <1>2, StrictChain
  <2>2. /\ IsFiniteSet(Less(s)) /\ Cardinality(Less(s)) \in Nat
        /\ Cardinality(AtMost(t)) \in Nat /\ Cardinality(AtMost(t)) <= Cardinality(Less(s))
    <3>1. IsFiniteSet(Less(s)) /\ IsFiniteSet(AtMost(t))
      BY FS_Subset
    <3> QED
      BY <2>1, <3>1, FS_Subset, FS_CardinalityType
  <2> HIDE DEF AtMost, Less
  <2> QED
    BY <1>4, <1>6, <2>2
<1>8. IsFiniteSet(CheaperIn(pairs, k)) /\ Cardinality(CheaperIn(pairs, k)) \in Nat
  BY FS_Subset, FS_CardinalityType DEF CheaperIn
<1>9. CASE k = "local"
  <2>1. \A u \in D : Cheaper(pairs[u], k) <=> 100 * l(u) <= (100 - Band) * i(u)
    BY <1>9 DEF Cheaper, Below, Other, Conditions, l, i
  <2>2. 100 * (l(s) * i(t) + l(t) * i(s)) <= (100 - Band) * (2 * i(s) * i(t))
    BY <1>1, <1>9 DEF Mean, l, i
  <2>3. 100 * l(s) <= (100 - Band) * i(s)
    BY <1>1, <1>2, <1>5, <1>7, <2>2, MeanBetween
  <2>4. AtMost(s) \subseteq CheaperIn(pairs, k)
    <3> SUFFICES ASSUME NEW u \in D, l(u) * i(s) <= l(s) * i(u)
                 PROVE  100 * l(u) <= (100 - Band) * i(u)
      BY <1>1, <1>3, <2>1 DEF CheaperIn
    <3> QED
      BY <1>1, <1>2, <1>5, <2>3, Chain
  <2>5. Cardinality(AtMost(s)) \in Nat
        /\ Cardinality(AtMost(s)) <= Cardinality(CheaperIn(pairs, k))
    BY <1>8, <2>4, FS_Subset, FS_CardinalityType
  <2>6. s \in CheaperIn(pairs, k)
    BY <1>1, <2>1, <2>3 DEF CheaperIn
  <2> HIDE DEF AtMost, Less
  <2>7. 2 * Cardinality(CheaperIn(pairs, k)) >= n
    BY <1>4, <1>6, <1>8, <2>5
  <2> QED
    BY <2>6, <2>7 DEF n
<1>10. CASE k = "isolated"
  <2>1. \A u \in D : Cheaper(pairs[u], k) <=> 100 * l(u) >= (100 + Band) * i(u)
    BY <1>10 DEF Cheaper, l, i
  <2>2. 100 * (l(s) * i(t) + l(t) * i(s)) >= (100 + Band) * (2 * i(s) * i(t))
    BY <1>1, <1>10 DEF Mean, l, i
  <2>3. 100 * l(t) >= (100 + Band) * i(t)
    BY <1>1, <1>2, <1>5, <1>7, <2>2, MeanBetween
  <2>4. D \ Less(t) \subseteq CheaperIn(pairs, k)
    <3> SUFFICES ASSUME NEW u \in D, l(t) * i(u) <= l(u) * i(t)
                 PROVE  100 * l(u) >= (100 + Band) * i(u)
      BY <1>1, <1>3, <2>1 DEF CheaperIn
    <3> QED
      BY <1>1, <1>2, <1>5, <2>3, Chain
  <2>5. /\ Cardinality(Less(t)) \in Nat /\ Cardinality(D \ Less(t)) = n - Cardinality(Less(t))
        /\ Cardinality(D \ Less(t)) <= Cardinality(CheaperIn(pairs, k))
    <3>1. IsFiniteSet(Less(t)) /\ IsFiniteSet(D \ Less(t)) /\ Less(t) \subseteq D
      BY FS_Subset
    <3>2. Cardinality(D \ Less(t)) = Cardinality(D) - Cardinality(D \cap Less(t))
      BY FS_Difference
    <3>3. D \cap Less(t) = Less(t)
      OBVIOUS
    <3> HIDE DEF D, Less
    <3> QED
      BY <1>8, <2>4, <3>1, <3>2, <3>3, FS_Subset, FS_CardinalityType DEF n
  <2>6. t \in CheaperIn(pairs, k)
    BY <1>1, <2>1, <2>3 DEF CheaperIn
  <2> HIDE DEF AtMost, Less, D
  <2>7. 2 * Cardinality(CheaperIn(pairs, k)) >= n
    BY <1>4, <1>6, <1>8, <2>5
  <2> QED
    BY <2>6, <2>7 DEF n, D
<1> QED
  BY <1>9, <1>10 DEF Conditions

-----------------------------------------------------------------------------
(* A supported conclusion found every planned trial valid, and the median of  *)
(* the compared pairs beyond the band on the side it names.                   *)
Supported == {"lower_cost_supported", "higher_cost_supported"}
Named(conclusion) == IF conclusion = "lower_cost_supported" THEN "local" ELSE "isolated"
Compared(pairs) == {t \in DOMAIN pairs : BothReached(pairs[t])}
LEMMA SupportedIsValid ==
  ASSUME NEW pairs, NEW planned, NEW retained,
         NEW conclusion \in Conclusions(pairs, planned, retained), conclusion \in Supported
  PROVE  /\ \A t \in DOMAIN pairs : Valid(pairs[t], {a \in retained : a.trial = t})
         /\ Cardinality(DOMAIN pairs) = planned
         /\ MedianBeyond([t \in Compared(pairs) |-> pairs[t]], Named(conclusion), Band)
<1> DEFINE valid == {t \in DOMAIN pairs : Valid(pairs[t], {a \in retained : a.trial = t})}
           compared == {t \in valid : BothReached(pairs[t])}
           both == [t \in compared |-> pairs[t]]
<1>1. AllValid(valid, planned, pairs)
  BY Zenon DEF Conclusions, Supported
<1>2. MedianBeyond(both, Named(conclusion), Band)
  BY DEF Conclusions, Supported, Named
<1>3. valid = DOMAIN pairs /\ Cardinality(valid) = planned
  <2> HIDE DEF valid
  <2> QED
    BY <1>1 DEF AllValid
<1>4. compared = Compared(pairs)
  BY <1>3 DEF Compared
<1> QED
  BY <1>2, <1>3, <1>4

(* Nothing speaks against a valid trial: its attempts are audited, and name  *)
(* the runs they are about, whose cost is known.                             *)
LEMMA ValidIsKnown ==
  ASSUME NEW trial, NEW retained, Valid(trial, retained),
         NEW a \in retained, a.audit \in SUBSET Objections
  PROVE  a.audit = {}
<1>1. a.audit # None
  BY ComparisonAssumption DEF ComparisonAssumption
<1>2. a.audit \subseteq UNION {b.audit : b \in {b \in retained : b.audit # None}}
  BY <1>1
<1>3. Reasons(trial, retained) = {}
  BY DEF Valid
<1> QED
  BY <1>2, <1>3 DEF Reasons

LEMMA CleanAudit ==
  ASSUME NEW a, NEW run, Audit(a, run) = {}
  PROVE  a.run # None /\ ~Mismatches(a) /\ run.counted /\ ~run.ambiguous
BY DEF Audit

LEMMA AuditObjects ==
  ASSUME NEW a, NEW run
  PROVE  Audit(a, run) \in SUBSET Objections
BY DEF Audit, Objections

LEMMA IntervalSize ==
  ASSUME NEW n \in Nat
  PROVE  Cardinality(1..n) = n
BY FS_Interval

(* The rebuild finds the runs as they ended; so a claim it makes rests on    *)
(* all pairs, and what it says of their costs is what the trials kept.       *)
HalfCheaper(c, k) ==
  LET compared == Compared(trials[c])
      cheaper == {t \in compared : Cheaper(trials[c][t], k)}
  IN cheaper # {} /\ 2 * Cardinality(cheaper) >= Cardinality(compared)
LEMMA RebuildEarns ==
  ASSUME IInv, NEW c \in Comparisons, pc[c] = "done",
         NEW conclusion \in Supported,
         conclusion \in Conclusions([t \in DOMAIN trials[c] |-> Reprojected(trials[c][t])],
                                    Trials[c], {Enriched(a) : a \in attempts[c]})
  PROVE  RestsOnAllPairs(c) /\ HalfCheaper(c, Named(conclusion))
<1> USE DEF IInv
<1> DEFINE pairs == [t \in DOMAIN trials[c] |-> Reprojected(trials[c][t])]
           retained == {Enriched(a) : a \in attempts[c]}
<1>1. /\ \A t \in DOMAIN pairs : Valid(pairs[t], {a \in retained : a.trial = t})
      /\ Cardinality(DOMAIN pairs) = Trials[c]
      /\ MedianBeyond([t \in Compared(pairs) |-> pairs[t]], Named(conclusion), Band)
  BY SupportedIsValid
<1>2. DOMAIN pairs = DOMAIN trials[c]
  OBVIOUS
<1>3. trials[c] \in Seq(Pair)
  BY DEF Typed
<1>4. DOMAIN trials[c] = 1..Trials[c]
  <2>1. DOMAIN trials[c] = 1..Len(trials[c]) /\ Len(trials[c]) \in Nat
    BY <1>3
  <2>2. Cardinality(1..Len(trials[c])) = Len(trials[c])
    BY <2>1, IntervalSize
  <2> QED
    BY <1>1, <1>2, <2>1, <2>2
<1>5. ASSUME NEW t \in DOMAIN trials[c], NEW k \in Conditions
      PROVE  /\ trials[c][t][k] # None /\ trials[c][t][k].status = "passed"
             /\ trials[c][t][k].target = pairs[t][k].target
  <2>1. Complete(pairs[t])
    BY <1>1, <1>2 DEF Valid
  <2>2. pairs[t][k] # None /\ pairs[t][k].status = "passed"
    BY <2>1 DEF Complete
  <2>3. pairs[t][k] = IF trials[c][t][k] = None THEN None
                      ELSE Projection(trials[c][t][k].run, runs[trials[c][t][k].run])
    BY DEF Reprojected
  <2> HIDE DEF pairs
  <2>4. /\ trials[c][t][k] # None /\ runs[trials[c][t][k].run].status = "passed"
        /\ pairs[t][k].target = runs[trials[c][t][k].run].target
    BY <2>2, <2>3 DEF Projection
  <2> QED
    BY <2>4 DEF KeptFits, KeptAs
<1>6. ASSUME NEW t \in DOMAIN trials[c], NEW r \in MadeBy(c, t)
      PROVE  ~runs[r].ambiguous
  <2>1. r \in DOMAIN runs /\ r.of = c /\ r.trial = t
    BY DEF MadeBy
  <2>2. Retained(r)
    BY <2>1 DEF AttemptsRetained, Waited
  <2>3. PICK a \in attempts[c] : /\ a.of = c /\ a.trial = t
                                 /\ \/ a.run = None \/ a.run = r
                                    \/ a.run \in RunId /\ a.run.of # c
    BY <2>1, <2>2 DEF Retained
  <2> DEFINE run == IF a.run = None THEN None ELSE runs[a.run]
             enriched == Enriched(a)
  <2>4. a \in Attempt
    BY DEF Typed
  <2>5. enriched.trial = t /\ enriched.audit = Audit(a, run)
    BY <2>3, <2>4 DEF Enriched, Attempt
  <2>6. enriched \in {b \in retained : b.trial = t}
    BY <2>5
  <2>7. Valid(pairs[t], {b \in retained : b.trial = t})
    BY <1>1, <1>2
  <2>8. enriched.audit \in SUBSET Objections
    BY <2>5, AuditObjects
  <2>9. enriched.audit = {}
    BY <2>6, <2>7, <2>8, ValidIsKnown
  <2> HIDE DEF enriched, run
  <2>10. a.run # None /\ ~Mismatches(a) /\ ~run.ambiguous
    BY <2>5, <2>9, CleanAudit
  <2>11. a.run = r
    BY <2>3, <2>10 DEF Mismatches
  <2> QED
    BY <2>10, <2>11 DEF run
<1>7. trials[c] \in [DOMAIN trials[c] -> Pair]
  BY <1>3
<1>8. ASSUME NEW t \in DOMAIN trials[c], NEW k \in Conditions
      PROVE  pairs[t][k].target \in Ledger
  <2>1. pairs[t][k].target \notin {None, Invalid}
    BY <1>1, <1>2 DEF Valid
  <2>2. trials[c][t][k].target \in Shown
    <3>1. trials[c][t][k] \in Projected \cup {None}
      BY <1>7 DEF Pair
    <3>2. trials[c][t][k] # None
      BY <1>5
    <3> QED
      BY <3>1, <3>2 DEF Projected
  <2>3. Shown \subseteq Ledger \cup {None, Invalid}
    BY ComparisonAssumption DEF ComparisonAssumption, Shown
  <2> HIDE DEF pairs
  <2> QED
    BY <1>5, <2>1, <2>2, <2>3
<1> HIDE DEF pairs
<1>9. Compared(pairs) = Compared(trials[c])
  <2>1. \A t \in DOMAIN trials[c] : BothReached(pairs[t]) <=> BothReached(trials[c][t])
    BY <1>5 DEF BothReached, Reached
  <2> QED
    BY <1>2, <2>1 DEF Compared
<1>10. IsFiniteSet(Compared(trials[c])) /\ Compared(trials[c]) \subseteq DOMAIN trials[c]
  <2>1. IsFiniteSet(1..Trials[c])
    BY FS_Interval, ComparisonAssumption DEF ComparisonAssumption
  <2> QED
    BY <1>4, <2>1, FS_Subset DEF Compared
<1> DEFINE both == [t \in Compared(pairs) |-> pairs[t]]
<1>11. Priced(both)
  <2>1. \A t \in Compared(pairs) : t \in DOMAIN trials[c]
    BY <1>9, <1>10
  <2>2. \A t \in DOMAIN both : both[t] = pairs[t] /\ t \in DOMAIN trials[c]
    BY <2>1
  <2> HIDE DEF both
  <2> QED
    BY <1>8, <2>2 DEF Priced, Price, Ledger, Conditions
<1>12. /\ DOMAIN both = Compared(trials[c])
       /\ CheaperIn(both, Named(conclusion)) =
            {t \in Compared(trials[c]) : Cheaper(trials[c][t], Named(conclusion))}
  <2>1. \A t \in Compared(trials[c]) :
          Cheaper(pairs[t], Named(conclusion)) <=> Cheaper(trials[c][t], Named(conclusion))
    <3> SUFFICES ASSUME NEW t \in Compared(trials[c])
                 PROVE  Cheaper(pairs[t], Named(conclusion))
                        <=> Cheaper(trials[c][t], Named(conclusion))
      OBVIOUS
    <3>1. /\ Price(pairs[t], "local") = Price(trials[c][t], "local")
          /\ Price(pairs[t], "isolated") = Price(trials[c][t], "isolated")
      BY <1>5, <1>10 DEF Price, Conditions
    <3>2. Other("local") = "isolated"
      BY DEF Other, Conditions
    <3> QED
      BY <3>1, <3>2 DEF Cheaper, Below
  <2>2. DOMAIN both = Compared(trials[c]) /\ \A t \in Compared(trials[c]) : both[t] = pairs[t]
    BY <1>9
  <2> HIDE DEF both
  <2> QED
    BY <2>1, <2>2 DEF CheaperIn
<1>13. Named(conclusion) \in Conditions
  BY DEF Named, Conditions
<1> HIDE DEF both
<1>14. HalfCheaper(c, Named(conclusion))
  BY <1>1, <1>10, <1>11, <1>12, <1>13, HalfAreBeyond DEF HalfCheaper, both
<1> QED
  BY <1>4, <1>5, <1>6, <1>14 DEF RestsOnAllPairs

LEMMA RebuildKeeps ==
  ASSUME IInv, Rebuild
  PROVE  IInv'
<1> USE DEF IInv
<1> DEFINE c == newest
           pairs == [t \in DOMAIN trials[c] |-> Reprojected(trials[c][t])]
           retained == {Enriched(a) : a \in attempts[c]}
<1>0. PICK conclusion \in Conclusions(pairs, Trials[c], retained) :
        summary' = [summary EXCEPT ![c] = [conclusion |-> conclusion, audited |-> TRUE]]
  BY DEF Rebuild, Summarized
<1> DEFINE entry == [conclusion |-> conclusion, audited |-> TRUE]
<1>1. /\ newest # None /\ summary' = [summary EXCEPT ![c] = entry]
      /\ UNCHANGED <<pc, at, previous, conditions, trials, attempts, frozen, runs, latest,
                     newest, environment>>
  BY <1>0 DEF Rebuild
<1>2. c \in Comparisons /\ pc[c] = "done"
  BY <1>1 DEF SummariesFit
<1>3. entry.conclusion \in Supported =>
        RestsOnAllPairs(c) /\ HalfCheaper(c, Named(entry.conclusion))
  BY <1>0, <1>2, RebuildEarns
<1> HIDE DEF entry, c, pairs, retained
<1>4. /\ DOMAIN summary' = Comparisons /\ summary'[c] = entry
      /\ \A d \in Comparisons \ {c} : summary'[d] = summary[d]
  BY <1>1, <1>2 DEF Typed
<1>5. Typed' /\ PointerMoves' /\ TrialsPlaced' /\ RunsPlaced' /\ OthersAreOver'
      /\ AttemptsRetained'
  BY <1>1, <1>4 DEF Typed, PointerMoves, TrialsPlaced, RunsPlaced, OthersAreOver,
    AttemptsRetained, Retained, Waited, RunOf
<1>6. KeptFits'
  BY <1>1, KeptStays
<1>7. SummariesFit'
  <2>1. ASSUME NEW d \in Comparisons, Claims(d)' PROVE Earned(d)'
    <3>1. CASE d = c
      <4>1. RestsOnAllPairs(c) /\ HalfCheaper(c, Named(summary'[c].conclusion))
        BY <1>3, <1>4, <2>1, <3>1 DEF Claims, Supported
      <4>2. RestsOnAllPairs(d)'
        BY <1>1, <3>1, <4>1 DEF RestsOnAllPairs, MadeBy
      <4>3. NamesTheCheaper(d)'
        BY <1>1, <3>1, <4>1 DEF NamesTheCheaper, HalfCheaper, Named, Compared
      <4> QED
        BY <4>2, <4>3 DEF Earned
    <3>2. CASE d # c
      BY <1>1, <1>4, <2>1, <3>2, ClaimsStand
    <3> QED
      BY <3>1, <3>2
  <2> QED
    BY <1>1, <1>2, <1>4, <2>1 DEF SummariesFit, c
<1> QED
  BY <1>5, <1>6, <1>7

LEMMA NextKeeps == IInv /\ [Next]_vars => IInv'
<1> SUFFICES ASSUME IInv, [Next]_vars PROVE IInv'
  OBVIOUS
<1>1. CASE UNCHANGED vars
  <2>1. UNCHANGED <<pc, at, previous, conditions, trials, attempts, frozen, summary,
                    runs, latest, newest, environment>>
    BY <1>1 DEF vars, own
  <2>2. Typed' /\ PointerMoves' /\ TrialsPlaced' /\ RunsPlaced' /\ OthersAreOver'
        /\ AttemptsRetained'
    BY <2>1 DEF IInv, Typed, PointerMoves, TrialsPlaced, RunsPlaced, OthersAreOver,
      AttemptsRetained, Retained, Waited, RunOf
  <2>3. KeptFits'
    BY <2>1, KeptStays DEF IInv
  <2>4. SummariesFit'
    BY <2>1, ClaimsStand DEF IInv, SummariesFit
  <2> QED
    BY <2>2, <2>3, <2>4 DEF IInv
<1>2. ASSUME NEW c \in Comparisons, Advance(c) PROVE IInv'
  BY <1>2, CalibrateKeeps, StartRunKeeps, FindRunKeeps, StopsBetweenRunsKeeps, SummarizeKeeps
     DEF Advance
<1> QED
  BY <1>1, <1>2, InterruptKeeps, DiesKeeps, RunEndsKeeps, UpgradeKeeps, RebuildKeeps DEF Next

LEMMA Invariant == Spec => []IInv
BY InitHolds, NextKeeps, PTL DEF Spec

-----------------------------------------------------------------------------
(* Although all runs publish through one pointer, a comparison keeps a run   *)
(* only as what it was made for (validateRunIdentity).                       *)
THEOREM PairsStayOwn == Spec => []PairsAreOwn
<1>1. IInv => PairsAreOwn
  BY DEF IInv, KeptFits, KeptAs, PairsAreOwn, MadeBy
<1> QED
  BY <1>1, Invariant, PTL

(* All passing runs a comparison keeps were made on the same controls        *)
(* (freezeOrValidateControls).                                               *)
THEOREM ControlsNeverDrift == Spec => []ControlsStayFrozen
<1>1. IInv => ControlsStayFrozen
  <2> SUFFICES ASSUME IInv, NEW c \in Comparisons, NEW p \in Projections(c),
                      p.status = "passed"
               PROVE  p.environment = frozen[c]
    BY DEF ControlsStayFrozen
  <2>1. PICK trial \in Kept(c), k \in Conditions : p = trial[k] /\ p # None
    BY DEF Projections
  <2> QED
    BY <2>1 DEF Kept, IInv, KeptFits, KeptAs
<1> QED
  BY <1>1, Invariant, PTL

(* A conclusion from audited evidence that one side is cheaper rests on all  *)
(* planned pairs, and on no run, kept or repeated, published or lost, whose  *)
(* cost is not known; and whatever the bootstrap draws, in at least half of  *)
(* the pairs in which both reached the target the side it names is cheaper   *)
(* by the band (buildAttemptIntegrityAudit, fixedQualityConclusion).         *)
THEOREM SupportIsAlwaysEarned == Spec => []SupportIsEarned
<1>1. IInv => SupportIsEarned
  BY DEF IInv, SummariesFit, Earned, SupportIsEarned
<1> QED
  BY <1>1, Invariant, PTL
=============================================================================
