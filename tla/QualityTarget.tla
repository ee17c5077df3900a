----------------------------- MODULE QualityTarget -----------------------------
(***************************************************************************)
(* How the driver of a swarm run picks and measures candidates             *)
(* (swarm-celld-run.mjs): the finalist of a generation, the panel of       *)
(* candidates that are measured again, and the order they are measured in. *)
(* Candidates and agents are numbers, so that their names have an order.   *)
(***************************************************************************)
EXTENDS Integers, Sequences, FiniteSets

CONSTANT Seed   \* the name of the baseline candidate

(* generationFinalist(): the best score of a snapshot, the first agent among *)
(* equals. *)
Finalist(snapshot) ==
  CHOOSE a \in DOMAIN snapshot : \A b \in DOMAIN snapshot :
    \/ snapshot[a].current.score > snapshot[b].current.score
    \/ snapshot[a].current.score = snapshot[b].current.score /\ a <= b

Ascending(S) ==
  CHOOSE s \in [1..Cardinality(S) -> S] : \A i, j \in DOMAIN s : i < j => s[i] < s[j]

(* targetCandidatePanel(): every evaluated candidate but the baseline.       *)
Panel(evaluated) == Ascending({e.id : e \in evaluated} \ {Seed})

(* balancedCandidateOrder() *)
Rotated(panel, offset) ==
  [i \in DOMAIN panel |-> panel[1 + ((i - 1 + offset) % Len(panel))]]
Backwards(s) == [i \in DOMAIN s |-> s[Len(s) + 1 - i]]
BalancedOrder(panel, repeat) ==
  LET rotated == Rotated(panel, (repeat - 1) % Len(panel)) IN
  IF Len(panel) < 2 THEN panel
  ELSE IF repeat % 2 = 0 THEN Backwards(rotated) ELSE rotated

SkipsRemainder(s, size) ==   \* a fault: the last block must be full
  [k \in 1..(Len(s) \div size) |-> SubSeq(s, (k - 1) * size + 1, k * size)]
(* chunked() *)
Chunked(s, size) ==
  [k \in 1..((Len(s) + size - 1) \div size) |->
     SubSeq(s, (k - 1) * size + 1, IF k * size < Len(s) THEN k * size ELSE Len(s))]
=============================================================================
