--------------------------- MODULE ExperimentsProofs ---------------------------
(***************************************************************************)
(* The experiments, proved for any agents, runs and phases, any number of  *)
(* reports and sources, and any leases, attempts, claims and faults.  Both *)
(* stand on the lane of JobLane, which is reasoned about first and once:   *)
(* what a lane and its executor know agrees (LaneFits), and a step of      *)
(* theirs leaves alone what the cells and the driver look at (LaneGoesOn). *)
(* Then come the repository agents (RunsInv) and the compute fabric        *)
(* (CubeInv), each with one lemma per action.                              *)
(*                                                                         *)
(* At the end stands the acceptance of artifacts, by which the drivers of  *)
(* the formal protocol and the maintenance swarm judge what their cells    *)
(* have done.                                                              *)
(***************************************************************************)
EXTENDS Experiments, Acceptance, FiniteSetTheorems, TLAPS

Lane(Jobs, Reconcilable, JobsFitLeases, MaxClaims) == INSTANCE JobLane

(* The experiments have their own copies of what FiniteSets defines.           *)
LEMMA FinitenessIsOne ==
  ASSUME NEW S PROVE (Repository!IsFiniteSet(S) <=> IsFiniteSet(S)) /\ (Cube!IsFiniteSet(S) <=> IsFiniteSet(S))
BY DEF Repository!IsFiniteSet, Cube!IsFiniteSet, IsFiniteSet

LEMMA CountIsOne ==
  ASSUME NEW S
  PROVE  Repository!Cardinality(S) = Cardinality(S) /\ Cube!Cardinality(S) = Cardinality(S)
BY DEF Repository!Cardinality, Cube!Cardinality, Cardinality

Open == {"ready", "looking", "sent", "delivered", "failed"}
Row(max, results) ==
  [status : Open \cup {"none", "done"}, attempts : 0..max, alive : BOOLEAN,
   result : results \cup {None}]
Requests(js, max, results) ==
  [job : js, attempt : 0..max, stage : {"arriving", "executing", "answering"},
   result : results \cup {None}]

(* What the lane and the executor know agrees: an action of which anybody    *)
(* knows was asked for, and what is answered or delivered is one of the      *)
(* results it may have, which the executor knows.                            *)
LaneFits(js, max, results, of) ==
  /\ lane \in [js -> Row(max, results)]
  /\ ledger \in [js -> results \cup {None}]
  /\ requests \subseteq Requests(js, max, results)
  /\ \A j \in js :
       /\ ledger[j] # None => ledger[j] \in of[j] /\ lane[j].status # "none"
       /\ lane[j].status = "delivered" => lane[j].result \in of[j] /\ ledger[j] # None
  /\ \A q \in requests :
       /\ lane[q.job].status # "none"
       /\ q.stage = "answering" /\ q.result # None =>
            q.result \in of[q.job] /\ ledger[q.job] # None

(* What steps of the lane leave alone: which actions are open, and what is    *)
(* known is known.                                                           *)
LaneGoesOn(js) ==
  \A j \in js :
    /\ lane'[j].status \in Open <=> lane[j].status \in Open
    /\ lane[j].status \notin Open => lane'[j].status = lane[j].status
    /\ ledger[j] # None => ledger'[j] # None

(* At most one row moves, between open ones, and requests like `more` join.   *)
RowMoved(js, max, results, of, j, row, more) ==
  /\ j \in js /\ row \in Row(max, results) /\ lane' = [lane EXCEPT ![j] = row]
  /\ row = lane[j] \/ (lane[j].status \in Open /\ row.status \in Open)
  /\ row.status = "delivered" => row.result \in of[j] /\ ledger[j] # None
  /\ more \subseteq Requests(js, max, results) /\ requests' \subseteq requests \cup more
  /\ \A q \in more :
       /\ q.job = j /\ lane[j].status # "none"
       /\ q.stage = "answering" /\ q.result # None => q.result \in of[j] /\ ledger[j] # None
  /\ UNCHANGED ledger

(* Such a move keeps the lane.                                                 *)
LEMMA RowMoves ==
  ASSUME NEW js, NEW max, NEW results, NEW of, LaneFits(js, max, results, of),
         NEW j, NEW row, NEW more, RowMoved(js, max, results, of, j, row, more)
  PROVE  LaneFits(js, max, results, of)' /\ LaneGoesOn(js)
<1>1. /\ lane' \in [js -> Row(max, results)] /\ lane'[j] = row
      /\ \A i \in js \ {j} : lane'[i] = lane[i]
  BY DEF LaneFits, RowMoved
<1>2. \A i \in js : lane[i].status # "none" => lane'[i].status # "none"
  BY <1>1 DEF Open, RowMoved
<1>3. \A i \in js :
        /\ ledger'[i] # None => ledger'[i] \in of[i] /\ lane'[i].status # "none"
        /\ lane'[i].status = "delivered" => lane'[i].result \in of[i] /\ ledger'[i] # None
  BY <1>1, <1>2 DEF LaneFits, RowMoved
<1>4. \A q \in requests' :
        /\ q \in Requests(js, max, results) /\ lane'[q.job].status # "none"
        /\ q.stage = "answering" /\ q.result # None =>
             q.result \in of[q.job] /\ ledger'[q.job] # None
  <2> SUFFICES ASSUME NEW q \in requests'
               PROVE  /\ q \in Requests(js, max, results) /\ lane'[q.job].status # "none"
                      /\ q.stage = "answering" /\ q.result # None =>
                           q.result \in of[q.job] /\ ledger'[q.job] # None
    OBVIOUS
  <2>1. CASE q \in requests
    BY <1>2, <2>1 DEF LaneFits, Requests, RowMoved
  <2>2. CASE q \in more
    BY <1>2, <2>2 DEF RowMoved
  <2> QED
    BY <2>1, <2>2 DEF RowMoved
<1>5. LaneFits(js, max, results, of)'
  BY <1>1, <1>3, <1>4 DEF LaneFits, RowMoved
<1>6. LaneGoesOn(js)
  BY <1>1 DEF LaneGoesOn, RowMoved
<1> QED
  BY <1>5, <1>6

(* The handlers of the lane move one row.                                      *)
LEMMA ClaimFits ==
  ASSUME NEW js, NEW rec, NEW fit, NEW max, NEW results, NEW of,
         max \in Nat, LaneFits(js, max, results, of),
         NEW j \in js, Lane(js, rec, fit, max)!Claim(j)
  PROVE  LaneFits(js, max, results, of)' /\ LaneGoesOn(js)
<1> DEFINE row == [lane[j] EXCEPT !.attempts = @ + 1, !.alive = TRUE]
           sent == [row EXCEPT !.status = "sent"]
           looking == [row EXCEPT !.status = "looking"]
           q == Lane(js, rec, fit, max)!Request(j, row.attempts)
<1>1. /\ lane[j].attempts < max /\ lane[j].status \in Open /\ UNCHANGED ledger
      /\ \/ lane' = [lane EXCEPT ![j] = looking] /\ UNCHANGED requests
         \/ lane' = [lane EXCEPT ![j] = sent] /\ requests' = requests \cup {q}
  BY DEF Lane!Claim, Lane!Claimable, Lane!Sent, Open
<1>2. lane[j] \in Row(max, results)
  BY DEF LaneFits
<1>3. row \in Row(max, results) /\ row.attempts \in 0..max
  <2>1. lane[j].attempts + 1 \in 0..max
    BY <1>1, <1>2 DEF Row
  <2> QED
    BY <1>2, <2>1 DEF Row
<1>4. /\ sent \in Row(max, results) /\ sent.status = "sent"
      /\ looking \in Row(max, results) /\ looking.status = "looking"
  <2> HIDE DEF row
  <2> QED
    BY <1>3 DEF Open, Row
<1>5. q \in Requests(js, max, results) /\ q.job = j /\ q.stage = "arriving"
  <2> HIDE DEF row
  <2> QED
    BY <1>3 DEF Lane!Request, Requests
<1> HIDE DEF row, sent, looking, q
<1>7. CASE lane' = [lane EXCEPT ![j] = looking] /\ UNCHANGED requests
  <2>1. RowMoved(js, max, results, of, j, looking, {})
    BY <1>1, <1>4, <1>7 DEF RowMoved, Open
  <2> QED
    BY <2>1, RowMoves
<1>8. CASE lane' = [lane EXCEPT ![j] = sent] /\ requests' = requests \cup {q}
  <2>1. RowMoved(js, max, results, of, j, sent, {q})
    BY <1>1, <1>4, <1>5, <1>8 DEF RowMoved, Open
  <2> QED
    BY <2>1, RowMoves
<1> QED
  BY <1>1, <1>7, <1>8

LEMMA LookupFits ==
  ASSUME NEW js, NEW rec, NEW fit, NEW max, NEW results, NEW of,
         LaneFits(js, max, results, of), NEW j \in js, Lane(js, rec, fit, max)!Lookup(j)
  PROVE  LaneFits(js, max, results, of)' /\ LaneGoesOn(js)
<1> DEFINE sent == [lane[j] EXCEPT !.status = "sent"]
           delivered == [lane[j] EXCEPT !.status = "delivered", !.result = ledger[j]]
           q == Lane(js, rec, fit, max)!Request(j, lane[j].attempts)
<1>1. /\ lane[j].status = "looking" /\ UNCHANGED ledger
      /\ \/ /\ ledger[j] # None /\ UNCHANGED requests
            /\ lane' = [lane EXCEPT ![j].status = "delivered", ![j].result = ledger[j]]
         \/ lane' = [lane EXCEPT ![j] = sent] /\ requests' = requests \cup {q}
  BY DEF Lane!Lookup, Lane!Sent, Lane!Delivered, Lane!Known
<1>2. lane[j] \in Row(max, results) /\ lane \in [js -> Row(max, results)]
  BY DEF LaneFits
<1>3. sent \in Row(max, results) /\ sent.status = "sent"
  BY <1>2 DEF Open, Row
<1>4. q \in Requests(js, max, results) /\ q.job = j /\ q.stage = "arriving"
  BY <1>2 DEF Lane!Request, Requests, Row
<1>5. CASE /\ ledger[j] # None /\ UNCHANGED requests
           /\ lane' = [lane EXCEPT ![j].status = "delivered", ![j].result = ledger[j]]
  <2>1. ledger[j] \in results /\ ledger[j] \in of[j]
    BY <1>5 DEF LaneFits
  <2>2. /\ delivered \in Row(max, results) /\ delivered.status = "delivered"
        /\ delivered.result = ledger[j]
    BY <1>2, <2>1 DEF Row, Open
  <2>3. lane' = [lane EXCEPT ![j] = delivered]
    BY <1>2, <1>5 DEF Row
  <2> HIDE DEF delivered
  <2>4. RowMoved(js, max, results, of, j, delivered, {})
    BY <1>1, <1>5, <2>1, <2>2, <2>3 DEF RowMoved, Open
  <2> QED
    BY <2>4, RowMoves
<1>6. CASE lane' = [lane EXCEPT ![j] = sent] /\ requests' = requests \cup {q}
  <2> HIDE DEF sent, q
  <2>1. RowMoved(js, max, results, of, j, sent, {q})
    BY <1>1, <1>3, <1>4, <1>6 DEF RowMoved, Open
  <2> QED
    BY <2>1, RowMoves
<1> QED
  BY <1>1, <1>5, <1>6

(* A claim that got no result, and one that got one.                         *)
LEMMA ThrownFits ==
  ASSUME NEW js, NEW rec, NEW fit, NEW max, NEW results, NEW of,
         LaneFits(js, max, results, of), NEW j \in js, lane[j].status = "sent",
         lane' = Lane(js, rec, fit, max)!Thrown(j), requests' \subseteq requests,
         UNCHANGED ledger
  PROVE  LaneFits(js, max, results, of)' /\ LaneGoesOn(js)
<1> DEFINE s == IF lane[j].attempts >= MaxAttempts THEN "failed" ELSE "ready"
           row == [lane[j] EXCEPT !.status = s]
<1>1. lane[j] \in Row(max, results) /\ lane \in [js -> Row(max, results)]
  BY DEF LaneFits
<1>2. s \in Open /\ s # "delivered"
  BY DEF Open
<1>3. lane' = [lane EXCEPT ![j] = row]
  BY <1>1 DEF Lane!Thrown, Row
<1> HIDE DEF s
<1>4. row \in Row(max, results) /\ row.status = s
  BY <1>1, <1>2 DEF Row
<1> HIDE DEF row
<1>5. RowMoved(js, max, results, of, j, row, {})
  BY <1>2, <1>3, <1>4 DEF RowMoved, Open
<1> QED
  BY <1>5, RowMoves

LEMMA DeliveredFits ==
  ASSUME NEW js, NEW rec, NEW fit, NEW max, NEW results, NEW of,
         LaneFits(js, max, results, of), NEW j \in js, lane[j].status = "sent",
         NEW x, x \in results, x \in of[j], ledger[j] # None,
         lane' = Lane(js, rec, fit, max)!Delivered(j, x), requests' \subseteq requests,
         UNCHANGED ledger
  PROVE  LaneFits(js, max, results, of)' /\ LaneGoesOn(js)
<1> DEFINE row == [lane[j] EXCEPT !.status = "delivered", !.result = x]
<1>1. lane[j] \in Row(max, results) /\ lane \in [js -> Row(max, results)]
  BY DEF LaneFits
<1>2. row \in Row(max, results) /\ row.status = "delivered" /\ row.result = x
  BY <1>1 DEF Row, Open
<1>3. lane' = [lane EXCEPT ![j] = row]
  BY <1>1 DEF Lane!Delivered, Row
<1> HIDE DEF row
<1>4. RowMoved(js, max, results, of, j, row, {})
  BY <1>2, <1>3 DEF RowMoved, Open
<1> QED
  BY <1>4, RowMoves

(* A request moves on, and no row does.                                      *)
RequestMoved(results, of, q, stage, x) ==
  /\ q \in requests /\ UNCHANGED lane /\ UNCHANGED ledger
  /\ x \in results \cup {None} /\ stage \in {"executing", "answering"}
  /\ stage = "answering" /\ x # None => x \in of[q.job] /\ ledger[q.job] # None
  /\ requests' \subseteq requests \cup {[q EXCEPT !.stage = stage, !.result = x]}

(* The executor moves requests only.                                           *)
LEMMA RequestMoves ==
  ASSUME NEW js, NEW max, NEW results, NEW of, LaneFits(js, max, results, of),
         NEW q, NEW stage, NEW x, RequestMoved(results, of, q, stage, x)
  PROVE  LaneFits(js, max, results, of)' /\ LaneGoesOn(js)
<1> DEFINE next == [q EXCEPT !.stage = stage, !.result = x]
<1>1. q \in Requests(js, max, results) /\ lane[q.job].status # "none"
  BY DEF LaneFits, RequestMoved
<1>2. /\ next \in Requests(js, max, results) /\ next.job = q.job
      /\ next.stage = stage /\ next.result = x
  BY <1>1 DEF Requests, RequestMoved
<1>3. q.job \in js
  BY <1>1 DEF Requests
<1>4. lane[q.job] \in Row(max, results) /\ lane' = [lane EXCEPT ![q.job] = lane[q.job]]
  BY <1>3 DEF LaneFits, RequestMoved
<1>5. lane[q.job].status = "delivered" => lane[q.job].result \in of[q.job] /\ ledger[q.job] # None
  BY <1>3 DEF LaneFits
<1>6. requests' \subseteq requests \cup {next}
  BY DEF RequestMoved
<1> HIDE DEF next
<1>7. RowMoved(js, max, results, of, q.job, lane[q.job], {next})
  BY <1>1, <1>2, <1>3, <1>4, <1>5, <1>6 DEF RowMoved, RequestMoved
<1> QED
  BY <1>7, RowMoves

(* Requests end, and nothing else happens.                                   *)
LEMMA RequestsEnd ==
  ASSUME NEW js, NEW max, NEW results, NEW of, LaneFits(js, max, results, of),
         requests' \subseteq requests, UNCHANGED lane, UNCHANGED ledger
  PROVE  LaneFits(js, max, results, of)' /\ LaneGoesOn(js)
BY DEF LaneFits, LaneGoesOn

LEMMA ReceiveFits ==
  ASSUME NEW js, NEW rec, NEW fit, NEW max, NEW results, NEW of,
         LaneFits(js, max, results, of), NEW q \in requests, Lane(js, rec, fit, max)!Receive(q)
  PROVE  LaneFits(js, max, results, of)' /\ LaneGoesOn(js)
<1>1. UNCHANGED lane /\ UNCHANGED ledger /\ q \in requests
  BY DEF Lane!Receive
<1>2. q.job \in js /\ q \in Requests(js, max, results) /\ q.stage = "arriving"
  BY DEF LaneFits, Requests, Lane!Receive
<1>3. ledger[q.job] \in results \cup {None}
  BY <1>2 DEF LaneFits
<1>4. CASE ledger[q.job] # None
  <2>1. ledger[q.job] \in of[q.job]
    BY <1>2, <1>4 DEF LaneFits
  <2>2. requests' \subseteq requests \cup {[q EXCEPT !.stage = "answering", !.result = ledger[q.job]]}
    BY <1>4 DEF Lane!Receive, Lane!Known, Lane!Answering
  <2>3. RequestMoved(results, of, q, "answering", ledger[q.job])
    BY <1>1, <1>3, <2>1, <2>2 DEF RequestMoved
  <2> QED
    BY <2>3, RequestMoves
<1>5. CASE ledger[q.job] = None
  <2>1. requests' \subseteq requests \cup {[q EXCEPT !.stage = "executing", !.result = q.result]}
    BY <1>2, <1>5 DEF Lane!Receive, Lane!Known, Lane!Executing, Requests
  <2>2. RequestMoved(results, of, q, "executing", q.result)
    BY <1>1, <1>2, <2>1 DEF RequestMoved, Requests
  <2> QED
    BY <2>2, RequestMoves
<1> QED
  BY <1>4, <1>5

LEMMA ExecutionFailsFits ==
  ASSUME NEW js, NEW rec, NEW fit, NEW max, NEW results, NEW of,
         LaneFits(js, max, results, of), NEW q \in requests,
         Lane(js, rec, fit, max)!ExecutionFails(q)
  PROVE  LaneFits(js, max, results, of)' /\ LaneGoesOn(js)
<1>1. UNCHANGED lane /\ UNCHANGED ledger /\ q \in requests
  BY DEF Lane!ExecutionFails
<1>2. requests' \subseteq requests \cup {[q EXCEPT !.stage = "answering", !.result = None]}
  BY DEF Lane!ExecutionFails, Lane!Answering
<1>3. RequestMoved(results, of, q, "answering", None)
  BY <1>1, <1>2 DEF RequestMoved
<1> QED
  BY <1>3, RequestMoves

LEMMA TimesOutFits ==
  ASSUME NEW js, NEW rec, NEW fit, NEW max, NEW results, NEW of,
         LaneFits(js, max, results, of), NEW q \in requests,
         Lane(js, rec, fit, max)!TimesOut(q)
  PROVE  LaneFits(js, max, results, of)' /\ LaneGoesOn(js)
<1>1. /\ lane[q.job].status = "sent" /\ lane' = Lane(js, rec, fit, max)!Thrown(q.job)
      /\ requests' \subseteq requests /\ UNCHANGED ledger
  BY DEF Lane!TimesOut, Lane!Counts
<1>2. q.job \in js
  BY DEF LaneFits, Requests
<1> QED
  BY <1>1, <1>2, ThrownFits

LEMMA AnswerFits ==
  ASSUME NEW js, NEW rec, NEW fit, NEW max, NEW results, NEW of, None \notin results,
         LaneFits(js, max, results, of), NEW q \in requests, Lane(js, rec, fit, max)!Answer(q)
  PROVE  LaneFits(js, max, results, of)' /\ LaneGoesOn(js)
<1>1. requests' \subseteq requests /\ UNCHANGED ledger
  BY DEF Lane!Answer
<1>2. q.job \in js /\ q.result \in results \cup {None} /\ q.stage = "answering"
  BY DEF LaneFits, Requests, Lane!Answer
<1>3. CASE ~Lane(js, rec, fit, max)!Counts(q)
  <2>1. UNCHANGED lane
    BY <1>3 DEF Lane!Answer
  <2> QED
    BY <1>1, <2>1, RequestsEnd
<1>4. CASE Lane(js, rec, fit, max)!Counts(q)
  <2>1. lane[q.job].status = "sent"
    BY <1>4 DEF Lane!Counts
  <2>2. CASE q.result = None
    <3>1. lane' = Lane(js, rec, fit, max)!Thrown(q.job)
      BY <1>4, <2>2 DEF Lane!Answer
    <3> QED
      BY <1>1, <1>2, <2>1, <3>1, ThrownFits
  <2>3. CASE q.result # None
    <3>1. lane' = Lane(js, rec, fit, max)!Delivered(q.job, q.result)
      BY <1>4, <2>3 DEF Lane!Answer
    <3>2. q.result \in results /\ q.result \in of[q.job] /\ ledger[q.job] # None
      BY <1>2, <2>3 DEF LaneFits
    <3> QED
      BY <1>1, <1>2, <2>1, <3>1, <3>2, DeliveredFits
  <2> QED
    BY <2>2, <2>3
<1> QED
  BY <1>3, <1>4

(* So every step of the lane and the executor keeps what they know.            *)
LEMMA LaneSteps ==
  ASSUME NEW js, NEW rec, NEW fit, NEW max, NEW results, NEW of, max \in Nat,
         None \notin results, LaneFits(js, max, results, of), Lane(js, rec, fit, max)!JobStep
  PROVE  LaneFits(js, max, results, of)' /\ LaneGoesOn(js)
<1>1. ASSUME NEW q \in requests, Lane(js, rec, fit, max)!Lost(q)
      PROVE  LaneFits(js, max, results, of)' /\ LaneGoesOn(js)
  <2>1. requests' \subseteq requests /\ UNCHANGED lane /\ UNCHANGED ledger
    BY <1>1 DEF Lane!Lost
  <2> QED
    BY <2>1, RequestsEnd
<1> QED
  BY <1>1, ClaimFits, LookupFits, ReceiveFits, ExecutionFailsFits, TimesOutFits, AnswerFits
  DEF Lane!JobStep

(* A job that is done is known, and may be answered.                           *)
LEMMA FinishFits ==
  ASSUME NEW js, NEW rec, NEW fit, NEW max, NEW results, NEW of, None \notin results,
         LaneFits(js, max, results, of), NEW q \in requests, NEW x, x \in results,
         x \in of[q.job], Lane(js, rec, fit, max)!Finish(q, x)
  PROVE  LaneFits(js, max, results, of)' /\ LaneGoesOn(js)
<1> DEFINE next == [q EXCEPT !.stage = "answering", !.result = x]
<1>1. /\ q.job \in js /\ q \in Requests(js, max, results)
      /\ lane[q.job].status # "none" /\ UNCHANGED lane
  BY DEF LaneFits, Requests, Lane!Finish
<1>2. /\ next \in Requests(js, max, results) /\ next.job = q.job /\ next.result = x
      /\ requests' \subseteq requests \cup {next}
  BY <1>1 DEF Requests, Lane!Finish, Lane!Answering
<1>3. /\ ledger' \in [js -> results \cup {None}] /\ ledger'[q.job] = x /\ x # None
      /\ \A j \in js \ {q.job} : ledger'[j] = ledger[j]
  BY <1>1 DEF LaneFits, Lane!Finish
<1> HIDE DEF next
<1>4. \A j \in js :
        /\ ledger'[j] # None => ledger'[j] \in of[j] /\ lane'[j].status # "none"
        /\ lane'[j].status = "delivered" => lane'[j].result \in of[j] /\ ledger'[j] # None
        /\ ledger[j] # None => ledger'[j] # None
  BY <1>1, <1>3 DEF LaneFits
<1>5. \A p \in requests' :
        /\ p \in Requests(js, max, results) /\ lane'[p.job].status # "none"
        /\ p.stage = "answering" /\ p.result # None =>
             p.result \in of[p.job] /\ ledger'[p.job] # None
  <2> SUFFICES ASSUME NEW p \in requests'
               PROVE  /\ p \in Requests(js, max, results) /\ lane'[p.job].status # "none"
                      /\ p.stage = "answering" /\ p.result # None =>
                           p.result \in of[p.job] /\ ledger'[p.job] # None
    OBVIOUS
  <2>1. CASE p \in requests
    <3>1. p \in Requests(js, max, results) /\ p.job \in js
      BY <2>1 DEF LaneFits, Requests
    <3> QED
      BY <1>1, <1>4, <2>1, <3>1 DEF LaneFits
  <2>2. CASE p = next
    BY <1>1, <1>2, <1>3, <2>2
  <2> QED
    BY <1>2, <2>1, <2>2
<1> QED
  BY <1>1, <1>3, <1>4, <1>5 DEF LaneFits, LaneGoesOn

(* A restart takes the handlers, and nothing else.                             *)
LEMMA RestartFits ==
  ASSUME NEW js, NEW rec, NEW fit, NEW max, NEW results, NEW of,
         LaneFits(js, max, results, of), Lane(js, rec, fit, max)!RestartHost
  PROVE  LaneFits(js, max, results, of)' /\ LaneGoesOn(js)
<1>1. lane' = [j \in js |-> [lane[j] EXCEPT !.alive = FALSE]] /\ UNCHANGED <<requests, ledger>>
  BY DEF Lane!RestartHost
<1>2. \A j \in js :
        /\ lane'[j] \in Row(max, results) /\ lane'[j].status = lane[j].status
        /\ lane'[j].result = lane[j].result
  BY <1>1 DEF LaneFits, Row
<1>3. lane' \in [js -> Row(max, results)]
  BY <1>1, <1>2
<1>4. \A q \in requests : q.job \in js
  BY DEF LaneFits, Requests
<1> QED
  BY <1>1, <1>2, <1>3, <1>4 DEF LaneFits, LaneGoesOn

(* The decision of an event asks for an action, and the outcome is handled.   *)
LEMMA BegunFits ==
  ASSUME NEW js, NEW rec, NEW fit, NEW max, NEW results, NEW of,
         LaneFits(js, max, results, of), NEW j \in js, lane[j].status = "none",
         lane' = Lane(js, rec, fit, max)!Begun(j), UNCHANGED requests, UNCHANGED ledger
  PROVE  /\ LaneFits(js, max, results, of)' /\ lane'[j].status = "ready"
         /\ \A i \in js \ {j} : lane'[i] = lane[i]
<1>1. lane[j] \in Row(max, results) /\ lane \in [js -> Row(max, results)]
  BY DEF LaneFits
<1>2. /\ lane' \in [js -> Row(max, results)] /\ lane'[j].status = "ready"
      /\ \A i \in js \ {j} : lane'[i] = lane[i]
  BY <1>1 DEF Lane!Begun, Row, Open
<1>3. \A q \in requests : q.job \in js
  BY DEF LaneFits, Requests
<1> QED
  BY <1>2, <1>3 DEF LaneFits

(* The outcome of an action is handled: its row is done.                       *)
LEMMA HandledFits ==
  ASSUME NEW js, NEW rec, NEW fit, NEW max, NEW results, NEW of, max \in Nat,
         LaneFits(js, max, results, of), NEW j \in js, lane[j].status # "none",
         lane' = Lane(js, rec, fit, max)!Handled(j), UNCHANGED requests, UNCHANGED ledger
  PROVE  /\ LaneFits(js, max, results, of)' /\ lane'[j].status = "done"
         /\ \A i \in js \ {j} : lane'[i] = lane[i]
<1> DEFINE done == [Lane(js, rec, fit, max)!NoAction EXCEPT !.status = "done"]
<1>1. lane \in [js -> Row(max, results)] /\ 0 \in 0..max
  BY DEF LaneFits
<1>2. done \in Row(max, results) /\ done.status = "done"
  BY <1>1 DEF Row, Lane!NoAction
<1>3. lane' = [lane EXCEPT ![j] = done]
  BY DEF Lane!Handled
<1> HIDE DEF done
<1>4. /\ lane' \in [js -> Row(max, results)] /\ lane'[j].status = "done"
      /\ \A i \in js \ {j} : lane'[i] = lane[i]
  BY <1>1, <1>2, <1>3
<1>5. \A q \in requests : q.job \in js
  BY DEF LaneFits, Requests
<1> QED
  BY <1>4, <1>5 DEF LaneFits

(* In the beginning nothing is asked for.                                      *)
LEMMA LaneStarts ==
  ASSUME NEW js, NEW rec, NEW fit, NEW max, NEW results, NEW of, max \in Nat,
         Lane(js, rec, fit, max)!JobsInit
  PROVE  LaneFits(js, max, results, of) /\ \A j \in js : lane[j].status = "none"
BY DEF Lane!JobsInit, Lane!NoAction, LaneFits, Row, Requests

RunResults == [run : AgentRuns, attempt : 0..MaxRunClaims]
ResultsOf == [r \in AgentRuns |-> {[run |-> r, attempt |-> n] : n \in 0..MaxRunClaims}]
Book == [active : AgentRuns \cup {None}, completed : Nat, last : RunResults \cup {None}]
RunTypes ==
  /\ runs \in [AgentRuns -> [status : {"none", "requested", "running", "completed", "failed"},
                             result : RunResults \cup {None}]]
  /\ cells \in [Agents -> Book]
  /\ driver \in [status : {"running", "restart", "compare", "passed", "failed", "broken"},
                 phase : Repository!Phases, reports : [AgentRuns -> RunResults \cup {None}],
                 before : [Agents -> Book] \cup {None}]

(* A run runs while its action is open, and is complete with a result the     *)
(* executor has.                                                             *)
RunsFollowTheLane ==
  \A r \in AgentRuns :
    /\ runs[r].status \in {"none", "requested"} <=> lane[r].status = "none"
    /\ runs[r].status = "running" <=> lane[r].status \in Open
    /\ runs[r].status = "completed" => ledger[r] # None

(* The runs of the phases that are over are complete, of those to come there  *)
(* is none.                                                                  *)
PhaseIsOver(r) ==
  \/ PhaseOf[r] < driver.phase
  \/ PhaseOf[r] = driver.phase /\ driver.status \in {"restart", "compare"}
RunsFollowTheDriver ==
  \A r \in AgentRuns :
    /\ PhaseOf[r] > driver.phase => runs[r].status = "none"
    /\ PhaseIsOver(r) => runs[r].status = "completed"
    /\ driver.reports[r] # None => runs[r].status = "completed"

AreOf(c, status) == {r \in AgentRuns : AgentOf[r] = c /\ runs[r].status = status}
BookAgrees(c) ==
  /\ AreOf(c, "running") = {cells[c].active} \ {None}
  /\ cells[c].completed = Cardinality(AreOf(c, "completed"))
  /\ cells[c].last # None => \E r \in AreOf(c, "completed") : cells[c].last = runs[r].result

SeenAsTheyAre ==
  driver.status \in {"restart", "compare"} => driver.phase = RestartAfter /\ driver.before = cells

RunsInv ==
  /\ LaneFits(AgentRuns, MaxRunClaims, RunResults, ResultsOf)
  /\ RunTypes /\ RunsFollowTheLane /\ RunsFollowTheDriver
  /\ \A c \in Agents : BookAgrees(c)
  /\ SeenAsTheyAre /\ Repository!AssertionsHold

LEMMA RunsAreFinite ==
  /\ IsFiniteSet(AgentRuns) /\ MaxRunClaims \in Nat /\ AgentOf \in [AgentRuns -> Agents]
  /\ None \notin AgentRuns /\ None \notin RunResults
BY ExperimentsAssumption, FinitenessIsOne
DEF Repository!RepoRunsAssumption, Repository!JobLaneAssumption, Repository!Runs, RunResults

(* The phases are numbered, as the driver counts them.                         *)
LEMMA PhasesAreNumbers ==
  /\ \A p \in Repository!Phases :
       /\ p \in Nat /\ p >= 1
       /\ p + 1 \notin Repository!Phases => \A q \in Repository!Phases : q <= p
  /\ 1 \in Repository!Phases /\ RestartAfter \in Repository!Phases
  /\ \A r \in AgentRuns : PhaseOf[r] \in Repository!Phases
<1>1. /\ Repository!Phases = 1..Cardinality(Repository!Phases)
      /\ RestartAfter \in Repository!Phases
  BY ExperimentsAssumption, CountIsOne DEF Repository!RepoRunsAssumption
<1>2. IsFiniteSet(Repository!Phases)
  <2> DEFINE phase == [r \in AgentRuns |-> PhaseOf[r]]
  <2>1. phase \in Surjection(AgentRuns, Repository!Phases)
    BY DEF Surjection, Repository!Phases, Repository!Runs
  <2> QED
    BY <2>1, RunsAreFinite, FS_Surjection
<1>3. Cardinality(Repository!Phases) \in Nat
  BY <1>2, FS_CardinalityType
<1>4. \A r \in AgentRuns : PhaseOf[r] \in Repository!Phases
  BY DEF Repository!Phases, Repository!Runs
<1> DEFINE K == Cardinality(Repository!Phases)
<1>5. Repository!Phases = 1..K /\ K \in Nat
  BY <1>1, <1>3
<1> HIDE DEF K
<1> QED
  BY <1>1, <1>4, <1>5

(* The books of the invariant are those of the property.                       *)
LEMMA BooksOfAgents ==
  (\A c \in Agents : BookAgrees(c)) <=> Repository!BooksAgree
<1>1. ASSUME NEW c, NEW status
      PROVE  {r \in Repository!RunsOf(c) : runs[r].status = status} = AreOf(c, status)
  BY DEF AreOf, Repository!RunsOf, Repository!Runs
<1> QED
  BY <1>1, CountIsOne, Zenon DEF BookAgrees, Repository!BooksAgree

LEMMA RunsStart ==
  ASSUME Repository!Init PROVE RunsInv
<1>1. LaneFits(AgentRuns, MaxRunClaims, RunResults, ResultsOf) /\ \A r \in AgentRuns : lane[r].status = "none"
  <2>1. Lane(AgentRuns, FALSE, RunsFitLeases, MaxRunClaims)!JobsInit
    BY DEF Repository!Init, Repository!JobsInit, Repository!NoAction, Lane!JobsInit, Lane!NoAction
  <2> QED
    BY <2>1, RunsAreFinite, LaneStarts
<1>2. /\ runs = [r \in AgentRuns |-> [status |-> "none", result |-> None]]
      /\ cells = [c \in Agents |-> [active |-> None, completed |-> 0, last |-> None]]
      /\ driver = [status |-> "running", phase |-> 1, reports |-> [r \in AgentRuns |-> None],
                   before |-> None]
  BY DEF Repository!Init, Repository!NoRun, Repository!FreshState, Repository!Runs
<1>3. RunTypes
  BY <1>2, PhasesAreNumbers DEF RunTypes, Book
<1>4. RunsFollowTheLane
  BY <1>1, <1>2 DEF RunsFollowTheLane, Open
<1>5. RunsFollowTheDriver
  <2> SUFFICES ASSUME NEW r \in AgentRuns
               PROVE  ~PhaseIsOver(r) /\ runs[r].status = "none" /\ driver.reports[r] = None
    BY DEF RunsFollowTheDriver
  <2>1. PhaseOf[r] \in Nat /\ PhaseOf[r] >= 1
    BY PhasesAreNumbers
  <2> QED
    BY <1>2, <2>1 DEF PhaseIsOver
<1>6. ASSUME NEW c \in Agents PROVE BookAgrees(c)
  <2>1. AreOf(c, "running") = {} /\ AreOf(c, "completed") = {}
    BY <1>2 DEF AreOf
  <2> QED
    BY <1>2, <2>1, FS_EmptySet DEF BookAgrees
<1>7. SeenAsTheyAre /\ Repository!AssertionsHold
  BY <1>2 DEF SeenAsTheyAre, Repository!AssertionsHold
<1> QED
  BY <1>1, <1>3, <1>4, <1>5, <1>6, <1>7 DEF RunsInv

(* The lane goes on, and everything else stays.                              *)
LEMMA LaneKeepsRuns ==
  ASSUME RunsInv, LaneFits(AgentRuns, MaxRunClaims, RunResults, ResultsOf)', LaneGoesOn(AgentRuns),
         UNCHANGED <<runs, cells>>,
         UNCHANGED driver \/ (driver.status = "restart" /\ driver' = [driver EXCEPT !.status = "compare"])
  PROVE  RunsInv'
<1>1. /\ RunTypes' /\ driver'.phase = driver.phase /\ driver'.before = driver.before
      /\ driver'.reports = driver.reports
      /\ driver'.status \in {"restart", "compare"} <=> driver.status \in {"restart", "compare"}
      /\ driver'.status = "broken" => driver.status = "broken"
  BY DEF RunsInv, RunTypes
<1>2. RunsFollowTheLane'
  <2> SUFFICES ASSUME NEW r \in AgentRuns
               PROVE  /\ runs[r].status \in {"none", "requested"} <=> lane'[r].status = "none"
                      /\ runs[r].status = "running" <=> lane'[r].status \in Open
                      /\ runs[r].status = "completed" => ledger'[r] # None
    BY DEF RunsFollowTheLane
  <2>1. "none" \notin Open
    BY DEF Open
  <2> QED
    BY <2>1 DEF RunsInv, RunsFollowTheLane, LaneGoesOn
<1>3. RunsFollowTheDriver'
  BY <1>1 DEF RunsInv, RunsFollowTheDriver, PhaseIsOver
<1>4. \A c \in Agents : BookAgrees(c)'
  BY DEF RunsInv, BookAgrees, AreOf
<1>5. SeenAsTheyAre' /\ Repository!AssertionsHold'
  BY <1>1 DEF RunsInv, SeenAsTheyAre, Repository!AssertionsHold
<1> QED
  BY <1>1, <1>2, <1>3, <1>4, <1>5 DEF RunsInv

RunSet(r, to, result) == runs' = [runs EXCEPT ![r] = [status |-> to, result |-> result]]

(* A run changes: the runs of the cells with a status, and the other books.   *)
LEMMA RunChanges ==
  ASSUME RunsInv, NEW r \in AgentRuns, NEW to, NEW result,
         RunSet(r, to, result)
  PROVE  /\ \A c, s : s # to => AreOf(c, s)' = AreOf(c, s) \ {r}
         /\ AreOf(AgentOf[r], to)' = AreOf(AgentOf[r], to) \cup {r}
         /\ runs'[r].status = to /\ runs'[r].result = result
         /\ \A s \in AgentRuns \ {r} : runs'[s] = runs[s]
<1>1. /\ runs'[r].status = to /\ runs'[r].result = result
      /\ \A s \in AgentRuns \ {r} : runs'[s] = runs[s]
  BY DEF RunsInv, RunTypes, RunSet
<1> QED
  BY <1>1 DEF AreOf

(* A run that changes leaves the books of other agents alone.                  *)
LEMMA OtherBooks ==
  ASSUME RunsInv, NEW r \in AgentRuns, NEW to, NEW result,
         RunSet(r, to, result),
         \A c \in Agents \ {AgentOf[r]} : cells'[c] = cells[c],
         BookAgrees(AgentOf[r])'
  PROVE  \A c \in Agents : BookAgrees(c)'
<1> SUFFICES ASSUME NEW c \in Agents \ {AgentOf[r]} PROVE BookAgrees(c)'
  OBVIOUS
<1>1. \A s : AreOf(c, s)' = AreOf(c, s)
  BY RunChanges DEF AreOf
<1>2. \A s \in AreOf(c, "completed") : runs'[s] = runs[s]
  BY RunChanges DEF AreOf
<1> QED
  BY <1>1, <1>2 DEF RunsInv, BookAgrees

(* What follows from where one run stands.                                   *)
LEMMA RunInItsPhase ==
  ASSUME RunsInv, NEW r \in AgentRuns, runs[r].status \in {"requested", "running"}
  PROVE  /\ PhaseOf[r] = driver.phase /\ ~PhaseIsOver(r) /\ driver.reports[r] = None
         /\ driver.status \notin {"restart", "compare"}
         /\ \A s \in AgentRuns \ {r} : AgentOf[s] = AgentOf[r] =>
              runs[s].status \in {"none", "completed"}
<1>1. \A s \in AgentRuns : PhaseOf[s] \in Nat
  BY PhasesAreNumbers
<1>2. driver.phase \in Nat
  BY PhasesAreNumbers DEF RunsInv, RunTypes
<1>3. /\ PhaseOf[r] = driver.phase /\ ~PhaseIsOver(r) /\ driver.reports[r] = None
      /\ driver.status \notin {"restart", "compare"}
  BY <1>1, <1>2 DEF RunsInv, RunsFollowTheDriver, PhaseIsOver
<1>4. ASSUME NEW s \in AgentRuns \ {r}, AgentOf[s] = AgentOf[r]
      PROVE  runs[s].status \in {"none", "completed"}
  <2>1. PhaseOf[s] # PhaseOf[r]
    BY <1>4, ExperimentsAssumption DEF Repository!RepoRunsAssumption, Repository!Runs
  <2> QED
    BY <1>1, <1>2, <1>3, <2>1 DEF RunsInv, RunsFollowTheDriver, PhaseIsOver
<1> QED
  BY <1>3, <1>4

(* An agent gets a run.                                                        *)
LEMMA RequestedKeeps ==
  ASSUME RunsInv, NEW r \in AgentRuns, Repository!Requested(r) PROVE RunsInv'
<1>1. /\ runs[r].status = "requested" /\ UNCHANGED <<requests, ledger, driver>>
      /\ RunSet(r, "running", None)
      /\ cells' = [cells EXCEPT ![AgentOf[r]].active = r]
      /\ lane' = Lane(AgentRuns, FALSE, RunsFitLeases, MaxRunClaims)!Begun(r)
  BY DEF Repository!Requested, Repository!SetRun, RunSet, Repository!Begun, Lane!Begun
<1>2. lane[r].status = "none"
  BY <1>1 DEF RunsInv, RunsFollowTheLane
<1>3. /\ LaneFits(AgentRuns, MaxRunClaims, RunResults, ResultsOf)'
      /\ lane'[r].status = "ready" /\ \A s \in AgentRuns \ {r} : lane'[s] = lane[s]
  BY <1>1, <1>2, BegunFits DEF RunsInv
<1>11. /\ runs'[r].status = "running" /\ \A s \in AgentRuns \ {r} : runs'[s] = runs[s]
       /\ AreOf(AgentOf[r], "running")' = AreOf(AgentOf[r], "running") \cup {r}
       /\ AreOf(AgentOf[r], "completed")' = AreOf(AgentOf[r], "completed") \ {r}
  BY <1>1, RunChanges
<1>4. /\ AgentOf[r] \in Agents /\ cells \in [Agents -> Book]
      /\ cells' \in [Agents -> Book]
      /\ cells'[AgentOf[r]] = [cells[AgentOf[r]] EXCEPT !.active = r]
      /\ \A c \in Agents \ {AgentOf[r]} : cells'[c] = cells[c]
  BY <1>1, RunsAreFinite DEF RunsInv, RunTypes, Book
<1>5. RunTypes'
  BY <1>1, <1>4 DEF RunsInv, RunTypes, RunSet
<1>6. RunsFollowTheLane'
  BY <1>1, <1>3, <1>11 DEF RunsInv, RunsFollowTheLane, Open
<1>7. RunsFollowTheDriver'
  BY <1>1, <1>11, RunInItsPhase, PhasesAreNumbers DEF RunsInv, RunTypes, RunsFollowTheDriver, PhaseIsOver
<1>8. BookAgrees(AgentOf[r])'
  <2>1. AreOf(AgentOf[r], "running") = {}
    BY <1>1, RunInItsPhase DEF AreOf
  <2>2. r \notin AreOf(AgentOf[r], "completed")
    BY <1>1 DEF AreOf
  <2>3. /\ AreOf(AgentOf[r], "running")' = {r}
        /\ AreOf(AgentOf[r], "completed")' = AreOf(AgentOf[r], "completed")
    BY <1>11, <2>1, <2>2
  <2>4. \A s \in AreOf(AgentOf[r], "completed") : runs'[s] = runs[s]
    BY <1>11, <2>2 DEF AreOf
  <2>5. /\ cells'[AgentOf[r]].active = r /\ r # None
        /\ cells'[AgentOf[r]].completed = cells[AgentOf[r]].completed
        /\ cells'[AgentOf[r]].last = cells[AgentOf[r]].last
    BY <1>4, RunsAreFinite DEF Book
  <2> QED
    BY <1>4, <2>3, <2>4, <2>5 DEF RunsInv, BookAgrees
<1>9. \A c \in Agents : BookAgrees(c)'
  BY <1>1, <1>4, <1>8, OtherBooks
<1>10. SeenAsTheyAre' /\ Repository!AssertionsHold'
  BY <1>1, RunInItsPhase DEF RunsInv, SeenAsTheyAre, Repository!AssertionsHold
<1> QED
  BY <1>3, <1>5, <1>6, <1>7, <1>9, <1>10 DEF RunsInv

(* A run is counted once, when its outcome is handled.                         *)
LEMMA CompletesKeeps ==
  ASSUME RunsInv, NEW r \in AgentRuns, Repository!Completes(r) PROVE RunsInv'
<1> DEFINE c == AgentOf[r]
           row == [active |-> None, completed |-> cells[c].completed + 1, last |-> lane[r].result]
<1>1. /\ lane[r].status = "delivered" /\ UNCHANGED <<requests, ledger, driver>>
      /\ RunSet(r, "completed", lane[r].result)
      /\ cells' = [cells EXCEPT ![c] = row]
      /\ lane' = Lane(AgentRuns, FALSE, RunsFitLeases, MaxRunClaims)!Handled(r)
  BY DEF Repository!Completes, Repository!SetRun, RunSet, Repository!Handled, Lane!Handled,
         Repository!NoAction, Lane!NoAction
<1>2. runs[r].status = "running" /\ lane[r].status # "none"
  BY <1>1 DEF RunsInv, RunsFollowTheLane, Open
<1>3. /\ LaneFits(AgentRuns, MaxRunClaims, RunResults, ResultsOf)'
      /\ lane'[r].status = "done" /\ \A s \in AgentRuns \ {r} : lane'[s] = lane[s]
  BY <1>1, <1>2, HandledFits, RunsAreFinite DEF RunsInv
<1>4. /\ runs'[r].status = "completed" /\ runs'[r].result = lane[r].result
      /\ \A s \in AgentRuns \ {r} : runs'[s] = runs[s]
      /\ AreOf(c, "completed")' = AreOf(c, "completed") \cup {r}
      /\ AreOf(c, "running")' = AreOf(c, "running") \ {r}
  BY <1>1, RunChanges
<1>5. lane[r].result \in RunResults /\ lane[r].result # None /\ ledger[r] # None
  BY <1>1, RunsAreFinite DEF RunsInv, LaneFits, ResultsOf, RunResults
<1>6. /\ c \in Agents /\ cells \in [Agents -> Book] /\ cells[c] \in Book /\ row \in Book
      /\ cells'[c] = row /\ \A b \in Agents \ {c} : cells'[b] = cells[b]
  BY <1>1, <1>5, RunsAreFinite DEF RunsInv, RunTypes, Book
<1>7. RunTypes'
  BY <1>1, <1>5, <1>6 DEF RunsInv, RunTypes, RunSet
<1>8. RunsFollowTheLane'
  BY <1>1, <1>5, <1>3, <1>4 DEF RunsInv, RunsFollowTheLane, Open
<1>9. RunsFollowTheDriver'
  BY <1>1, <1>2, <1>4, RunInItsPhase, PhasesAreNumbers
  DEF RunsInv, RunTypes, RunsFollowTheDriver, PhaseIsOver
<1>10. BookAgrees(c)'
  <2>1. AreOf(c, "running") = {r} /\ r \notin AreOf(c, "completed")
    BY <1>2, RunInItsPhase DEF AreOf
  <2>2. AreOf(c, "running")' = {}
    BY <1>4, <2>1
  <2>3. Cardinality(AreOf(c, "completed")') = Cardinality(AreOf(c, "completed")) + 1
    <3>1. IsFiniteSet(AreOf(c, "completed"))
      BY RunsAreFinite, FS_Subset DEF AreOf
    <3> QED
      BY <1>4, <2>1, <3>1, FS_AddElement
  <2>4. cells'[c].completed = Cardinality(AreOf(c, "completed")')
    BY <1>6, <2>3 DEF RunsInv, BookAgrees
  <2>5. r \in AreOf(c, "completed")'
    BY <1>4
  <2>6. cells'[c].active = None /\ cells'[c].last = runs'[r].result
    BY <1>4, <1>6
  <2> QED
    BY <2>2, <2>4, <2>5, <2>6 DEF BookAgrees
<1>11. \A b \in Agents : BookAgrees(b)'
  BY <1>1, <1>6, <1>10, OtherBooks
<1>12. SeenAsTheyAre' /\ Repository!AssertionsHold'
  BY <1>1, <1>2, RunInItsPhase DEF RunsInv, SeenAsTheyAre, Repository!AssertionsHold
<1> QED
  BY <1>3, <1>7, <1>8, <1>9, <1>11, <1>12 DEF RunsInv

(* A run fails, and is not counted.                                            *)
LEMMA FailsKeeps ==
  ASSUME RunsInv, NEW r \in AgentRuns, Repository!Fails(r) PROVE RunsInv'
<1> DEFINE c == AgentOf[r]
           row == [cells[c] EXCEPT !.active = None]
<1>1. /\ lane[r].status = "failed" /\ UNCHANGED <<requests, ledger, driver>>
      /\ RunSet(r, "failed", None)
      /\ cells' = [cells EXCEPT ![c] = row]
      /\ lane' = Lane(AgentRuns, FALSE, RunsFitLeases, MaxRunClaims)!Handled(r)
  BY DEF Repository!Fails, Repository!SetRun, RunSet, Repository!Handled, Lane!Handled,
         Repository!NoAction, Lane!NoAction
<1>2. runs[r].status = "running" /\ lane[r].status # "none"
  BY <1>1 DEF RunsInv, RunsFollowTheLane, Open
<1>3. /\ LaneFits(AgentRuns, MaxRunClaims, RunResults, ResultsOf)'
      /\ lane'[r].status = "done" /\ \A s \in AgentRuns \ {r} : lane'[s] = lane[s]
  BY <1>1, <1>2, HandledFits, RunsAreFinite DEF RunsInv
<1>4. /\ runs'[r].status = "failed" /\ runs'[r].result = None
      /\ \A s \in AgentRuns \ {r} : runs'[s] = runs[s]
      /\ AreOf(c, "failed")' = AreOf(c, "failed") \cup {r}
      /\ AreOf(c, "running")' = AreOf(c, "running") \ {r}
  BY <1>1, RunChanges
<1>6. /\ c \in Agents /\ cells \in [Agents -> Book] /\ cells[c] \in Book /\ row \in Book
      /\ cells'[c] = row /\ \A b \in Agents \ {c} : cells'[b] = cells[b]
  <2>1. c \in Agents /\ cells \in [Agents -> Book] /\ cells[c] \in Book
    BY RunsAreFinite DEF RunsInv, RunTypes
  <2>2. row \in Book
    BY <2>1 DEF Book
  <2> HIDE DEF row, c
  <2> QED
    BY <1>1, <2>1, <2>2
<1>7. RunTypes'
  BY <1>1, <1>6 DEF RunsInv, RunTypes, RunSet
<1>8. RunsFollowTheLane'
  BY <1>1, <1>3, <1>4 DEF RunsInv, RunsFollowTheLane, Open
<1>9. RunsFollowTheDriver'
  BY <1>1, <1>2, <1>4, RunInItsPhase, PhasesAreNumbers
  DEF RunsInv, RunTypes, RunsFollowTheDriver, PhaseIsOver
<1>10. BookAgrees(c)'
  <2>1. AreOf(c, "running") = {r} /\ r \notin AreOf(c, "completed")
    BY <1>2, RunInItsPhase DEF AreOf
  <2>2. AreOf(c, "running")' = {} /\ AreOf(c, "completed")' = AreOf(c, "completed")
    <3>1. AreOf(c, "completed")' = AreOf(c, "completed") \ {r}
      BY <1>1, RunChanges
    <3> QED
      BY <1>4, <2>1, <3>1
  <2>3. \A s \in AreOf(c, "completed") : runs'[s] = runs[s]
    BY <1>4, <2>1 DEF AreOf
  <2>4. /\ cells'[c].active = None /\ cells'[c].completed = cells[c].completed
        /\ cells'[c].last = cells[c].last
    BY <1>6 DEF Book
  <2> QED
    BY <1>6, <2>2, <2>3, <2>4 DEF RunsInv, BookAgrees
<1>11. \A b \in Agents : BookAgrees(b)'
  BY <1>1, <1>6, <1>10, OtherBooks
<1>12. SeenAsTheyAre' /\ Repository!AssertionsHold'
  BY <1>1, <1>2, RunInItsPhase DEF RunsInv, SeenAsTheyAre, Repository!AssertionsHold
<1> QED
  BY <1>3, <1>7, <1>8, <1>9, <1>11, <1>12 DEF RunsInv

(* The driver posts the runs of its phase, and reads their reports.            *)
LEMMA PostKeeps ==
  ASSUME RunsInv, NEW r \in AgentRuns, Repository!Post(r) PROVE RunsInv'
<1>1. /\ runs[r].status = "none" /\ UNCHANGED <<lane, requests, ledger, cells, driver>>
      /\ RunSet(r, "requested", None)
      /\ driver.status = "running" /\ PhaseOf[r] = driver.phase
  BY DEF Repository!Post, Repository!SetRun, RunSet, Repository!jobs
<1>2. /\ runs'[r].status = "requested" /\ \A s \in AgentRuns \ {r} : runs'[s] = runs[s]
      /\ \A c : AreOf(c, "running")' = AreOf(c, "running") \ {r}
      /\ \A c : AreOf(c, "completed")' = AreOf(c, "completed") \ {r}
  BY <1>1, RunChanges
<1>3. \A c : r \notin AreOf(c, "running") /\ r \notin AreOf(c, "completed")
  BY <1>1 DEF AreOf
<1>4. LaneFits(AgentRuns, MaxRunClaims, RunResults, ResultsOf)'
  BY <1>1 DEF RunsInv, LaneFits
<1>5. RunTypes'
  BY <1>1 DEF RunsInv, RunTypes, RunSet
<1>6. RunsFollowTheLane'
  BY <1>1, <1>2 DEF RunsInv, RunsFollowTheLane, Open
<1>7. RunsFollowTheDriver'
  BY <1>1, <1>2, PhasesAreNumbers DEF RunsInv, RunTypes, RunsFollowTheDriver, PhaseIsOver
<1>8. BookAgrees(AgentOf[r])'
  <2>1. \A s \in AreOf(AgentOf[r], "completed") : runs'[s] = runs[s]
    BY <1>2, <1>3 DEF AreOf
  <2>2. /\ AreOf(AgentOf[r], "running")' = AreOf(AgentOf[r], "running")
        /\ AreOf(AgentOf[r], "completed")' = AreOf(AgentOf[r], "completed")
    BY <1>2, <1>3
  <2> QED
    BY <1>1, <2>1, <2>2, RunsAreFinite DEF RunsInv, BookAgrees
<1>9. \A c \in Agents : BookAgrees(c)'
  BY <1>1, <1>8, OtherBooks
<1>10. SeenAsTheyAre' /\ Repository!AssertionsHold'
  BY <1>1 DEF RunsInv, SeenAsTheyAre, Repository!AssertionsHold
<1> QED
  BY <1>4, <1>5, <1>6, <1>7, <1>9, <1>10 DEF RunsInv

(* Only the driver goes on.                                                  *)
LEMMA DriverMoves ==
  ASSUME RunsInv, UNCHANGED <<lane, requests, ledger, runs, cells>>,
         RunTypes', RunsFollowTheDriver', SeenAsTheyAre', driver'.status # "broken"
  PROVE  RunsInv'
<1>1. RunsFollowTheLane' /\ LaneFits(AgentRuns, MaxRunClaims, RunResults, ResultsOf)'
  BY DEF RunsInv, RunsFollowTheLane, LaneFits
<1>2. \A c \in Agents : BookAgrees(c)'
  BY DEF RunsInv, BookAgrees, AreOf
<1> QED
  BY <1>1, <1>2 DEF RunsInv, Repository!AssertionsHold

LEMMA ReportKeeps ==
  ASSUME RunsInv, NEW r \in AgentRuns, Repository!Report(r) PROVE RunsInv'
<1>1. /\ driver.status = "running" /\ runs[r].status = "completed"
      /\ driver' = [driver EXCEPT !.reports[r] = runs[r].result]
      /\ UNCHANGED <<lane, requests, ledger, runs, cells>>
  BY DEF Repository!Report, Repository!jobs
<1>2. /\ driver'.phase = driver.phase /\ driver'.status = driver.status
      /\ driver'.before = driver.before
      /\ \A s \in AgentRuns \ {r} : driver'.reports[s] = driver.reports[s]
  BY <1>1 DEF RunsInv, RunTypes
<1>3. RunTypes'
  BY <1>1 DEF RunsInv, RunTypes
<1>4. RunsFollowTheDriver'
  BY <1>1, <1>2 DEF RunsInv, RunsFollowTheDriver, PhaseIsOver
<1>5. SeenAsTheyAre' /\ driver'.status # "broken"
  BY <1>1, <1>2 DEF RunsInv, SeenAsTheyAre
<1> QED
  BY <1>1, <1>3, <1>4, <1>5, DriverMoves

LEMMA GivesUpKeeps ==
  ASSUME RunsInv, Repository!GivesUp PROVE RunsInv'
<1>1. /\ driver.status = "running" /\ driver' = [driver EXCEPT !.status = "failed"]
      /\ UNCHANGED <<lane, requests, ledger, runs, cells>>
  BY DEF Repository!GivesUp, Repository!jobs
<1>2. /\ driver'.phase = driver.phase /\ driver'.status = "failed"
      /\ driver'.before = driver.before /\ driver'.reports = driver.reports
  BY <1>1 DEF RunsInv, RunTypes
<1>3. RunTypes'
  BY <1>1 DEF RunsInv, RunTypes
<1>4. RunsFollowTheDriver'
  BY <1>1, <1>2 DEF RunsInv, RunsFollowTheDriver, PhaseIsOver
<1> QED
  BY <1>1, <1>2, <1>3, <1>4, DriverMoves DEF SeenAsTheyAre

(* A phase whose runs are complete is followed by the next, or by the end.    *)
LEMMA NextPhaseKeeps ==
  ASSUME RunsInv, UNCHANGED <<lane, requests, ledger, runs, cells>>,
         \A r \in AgentRuns : PhaseOf[r] = driver.phase => runs[r].status = "completed",
         driver' = Repository!NextPhase(driver)
  PROVE  RunsInv'
<1>1. driver.phase \in Repository!Phases /\ driver.phase \in Nat
  BY PhasesAreNumbers DEF RunsInv, RunTypes
<1>2. \A r \in AgentRuns :
        /\ PhaseOf[r] \in Nat /\ PhaseOf[r] \in Repository!Phases
        /\ PhaseOf[r] <= driver.phase => runs[r].status = "completed"
  BY <1>1, PhasesAreNumbers DEF RunsInv, RunsFollowTheDriver, PhaseIsOver
<1>3. CASE driver.phase + 1 \in Repository!Phases
  <2>1. driver' = [driver EXCEPT !.phase = @ + 1, !.status = "running"]
    BY <1>3 DEF Repository!NextPhase
  <2>2. /\ driver'.phase = driver.phase + 1 /\ driver'.status = "running"
        /\ driver'.reports = driver.reports
    BY <2>1 DEF RunsInv, RunTypes
  <2>3. RunTypes'
    BY <1>3, <2>1 DEF RunsInv, RunTypes
  <2>4. RunsFollowTheDriver'
    BY <1>1, <1>2, <2>2 DEF RunsInv, RunsFollowTheDriver, PhaseIsOver
  <2> QED
    BY <2>2, <2>3, <2>4, DriverMoves DEF SeenAsTheyAre
<1>4. CASE driver.phase + 1 \notin Repository!Phases
  <2>1. \A r \in AgentRuns : runs[r].status = "completed" /\ ledger[r] # None
    BY <1>1, <1>2, <1>4, PhasesAreNumbers DEF RunsInv, RunsFollowTheLane
  <2>2. driver' = [driver EXCEPT !.status = "passed"]
    BY <1>4, <2>1 DEF Repository!NextPhase, Repository!Runs
  <2>3. /\ driver'.phase = driver.phase /\ driver'.status = "passed"
        /\ driver'.reports = driver.reports
    BY <2>2 DEF RunsInv, RunTypes
  <2>4. RunTypes'
    BY <2>2 DEF RunsInv, RunTypes
  <2>5. RunsFollowTheDriver'
    BY <2>1, <2>3 DEF RunsInv, RunsFollowTheDriver
  <2> QED
    BY <2>3, <2>4, <2>5, DriverMoves DEF SeenAsTheyAre
<1> QED
  BY <1>3, <1>4

(* A phase ends when all its runs are complete.                                *)
LEMMA EndOfPhaseKeeps ==
  ASSUME RunsInv, Repository!EndOfPhase PROVE RunsInv'
<1>1. /\ driver.status = "running" /\ UNCHANGED <<lane, requests, ledger, runs, cells>>
      /\ driver' = IF driver.phase = RestartAfter
                   THEN [driver EXCEPT !.status = "restart", !.before = cells]
                   ELSE Repository!NextPhase(driver)
      /\ \A r \in AgentRuns : PhaseOf[r] = driver.phase => driver.reports[r] # None
  BY DEF Repository!EndOfPhase, Repository!PhaseDone, Repository!jobs, Repository!Runs
<1>2. \A r \in AgentRuns : PhaseOf[r] = driver.phase => runs[r].status = "completed"
  BY <1>1 DEF RunsInv, RunsFollowTheDriver
<1>3. CASE driver.phase # RestartAfter
  BY <1>1, <1>2, <1>3, NextPhaseKeeps
<1>4. CASE driver.phase = RestartAfter
  <2>1. /\ driver'.phase = driver.phase /\ driver'.status = "restart"
        /\ driver'.reports = driver.reports /\ driver'.before = cells
    BY <1>1, <1>4 DEF RunsInv, RunTypes
  <2>2. RunTypes'
    BY <1>1, <1>4 DEF RunsInv, RunTypes
  <2>3. RunsFollowTheDriver'
    BY <1>1, <1>2, <2>1 DEF RunsInv, RunsFollowTheDriver, PhaseIsOver
  <2> QED
    BY <1>1, <1>4, <2>1, <2>2, <2>3, DriverMoves DEF SeenAsTheyAre
<1> QED
  BY <1>3, <1>4

(* After the restart the cells are as they were, so the comparison             *)
(* succeeds.                                                                   *)
LEMMA CompareKeeps ==
  ASSUME RunsInv, Repository!Compare PROVE RunsInv'
<1>1. driver.status = "compare" /\ UNCHANGED <<lane, requests, ledger, runs, cells>>
  BY DEF Repository!Compare, Repository!jobs
<1>2. driver.phase = RestartAfter /\ driver.before = cells
  BY <1>1 DEF RunsInv, SeenAsTheyAre
<1>3. /\ \A r \in AgentRuns : PhaseOf[r] <= RestartAfter <=> runs[r].status = "completed"
      /\ \A r \in AgentRuns : PhaseOf[r] = driver.phase => runs[r].status = "completed"
  <2> SUFFICES ASSUME NEW r \in AgentRuns
               PROVE  PhaseOf[r] <= RestartAfter <=> runs[r].status = "completed"
    BY <1>2, PhasesAreNumbers
  <2>1. PhaseOf[r] \in Nat /\ RestartAfter \in Nat
    BY PhasesAreNumbers
  <2> QED
    BY <1>1, <1>2, <2>1 DEF RunsInv, RunsFollowTheDriver, PhaseIsOver
<1>4. ASSUME NEW c \in Agents
      PROVE  cells[c].completed = Repository!CompletedSoFar(c)
  <2>1. {r \in Repository!RunsOf(c) : PhaseOf[r] <= RestartAfter} = AreOf(c, "completed")
    BY <1>3 DEF Repository!RunsOf, Repository!Runs, AreOf
  <2> QED
    BY <2>1, CountIsOne DEF Repository!CompletedSoFar, RunsInv, BookAgrees
<1>5. driver' = Repository!NextPhase(driver)
  BY <1>2, <1>4 DEF Repository!Compare
<1> QED
  BY <1>1, <1>3, <1>5, NextPhaseKeeps

(* The lane of the repository agents is a lane.                               *)
LEMMA RunsHaveALane ==
  /\ Repository!JobStep => Lane(AgentRuns, FALSE, RunsFitLeases, MaxRunClaims)!JobStep
  /\ Repository!RestartHost => Lane(AgentRuns, FALSE, RunsFitLeases, MaxRunClaims)!RestartHost
  /\ \A q, x : Repository!Finish(q, x)
              => Lane(AgentRuns, FALSE, RunsFitLeases, MaxRunClaims)!Finish(q, x)
<1>1. Repository!JobStep => Lane(AgentRuns, FALSE, RunsFitLeases, MaxRunClaims)!JobStep
  BY DEF Repository!JobStep, Lane!JobStep, Repository!Claim, Lane!Claim,
    Repository!Lookup, Lane!Lookup, Repository!Receive, Lane!Receive,
    Repository!Lost, Lane!Lost, Repository!ExecutionFails, Lane!ExecutionFails,
    Repository!TimesOut, Lane!TimesOut, Repository!Answer, Lane!Answer,
    Repository!Claimable, Lane!Claimable, Repository!LeaseMayEnd, Lane!LeaseMayEnd,
    Repository!Sent, Lane!Sent, Repository!Request, Lane!Request,
    Repository!Delivered, Lane!Delivered, Repository!Thrown, Lane!Thrown,
    Repository!Known, Lane!Known, Repository!Orphaned, Lane!Orphaned,
    Repository!Counts, Lane!Counts, Repository!Executing, Lane!Executing,
    Repository!Answering, Lane!Answering
<1>2. Repository!RestartHost => Lane(AgentRuns, FALSE, RunsFitLeases, MaxRunClaims)!RestartHost
  BY DEF Repository!RestartHost, Lane!RestartHost
<1>3. \A q, x : Repository!Finish(q, x)
                => Lane(AgentRuns, FALSE, RunsFitLeases, MaxRunClaims)!Finish(q, x)
  BY DEF Repository!Finish, Lane!Finish, Repository!Answering, Lane!Answering,
    Repository!Counts, Lane!Counts, Repository!Orphaned, Lane!Orphaned
<1> QED
  BY <1>1, <1>2, <1>3

(* Every step of the repository agents keeps their invariant.                  *)
LEMMA RunsGoOn ==
  ASSUME RunsInv, Repository!Next PROVE RunsInv'
<1> DEFINE Fits == LaneFits(AgentRuns, MaxRunClaims, RunResults, ResultsOf)
<1>1. MaxRunClaims \in Nat /\ None \notin RunResults /\ Fits
  BY RunsAreFinite DEF RunsInv
<1>2. ASSUME Repository!JobStep, UNCHANGED <<runs, cells, driver>>
      PROVE  RunsInv'
  <2>1. Fits' /\ LaneGoesOn(AgentRuns)
    BY <1>1, <1>2, RunsHaveALane, LaneSteps
  <2> QED
    BY <1>2, <2>1, LaneKeepsRuns
<1>3. ASSUME NEW q \in requests, Repository!Executes(q)
      PROVE  RunsInv'
  <2> DEFINE x == [run |-> q.job, attempt |-> q.attempt]
  <2>1. q \in Requests(AgentRuns, MaxRunClaims, RunResults)
    BY <1>1 DEF LaneFits
  <2>2. x \in RunResults /\ x \in ResultsOf[q.job]
    BY <2>1 DEF Requests, RunResults, ResultsOf
  <2>3. /\ Lane(AgentRuns, FALSE, RunsFitLeases, MaxRunClaims)!Finish(q, x)
        /\ UNCHANGED <<runs, cells, driver>>
    BY <1>3, RunsHaveALane DEF Repository!Executes
  <2> HIDE DEF x
  <2>4. Fits' /\ LaneGoesOn(AgentRuns)
    BY <1>1, <2>2, <2>3, FinishFits
  <2> QED
    BY <2>3, <2>4, LaneKeepsRuns
<1>4. ASSUME Repository!RestartCelld
      PROVE  RunsInv'
  <2>1. /\ Lane(AgentRuns, FALSE, RunsFitLeases, MaxRunClaims)!RestartHost
        /\ UNCHANGED <<runs, cells>>
        /\ driver.status = "restart" /\ driver' = [driver EXCEPT !.status = "compare"]
    BY <1>4, RunsHaveALane DEF Repository!RestartCelld
  <2>2. Fits' /\ LaneGoesOn(AgentRuns)
    BY <1>1, <2>1, RestartFits
  <2> QED
    BY <2>1, <2>2, LaneKeepsRuns
<1> QED
  BY <1>2, <1>3, <1>4, RequestedKeeps, CompletesKeeps, FailsKeeps, PostKeeps, ReportKeeps,
     GivesUpKeeps, EndOfPhaseKeeps, CompareKeeps
  DEF Repository!Next, Repository!Runs

CubeResults == [source : Sources \cup {None}, ok : BOOLEAN]
Steps == {"repair", "active", "restart", "sandboxed", "public", "verify", "hidden", "diverse",
          "resolve", "accept", "passed", "failed", "broken"}
Ends == {"passed", "failed", "broken"}
DriverEvidence == [Cube!Reports -> CubeResults \cup {None}]
CubeTypes ==
  /\ posted \in [Cube!Work -> (SUBSET (Sources \cup {None})) \cup {None}]
  /\ receipts \in [Cube!Work -> CubeResults \cup {None}]
  /\ cells \in [Cube!Cells -> [status : {"idle", "working", "failed"}, pending : Cube!Jobs \cup {None}]]
  /\ driver \in [step : Steps, open : SUBSET Cube!Work, todo : SUBSET Cube!Work,
                 sandboxes : DriverEvidence, evaluations : DriverEvidence,
                 before : SUBSET Cube!Work, accepted : SUBSET Cube!Reports]

Posted(w) == posted[w] # None
Undone(w) == Posted(w) /\ ~Cube!Got(w)
CubeOutcomes == [w \in Cube!Jobs |-> IF Posted(w) THEN Cube!Outcomes(w) ELSE {}]
CubeLane == LaneFits(Cube!Jobs, MaxCapabilityClaims, CubeResults, CubeOutcomes)

(* A job is pending in its cell while its action is open.                     *)
WorkFollowsTheLane ==
  /\ \A w \in Cube!Jobs :
       /\ lane[w].status # "none" => Posted(w)
       /\ lane[w].status \in Open <=> cells[Cube!CellOf(w)].pending = w
       /\ Cube!Got(w) => /\ lane[w].status = "done" /\ receipts[w] \in Cube!Outcomes(w)
                         /\ ledger[w] # None
  /\ \A c \in Cube!Cells : cells[c].pending # None => Cube!CellOf(cells[c].pending) = c

(* What is asked for and not done is waited for, one work in a cell.          *)
OneAtATime ==
  /\ \A w \in Cube!Work : (Cube!Got(w) => Posted(w)) /\ (Undone(w) => w \in driver.open)
  /\ \A v, w \in Cube!Work : Undone(v) /\ Undone(w) /\ Cube!CellOf(v) = Cube!CellOf(w) => v = w

(* What the driver has still to ask for, by its step.                         *)
TodoOf(step) ==
  CASE step = "repair" -> {"triage", "patch"} \X Cube!Reports
    [] step = "public" -> {"revise-public", "sandbox-public"} \X Cube!Reports
    [] step \in {"hidden", "diverse"} ->
         {"revise", "sandbox-revision", "verify-revision"} \X Cube!Reports
    [] step = "resolve" -> {"conflict", "resolve"} \X {Cube!Final}
    [] step = "accept" -> {"accept", "release"} \X Cube!Reports
    [] OTHER -> {}
Asked(w) == w \in driver.todo \/ Posted(w)
TodoFits ==
  /\ driver.step \notin Ends => driver.todo \subseteq TodoOf(driver.step)
  /\ \A r \in Cube!Reports :
       /\ driver.step = "repair" => Asked(<<"patch", r>>)
       /\ <<"sandbox-public", r>> \in driver.todo => Asked(<<"revise-public", r>>)
       /\ <<"sandbox-revision", r>> \in driver.todo => Asked(<<"revise", r>>)
       /\ <<"verify-revision", r>> \in driver.todo => Asked(<<"sandbox-revision", r>>)
  /\ driver.step = "resolve" => Asked(<<"resolve", Cube!Final>>)

(* The evidence the driver holds is in the receipts of the cells.             *)
Built(r) == \E b \in Cube!Sandboxes :
  Cube!Got(<<b, r>>) /\ driver.sandboxes[r] = receipts[<<b, r>>]
Evaluated(r) == \E v \in Cube!Evaluators :
  /\ Cube!Got(<<v, r>>) /\ driver.evaluations[r] = receipts[<<v, r>>]
  /\ driver.evaluations[r].ok => driver.evaluations[r].source = driver.sandboxes[r].source
EvidenceFits ==
  \A r \in Cube!Reports :
    /\ driver.step \in {"active", "restart", "sandboxed", "public"} => Posted(<<"sandbox", r>>)
    /\ driver.step \in {"public", "verify", "hidden", "diverse", "resolve"} => Built(r)
    /\ driver.step \in {"hidden", "diverse", "resolve"} => Evaluated(r)
    /\ Posted(<<"verify-revision", r>>) =>
         /\ Cube!Got(<<"sandbox-revision", r>>)
         /\ posted[<<"verify-revision", r>>] = {receipts[<<"sandbox-revision", r>>].source}
    /\ driver.step = "verify" => Posted(<<"verify", r>>)

VerifyingFits ==
  /\ driver.step = "verify" =>
       /\ \A w \in Cube!Work : Undone(w) => w[1] \in {"verify", "verify-retry"}
       /\ \A r \in Cube!Reports, k \in {"verify", "verify-retry"} :
            Posted(<<k, r>>) => posted[<<k, r>>] = {driver.sandboxes[r].source}
  /\ driver.step \in {"repair", "active", "restart", "sandboxed", "public"} =>
       \A r \in Cube!Reports : ~Posted(<<"verify-retry", r>>)

ResolvingFits ==
  IF driver.step = "resolve"
  THEN Posted(<<"resolve", Cube!Final>>) =>
         posted[<<"resolve", Cube!Final>>] = {driver.sandboxes[r].source : r \in Cube!Rivals}
  ELSE Posted(<<"resolve", Cube!Final>>) => driver.step \in {"accept"} \cup Ends

AcceptingFits ==
  /\ driver.accepted # {} => driver.step \in {"accept"} \cup Ends
  /\ Cube!AcceptedIsVerified

NothingIsLost == (\A w \in driver.before : Cube!Got(w)) /\ Cube!AssertionsHold

(* The model jobs that are asked for or planned, and the one of the resolver. *)
ModelJobs == {w \in Cube!Jobs : w[1] \in Cube!Models}
PlannedCalls == {w \in ModelJobs : Asked(w)} \cup {<<"resolve", Cube!Final>>}
PlanIsAffordable == 2 * NReports + 1 <= MaxModelCalls
BudgetFits == PlanIsAffordable => Cardinality(PlannedCalls) <= MaxModelCalls

CubeInv ==
  /\ CubeLane /\ CubeTypes /\ WorkFollowsTheLane /\ OneAtATime /\ TodoFits /\ EvidenceFits
  /\ VerifyingFits /\ ResolvingFits /\ AcceptingFits /\ NothingIsLost /\ BudgetFits

(* What is assumed of the constants, as the proofs use it.                     *)
LEMMA CubeConstants ==
  /\ NReports \in Nat \ {0, 1} /\ MaxModelCalls \in Nat /\ MaxCapabilityClaims \in Nat
  /\ DeniedReport \in Cube!Reports /\ Cube!Final \in Cube!Reports
  /\ Cube!Rivals \subseteq Cube!Reports /\ Cube!Reports \subseteq Nat
  /\ None \notin CubeResults /\ None \notin Cube!Jobs
  /\ \A s \in SUBSET (Sources \cup {None}) : None # s
<1>1. /\ NReports \in Nat \ {0, 1} /\ MaxModelCalls \in Nat /\ MaxCapabilityClaims \in Nat
      /\ DeniedReport \in Cube!Reports
      /\ None \notin CubeResults /\ None \notin Cube!Jobs
      /\ \A s \in SUBSET (Sources \cup {None}) : None # s
  BY ExperimentsAssumption DEF Cube!FabricAssumption, Cube!JobLaneAssumption, CubeResults
<1>2. /\ Cube!Final \in Cube!Reports /\ Cube!Rivals \subseteq Cube!Reports
      /\ Cube!Reports \subseteq Nat
  BY <1>1 DEF Cube!Final, Cube!Rivals, Cube!Reports
<1> QED
  BY <1>1, <1>2

(* The kinds of work, by the cell that has it.                                *)
LEMMA WorkIsOf ==
  /\ \A w \in Cube!Work : w[2] \in Cube!Reports /\ w = <<w[1], w[2]>>
  /\ \A r \in Cube!Reports, k \in {"triage", "patch", "revise-public", "revise", "accept"}
                                    \cup Cube!Sandboxes \cup Cube!Evaluators :
       <<k, r>> \in Cube!Work
  /\ \A k \in {"conflict", "resolve", "release"} : <<k, Cube!Final>> \in Cube!Work
BY CubeConstants DEF Cube!Work

LEMMA CellsOfWork ==
  /\ \A w \in Cube!Work : Cube!CellOf(w) \in Cube!Cells
  /\ \A r \in Cube!Reports, k \in Cube!Sandboxes \cup {"patch"} :
       Cube!CellOf(<<k, r>>) = <<"execute", r>>
  /\ \A r \in Cube!Reports, k \in Cube!Evaluators : Cube!CellOf(<<k, r>>) = <<"verify", r>>
BY DEF Cube!Cells, Cube!CellOf, Cube!Sandboxes, Cube!Evaluators

LEMMA JobsAreOf ==
  /\ Cube!Jobs \subseteq Cube!Work
  /\ \A r \in Cube!Reports :
       \A k \in {"triage", "patch", "revise-public", "revise"} \cup Cube!Sandboxes \cup Cube!Evaluators :
         <<k, r>> \in Cube!Jobs
  /\ <<"resolve", Cube!Final>> \in Cube!Jobs
<1>1. ASSUME NEW r \in Cube!Reports,
             NEW k \in {"triage", "patch", "revise-public", "revise"}
                       \cup Cube!Sandboxes \cup Cube!Evaluators
      PROVE  <<k, r>> \in Cube!Jobs
  BY WorkIsOf DEF Cube!Jobs, Cube!Models
<1>2. <<"resolve", Cube!Final>> \in Cube!Jobs
  BY WorkIsOf DEF Cube!Jobs, Cube!Models
<1> QED
  BY <1>1, <1>2 DEF Cube!Jobs

(* The lane of the fabric is a lane, whose actions may have these results.    *)
LEMMA CubeHasALane ==
  /\ Cube!JobStep => Lane(Cube!Jobs, TRUE, CapabilitiesFitLeases, MaxCapabilityClaims)!JobStep
  /\ Cube!RestartHost
       => Lane(Cube!Jobs, TRUE, CapabilitiesFitLeases, MaxCapabilityClaims)!RestartHost
  /\ \A q, x : Cube!Finish(q, x)
       => Lane(Cube!Jobs, TRUE, CapabilitiesFitLeases, MaxCapabilityClaims)!Finish(q, x)
<1>1. Cube!JobStep => Lane(Cube!Jobs, TRUE, CapabilitiesFitLeases, MaxCapabilityClaims)!JobStep
  BY DEF Cube!JobStep, Lane!JobStep, Cube!Claim, Lane!Claim,
    Cube!Lookup, Lane!Lookup, Cube!Receive, Lane!Receive,
    Cube!Lost, Lane!Lost, Cube!ExecutionFails, Lane!ExecutionFails,
    Cube!TimesOut, Lane!TimesOut, Cube!Answer, Lane!Answer,
    Cube!Claimable, Lane!Claimable, Cube!LeaseMayEnd, Lane!LeaseMayEnd,
    Cube!Sent, Lane!Sent, Cube!Request, Lane!Request,
    Cube!Delivered, Lane!Delivered, Cube!Thrown, Lane!Thrown,
    Cube!Known, Lane!Known, Cube!Orphaned, Lane!Orphaned,
    Cube!Counts, Lane!Counts, Cube!Executing, Lane!Executing,
    Cube!Answering, Lane!Answering
<1>2. Cube!RestartHost
        => Lane(Cube!Jobs, TRUE, CapabilitiesFitLeases, MaxCapabilityClaims)!RestartHost
  BY DEF Cube!RestartHost, Lane!RestartHost
<1>3. \A q, x : Cube!Finish(q, x)
        => Lane(Cube!Jobs, TRUE, CapabilitiesFitLeases, MaxCapabilityClaims)!Finish(q, x)
  BY DEF Cube!Finish, Lane!Finish, Cube!Answering, Lane!Answering,
    Cube!Counts, Lane!Counts, Cube!Orphaned, Lane!Orphaned
<1> QED
  BY <1>1, <1>2, <1>3

(* The outcomes depend on the state: a constant stands for them in what        *)
(* follows.                                                                    *)
LEMMA CubeLaneIs ==
  ASSUME NEW of
  PROVE  /\ of = CubeOutcomes => (CubeLane <=> LaneFits(Cube!Jobs, MaxCapabilityClaims, CubeResults, of))
         /\ of = CubeOutcomes' => (CubeLane' <=> LaneFits(Cube!Jobs, MaxCapabilityClaims, CubeResults, of)')
<1>1. of = CubeOutcomes => (CubeLane <=> LaneFits(Cube!Jobs, MaxCapabilityClaims, CubeResults, of))
  BY DEF CubeLane
<1>2. ASSUME of = CubeOutcomes'
      PROVE  CubeLane' <=> LaneFits(Cube!Jobs, MaxCapabilityClaims, CubeResults, of)'
  <2> HIDE DEF CubeOutcomes
  <2> QED
    BY <1>2 DEF CubeLane, LaneFits
<1> QED
  BY <1>1, <1>2

(* What was accepted stays verified while its receipts stay.                   *)
LEMMA AcceptedStays ==
  ASSUME UNCHANGED receipts, driver'.accepted = driver.accepted,
         driver'.sandboxes = driver.sandboxes, Cube!AcceptedIsVerified
  PROVE  Cube!AcceptedIsVerified'
<1> SUFFICES ASSUME NEW r \in driver.accepted
             PROVE  \E b \in Cube!Sandboxes, v \in Cube!Evaluators :
                      /\ Cube!Got(<<b, r>>)' /\ Cube!Got(<<v, r>>)' /\ receipts'[<<v, r>>].ok
                      /\ {receipts'[<<b, r>>].source, receipts'[<<v, r>>].source}
                            = {driver'.sandboxes[r].source}
  BY DEF Cube!AcceptedIsVerified
<1>1. PICK b \in Cube!Sandboxes, v \in Cube!Evaluators :
             /\ Cube!Got(<<b, r>>) /\ Cube!Got(<<v, r>>) /\ receipts[<<v, r>>].ok
             /\ {receipts[<<b, r>>].source, receipts[<<v, r>>].source} = {driver.sandboxes[r].source}
  BY DEF Cube!AcceptedIsVerified
<1>2. Cube!Got(<<b, r>>)' /\ Cube!Got(<<v, r>>)'
  BY <1>1 DEF Cube!Got
<1> QED
  BY <1>1, <1>2

(* The lane goes on.                                                         *)
LEMMA LaneKeepsWork ==
  ASSUME CubeInv, CubeLane', LaneGoesOn(Cube!Jobs), UNCHANGED <<posted, cells, receipts>>,
         \/ UNCHANGED driver
         \/ driver.step = "restart" /\ driver' = [driver EXCEPT !.step = "sandboxed"]
  PROVE  CubeInv'
<1>1. /\ CubeTypes' /\ driver'.open = driver.open /\ driver'.todo = driver.todo
      /\ driver'.sandboxes = driver.sandboxes /\ driver'.evaluations = driver.evaluations
      /\ driver'.before = driver.before /\ driver'.accepted = driver.accepted
      /\ \/ driver'.step = driver.step
         \/ driver.step = "restart" /\ driver'.step = "sandboxed"
  BY DEF CubeInv, CubeTypes, Steps
<1>2. WorkFollowsTheLane'
  <2>1. ASSUME NEW w \in Cube!Jobs
        PROVE  /\ lane'[w].status # "none" => Posted(w)
               /\ lane'[w].status \in Open <=> cells[Cube!CellOf(w)].pending = w
               /\ Cube!Got(w) => /\ lane'[w].status = "done" /\ receipts[w] \in Cube!Outcomes(w)
                                 /\ ledger'[w] # None
    <3>1. "none" \notin Open /\ "done" \notin Open
      BY DEF Open
    <3> QED
      BY <3>1 DEF CubeInv, WorkFollowsTheLane, LaneGoesOn
  <2> QED
    BY <2>1 DEF CubeInv, WorkFollowsTheLane, Posted, Cube!Got, Cube!Outcomes
<1>3. OneAtATime'
  BY <1>1 DEF CubeInv, OneAtATime, Undone, Posted, Cube!Got
<1>4. TodoFits'
  BY <1>1 DEF CubeInv, TodoFits, TodoOf, Asked, Posted, Ends
<1>5. EvidenceFits'
  BY <1>1 DEF CubeInv, EvidenceFits, Built, Evaluated, Posted, Cube!Got
<1>6. VerifyingFits' /\ ResolvingFits'
  BY <1>1 DEF CubeInv, VerifyingFits, ResolvingFits, Undone, Posted, Cube!Got, Ends
<1>7. AcceptingFits'
  <2>1. UNCHANGED receipts
    OBVIOUS
  <2>2. Cube!AcceptedIsVerified'
    BY <1>1, <2>1, AcceptedStays DEF CubeInv, AcceptingFits
  <2> QED
    BY <1>1, <2>2 DEF CubeInv, AcceptingFits, Ends
<1>8. NothingIsLost' /\ BudgetFits'
  BY <1>1 DEF CubeInv, NothingIsLost, Cube!AssertionsHold, Cube!Got, BudgetFits, PlannedCalls,
    Asked, Posted
<1> QED
  BY <1>1, <1>2, <1>3, <1>4, <1>5, <1>6, <1>7, <1>8 DEF CubeInv

(* Receipts come, and those that are there stay.                              *)
ReceiptsStay == \A w \in Cube!Work : Cube!Got(w) => receipts'[w] = receipts[w]

(* A receipt that comes keeps all evidence that is there.                      *)
LEMMA ReceiptsKeep ==
  ASSUME CubeInv, ReceiptsStay, CubeTypes', CubeLane', WorkFollowsTheLane',
         UNCHANGED <<posted, driver>>,
         \A w \in Cube!Work : receipts'[w] # None => Posted(w)
  PROVE  CubeInv'
<1>1. \A w \in Cube!Work :
        (Cube!Got(w) => Cube!Got(w)') /\ (Undone(w)' => Undone(w)) /\ Posted(w)' = Posted(w)
  BY DEF ReceiptsStay, Cube!Got, Undone, Posted
<1>2. OneAtATime'
  BY <1>1 DEF CubeInv, OneAtATime, Cube!Got, Posted
<1>3. TodoFits'
  BY DEF CubeInv, TodoFits, TodoOf, Asked, Posted, Ends
<1>4. EvidenceFits'
  <2> SUFFICES ASSUME NEW r \in Cube!Reports
               PROVE  /\ Built(r) => Built(r)'
                      /\ Evaluated(r) => Evaluated(r)'
                      /\ Cube!Got(<<"sandbox-revision", r>>) =>
                           /\ Cube!Got(<<"sandbox-revision", r>>)'
                           /\ receipts'[<<"sandbox-revision", r>>] = receipts[<<"sandbox-revision", r>>]
    BY DEF CubeInv, EvidenceFits, Posted
  <2>1. \A k \in Cube!Sandboxes \cup Cube!Evaluators :
          Cube!Got(<<k, r>>) => Cube!Got(<<k, r>>)' /\ receipts'[<<k, r>>] = receipts[<<k, r>>]
    BY <1>1, WorkIsOf DEF ReceiptsStay
  <2>2. "sandbox-revision" \in Cube!Sandboxes
    BY DEF Cube!Sandboxes
  <2> QED
    BY <2>1, <2>2 DEF Built, Evaluated
<1>5. VerifyingFits' /\ ResolvingFits'
  BY <1>1 DEF CubeInv, VerifyingFits, ResolvingFits, Posted, Ends
<1>6. AcceptingFits'
  <2> SUFFICES Cube!AcceptedIsVerified'
    BY DEF CubeInv, AcceptingFits, Ends
  <2> SUFFICES ASSUME NEW r \in driver.accepted
               PROVE  \E b \in Cube!Sandboxes, v \in Cube!Evaluators :
                        /\ Cube!Got(<<b, r>>)' /\ Cube!Got(<<v, r>>)' /\ receipts'[<<v, r>>].ok
                        /\ {receipts'[<<b, r>>].source, receipts'[<<v, r>>].source}
                              = {driver.sandboxes[r].source}
    BY DEF Cube!AcceptedIsVerified
  <2>1. PICK b \in Cube!Sandboxes, v \in Cube!Evaluators :
               /\ Cube!Got(<<b, r>>) /\ Cube!Got(<<v, r>>) /\ receipts[<<v, r>>].ok
               /\ {receipts[<<b, r>>].source, receipts[<<v, r>>].source} = {driver.sandboxes[r].source}
    BY DEF CubeInv, AcceptingFits, Cube!AcceptedIsVerified
  <2>2. <<b, r>> \in Cube!Work /\ <<v, r>> \in Cube!Work
    BY WorkIsOf DEF CubeInv, CubeTypes
  <2> QED
    BY <1>1, <2>1, <2>2 DEF ReceiptsStay
<1>7. NothingIsLost' /\ BudgetFits'
  BY <1>1 DEF CubeInv, CubeTypes, NothingIsLost, Cube!AssertionsHold, BudgetFits, PlannedCalls,
    Asked, Posted
<1> QED
  BY <1>2, <1>3, <1>4, <1>5, <1>6, <1>7 DEF CubeInv

(* A cell changes.                                                           *)
LEMMA CellChanges ==
  ASSUME CubeInv, NEW w \in Cube!Work, NEW status \in {"idle", "working", "failed"},
         NEW p \in Cube!Jobs \cup {None}, Cube!Pending(Cube!CellOf(w), status, p)
  PROVE  /\ cells' \in [Cube!Cells -> [status : {"idle", "working", "failed"},
                                       pending : Cube!Jobs \cup {None}]]
         /\ cells'[Cube!CellOf(w)].pending = p
         /\ \A c \in Cube!Cells \ {Cube!CellOf(w)} : cells'[c] = cells[c]
<1>1. Cube!CellOf(w) \in Cube!Cells
  BY CellsOfWork
<1>2. cells' = [cells EXCEPT ![Cube!CellOf(w)] = [status |-> status, pending |-> p]]
  BY DEF Cube!Pending
<1> QED
  BY <1>1, <1>2 DEF CubeInv, CubeTypes

(* A cell is given work: it begins a job, or is done at once.                  *)
LEMMA AssignedKeeps ==
  ASSUME CubeInv, NEW w \in Cube!Work, Cube!Assigned(w) PROVE CubeInv'
<1>1. /\ Posted(w) /\ ~Cube!Got(w) /\ cells[Cube!CellOf(w)].pending = None
      /\ UNCHANGED <<requests, ledger, posted, driver>>
      /\ w \in Cube!Jobs => lane[w].status = "none"
  BY DEF Cube!Assigned, Cube!Waits, Posted
<1>2. CASE w \in Cube!Jobs
  <2>1. /\ Cube!Pending(Cube!CellOf(w), "working", w) /\ UNCHANGED receipts
        /\ lane' = Lane(Cube!Jobs, TRUE, CapabilitiesFitLeases, MaxCapabilityClaims)!Begun(w)
    BY <1>2 DEF Cube!Assigned, Cube!Begun, Lane!Begun
  <2>2. PICK of : of = CubeOutcomes
    OBVIOUS
  <2>3. of = CubeOutcomes'
    BY <1>1, <2>2 DEF CubeOutcomes, Posted, Cube!Outcomes
  <2>4. LaneFits(Cube!Jobs, MaxCapabilityClaims, CubeResults, of)
    BY <2>2, CubeLaneIs DEF CubeInv
  <2>5. /\ LaneFits(Cube!Jobs, MaxCapabilityClaims, CubeResults, of)'
        /\ lane'[w].status = "ready" /\ \A v \in Cube!Jobs \ {w} : lane'[v] = lane[v]
    BY <1>1, <1>2, <2>1, <2>4, BegunFits
  <2>6. CubeLane'
    BY <2>3, <2>5, CubeLaneIs
  <2>7. /\ cells' \in [Cube!Cells -> [status : {"idle", "working", "failed"},
                                      pending : Cube!Jobs \cup {None}]]
        /\ cells'[Cube!CellOf(w)].pending = w
        /\ \A c \in Cube!Cells \ {Cube!CellOf(w)} : cells'[c] = cells[c]
    BY <1>2, <2>1, CellChanges
  <2>8. CubeTypes' /\ ReceiptsStay
    BY <1>1, <2>1, <2>7 DEF CubeInv, CubeTypes, ReceiptsStay
  <2>9. WorkFollowsTheLane'
    <3>1. ASSUME NEW v \in Cube!Jobs
          PROVE  /\ lane'[v].status # "none" => Posted(v)
                 /\ lane'[v].status \in Open <=> cells'[Cube!CellOf(v)].pending = v
                 /\ Cube!Got(v) => /\ lane'[v].status = "done" /\ receipts[v] \in Cube!Outcomes(v)
                                   /\ ledger[v] # None
      <4>1. Cube!CellOf(v) \in Cube!Cells /\ v # None
        BY CellsOfWork, JobsAreOf, CubeConstants
      <4>2. CASE v = w
        BY <1>1, <2>5, <2>7, <4>2 DEF Open
      <4>3. CASE v # w
        BY <1>1, <2>5, <2>7, <4>1, <4>3 DEF CubeInv, WorkFollowsTheLane
      <4> QED
        BY <4>2, <4>3
    <3>2. \A c \in Cube!Cells : cells'[c].pending # None => Cube!CellOf(cells'[c].pending) = c
      BY <2>7 DEF CubeInv, WorkFollowsTheLane
    <3> QED
      BY <1>1, <2>1, <3>1, <3>2 DEF WorkFollowsTheLane, Posted, Cube!Got, Cube!Outcomes
  <2>10. \A v \in Cube!Work : receipts'[v] # None => Posted(v)
    BY <2>1 DEF CubeInv, OneAtATime, Cube!Got
  <2> QED
    BY <1>1, <2>6, <2>8, <2>9, <2>10, ReceiptsKeep
<1>3. CASE w \notin Cube!Jobs
  <2>1. /\ Cube!Pending(Cube!CellOf(w), "idle", None) /\ UNCHANGED lane
        /\ receipts' = [receipts EXCEPT ![w] = [source |-> None, ok |-> TRUE]]
    BY <1>3 DEF Cube!Assigned, Cube!Receives
  <2>2. CubeLane'
    BY <1>1, <2>1 DEF CubeInv, CubeLane, CubeOutcomes, LaneFits, Posted, Cube!Outcomes
  <2>3. /\ cells' \in [Cube!Cells -> [status : {"idle", "working", "failed"},
                                      pending : Cube!Jobs \cup {None}]]
        /\ cells'[Cube!CellOf(w)].pending = None
        /\ \A c \in Cube!Cells \ {Cube!CellOf(w)} : cells'[c] = cells[c]
    BY <2>1, CellChanges
  <2>4. /\ receipts' \in [Cube!Work -> CubeResults \cup {None}]
        /\ \A v \in Cube!Work \ {w} : receipts'[v] = receipts[v]
    BY <2>1 DEF CubeInv, CubeTypes, CubeResults
  <2>5. CubeTypes' /\ ReceiptsStay
    BY <1>1, <2>3, <2>4 DEF CubeInv, CubeTypes, ReceiptsStay
  <2>6. WorkFollowsTheLane'
    <3>1. \A c \in Cube!Cells : cells'[c].pending = cells[c].pending
      BY <1>1, <2>3
    <3>2. \A v \in Cube!Jobs : /\ receipts'[v] = receipts[v] /\ Cube!CellOf(v) \in Cube!Cells
                               /\ Cube!Outcomes(v)' = Cube!Outcomes(v)
      BY <1>1, <1>3, <2>4, JobsAreOf, CellsOfWork DEF Cube!Outcomes
    <3> QED
      BY <1>1, <2>1, <3>1, <3>2 DEF CubeInv, WorkFollowsTheLane, Posted, Cube!Got
  <2>7. \A v \in Cube!Work : receipts'[v] # None => Posted(v)
    BY <1>1, <2>4 DEF CubeInv, OneAtATime, Cube!Got
  <2> QED
    BY <1>1, <2>2, <2>5, <2>6, <2>7, ReceiptsKeep
<1> QED
  BY <1>2, <1>3

(* The outcome of a job: it was the pending one, and its receipt is kept.     *)
LEMMA OpenIsPending ==
  ASSUME CubeInv, NEW w \in Cube!Jobs, lane[w].status \in Open
  PROVE  /\ w \in Cube!Work /\ Posted(w) /\ ~Cube!Got(w) /\ cells[Cube!CellOf(w)].pending = w
         /\ lane[w].status # "none"
         /\ \A v \in Cube!Jobs \ {w} : Cube!CellOf(v) = Cube!CellOf(w) => lane[v].status \notin Open
<1>1. "none" \notin Open /\ "done" \notin Open
  BY DEF Open
<1> QED
  BY <1>1, JobsAreOf DEF CubeInv, WorkFollowsTheLane

(* The lane after an outcome is handled.                                       *)
LEMMA JobIsHandled ==
  ASSUME CubeInv, NEW w \in Cube!Jobs, lane[w].status # "none",
         lane' = Lane(Cube!Jobs, TRUE, CapabilitiesFitLeases, MaxCapabilityClaims)!Handled(w),
         UNCHANGED <<requests, ledger, posted>>
  PROVE  /\ CubeLane' /\ lane'[w].status = "done"
         /\ \A v \in Cube!Jobs \ {w} : lane'[v] = lane[v]
<1>1. UNCHANGED requests /\ UNCHANGED ledger /\ MaxCapabilityClaims \in Nat
  BY CubeConstants
<1>2. PICK of : of = CubeOutcomes
  OBVIOUS
<1>3. of = CubeOutcomes'
  BY <1>2 DEF CubeOutcomes, Posted, Cube!Outcomes
<1>4. LaneFits(Cube!Jobs, MaxCapabilityClaims, CubeResults, of)
  BY <1>2, CubeLaneIs DEF CubeInv
<1>5. /\ LaneFits(Cube!Jobs, MaxCapabilityClaims, CubeResults, of)'
      /\ lane'[w].status = "done" /\ \A v \in Cube!Jobs \ {w} : lane'[v] = lane[v]
  BY <1>1, <1>4, HandledFits
<1> QED
  BY <1>3, <1>5, CubeLaneIs

(* A cell handles the outcome of its job.                                      *)
LEMMA OutcomeIsHandled ==
  ASSUME CubeInv, NEW w \in Cube!Jobs, lane[w].status \in Open, lane' = Cube!Handled(w),
         NEW status \in {"idle", "failed"}, Cube!Pending(Cube!CellOf(w), status, None),
         UNCHANGED <<requests, ledger, posted, driver>>,
         NEW x \in CubeResults \cup {None}, receipts' = [receipts EXCEPT ![w] = x],
         x # None => x \in Cube!Outcomes(w) /\ ledger[w] # None
  PROVE  CubeInv'
<1>1. /\ w \in Cube!Work /\ Posted(w) /\ ~Cube!Got(w) /\ cells[Cube!CellOf(w)].pending = w
      /\ lane[w].status # "none" /\ UNCHANGED <<requests, ledger, posted>>
  BY OpenIsPending
<1>2. lane' = Lane(Cube!Jobs, TRUE, CapabilitiesFitLeases, MaxCapabilityClaims)!Handled(w)
  BY DEF Cube!Handled, Lane!Handled, Cube!NoAction, Lane!NoAction
<1>7. /\ CubeLane' /\ lane'[w].status = "done"
      /\ \A v \in Cube!Jobs \ {w} : lane'[v] = lane[v]
  BY <1>1, <1>2, JobIsHandled
<1>8. /\ cells' \in [Cube!Cells -> [status : {"idle", "working", "failed"},
                                    pending : Cube!Jobs \cup {None}]]
      /\ cells'[Cube!CellOf(w)].pending = None
      /\ \A c \in Cube!Cells \ {Cube!CellOf(w)} : cells'[c] = cells[c]
  BY <1>1, CellChanges
<1>9. /\ receipts' \in [Cube!Work -> CubeResults \cup {None}] /\ receipts'[w] = x
      /\ \A v \in Cube!Work \ {w} : receipts'[v] = receipts[v]
  BY <1>1 DEF CubeInv, CubeTypes
<1>10. CubeTypes' /\ ReceiptsStay
  BY <1>1, <1>8, <1>9 DEF CubeInv, CubeTypes, ReceiptsStay
<1>11. WorkFollowsTheLane'
  <2>1. ASSUME NEW v \in Cube!Jobs
        PROVE  /\ lane'[v].status # "none" => Posted(v)
               /\ lane'[v].status \in Open <=> cells'[Cube!CellOf(v)].pending = v
               /\ receipts'[v] # None =>
                    /\ lane'[v].status = "done" /\ receipts'[v] \in Cube!Outcomes(v)
                    /\ ledger[v] # None
    <3>1. Cube!CellOf(v) \in Cube!Cells /\ v # None /\ v \in Cube!Work /\ "done" \notin Open
      BY CellsOfWork, JobsAreOf, CubeConstants DEF Open
    <3>2. CASE v = w
      BY <1>1, <1>7, <1>8, <1>9, <3>1, <3>2
    <3>3. CASE v # w
      BY <1>7, <1>8, <1>9, <3>1, <3>3, OpenIsPending DEF CubeInv, WorkFollowsTheLane, Cube!Got
    <3> QED
      BY <3>2, <3>3
  <2>2. \A c \in Cube!Cells : cells'[c].pending # None => Cube!CellOf(cells'[c].pending) = c
    BY <1>8 DEF CubeInv, WorkFollowsTheLane
  <2> QED
    BY <2>1, <2>2 DEF WorkFollowsTheLane, Posted, Cube!Got, Cube!Outcomes
<1>12. \A v \in Cube!Work : receipts'[v] # None => Posted(v)
  BY <1>1, <1>9 DEF CubeInv, OneAtATime, Cube!Got
<1> QED
  BY <1>7, <1>10, <1>11, <1>12, ReceiptsKeep

LEMMA DeliversKeeps ==
  ASSUME CubeInv, NEW w \in Cube!Jobs, Cube!Delivers(w) PROVE CubeInv'
<1>1. lane[w].status = "delivered" /\ lane[w].status \in Open
  BY DEF Cube!Delivers, Open
<1>2. cells[Cube!CellOf(w)].pending = w /\ Posted(w)
  BY <1>1, OpenIsPending
<1>3. /\ lane' = Cube!Handled(w) /\ Cube!Pending(Cube!CellOf(w), "idle", None)
      /\ UNCHANGED <<requests, ledger, posted, driver>>
      /\ receipts' = [receipts EXCEPT ![w] = lane[w].result]
  BY <1>2 DEF Cube!Delivers, Cube!Receives
<1>4. /\ lane[w].result \in CubeResults \cup {None} /\ lane[w].result \in Cube!Outcomes(w)
      /\ ledger[w] # None
  BY <1>1, <1>2 DEF CubeInv, CubeLane, LaneFits, Row, CubeOutcomes
<1>5. "idle" \in {"idle", "failed"}
  OBVIOUS
<1> QED
  BY <1>1, <1>3, <1>4, <1>5, OutcomeIsHandled

LEMMA CubeFailsKeeps ==
  ASSUME CubeInv, NEW w \in Cube!Jobs, Cube!Fails(w) PROVE CubeInv'
<1>1. /\ lane[w].status = "failed" /\ lane[w].status \in Open
      /\ lane' = Cube!Handled(w) /\ Cube!Pending(Cube!CellOf(w), "failed", None)
      /\ UNCHANGED <<requests, ledger, posted, receipts, driver>>
  BY DEF Cube!Fails, Open
<1>2. receipts[w] = None /\ w \in Cube!Work
  BY <1>1, OpenIsPending DEF Cube!Got
<1>3. receipts' = [receipts EXCEPT ![w] = None]
  BY <1>1, <1>2 DEF CubeInv, CubeTypes
<1>4. "failed" \in {"idle", "failed"} /\ None \in CubeResults \cup {None}
  OBVIOUS
<1> QED
  BY <1>1, <1>3, <1>4, OutcomeIsHandled

(* Steps of the lane, of the executor, and the restart.                        *)
LEMMA CubeJobsKeep ==
  ASSUME CubeInv, Cube!JobStep, UNCHANGED <<posted, cells, receipts, driver>> PROVE CubeInv'
<1>1. PICK of : of = CubeOutcomes
  OBVIOUS
<1>2. of = CubeOutcomes'
  BY <1>1 DEF CubeOutcomes, Posted, Cube!Outcomes
<1>3. LaneFits(Cube!Jobs, MaxCapabilityClaims, CubeResults, of)
  BY <1>1, CubeLaneIs DEF CubeInv
<1>4. LaneFits(Cube!Jobs, MaxCapabilityClaims, CubeResults, of)' /\ LaneGoesOn(Cube!Jobs)
  BY <1>3, CubeConstants, CubeHasALane, LaneSteps
<1>5. CubeLane'
  BY <1>2, <1>4, CubeLaneIs
<1> QED
  BY <1>4, <1>5, LaneKeepsWork

LEMMA ExecutesKeeps ==
  ASSUME CubeInv, NEW q \in requests, Cube!Executes(q) PROVE CubeInv'
<1>1. PICK of : of = CubeOutcomes
  OBVIOUS
<1>2. UNCHANGED <<posted, cells, receipts, driver>> /\ of = CubeOutcomes'
  BY <1>1 DEF Cube!Executes, CubeOutcomes, Posted, Cube!Outcomes
<1>3. LaneFits(Cube!Jobs, MaxCapabilityClaims, CubeResults, of)
  BY <1>1, CubeLaneIs DEF CubeInv
<1>4. q.job \in Cube!Jobs /\ lane[q.job].status # "none"
  BY <1>3 DEF LaneFits, Requests
<1>5. Posted(q.job) /\ q.job \in Cube!Work /\ posted[q.job] \in SUBSET (Sources \cup {None})
  BY <1>4, JobsAreOf DEF CubeInv, WorkFollowsTheLane, CubeTypes, Posted
<1>6. PICK x \in Cube!Outcomes(q.job) : Cube!Finish(q, x)
  BY DEF Cube!Executes
<1>7. x \in CubeResults
  <2>1. CASE Cube!Denied(q.job)
    <3>1. x = [source |-> None, ok |-> FALSE]
      BY <1>6, <2>1 DEF Cube!Outcomes
    <3> QED
      BY <3>1 DEF CubeResults
  <2>2. CASE ~Cube!Denied(q.job)
    <3>1. \E oks \in SUBSET BOOLEAN : x \in [source : posted[q.job], ok : oks]
      BY <1>6, <2>2 DEF Cube!Outcomes
    <3> QED
      BY <1>5, <3>1 DEF CubeResults
  <2> QED
    BY <2>1, <2>2
<1>8. x \in of[q.job] /\ None \notin CubeResults
  BY <1>1, <1>4, <1>5, <1>6, CubeConstants DEF CubeOutcomes
<1>9. Lane(Cube!Jobs, TRUE, CapabilitiesFitLeases, MaxCapabilityClaims)!Finish(q, x)
  BY <1>6, CubeHasALane
<1>10. LaneFits(Cube!Jobs, MaxCapabilityClaims, CubeResults, of)' /\ LaneGoesOn(Cube!Jobs)
  BY <1>3, <1>7, <1>8, <1>9, FinishFits
<1>11. CubeLane'
  BY <1>2, <1>10, CubeLaneIs
<1> QED
  BY <1>2, <1>10, <1>11, LaneKeepsWork

LEMMA RestartKeeps ==
  ASSUME CubeInv, Cube!RestartCelld PROVE CubeInv'
<1>1. PICK of : of = CubeOutcomes
  OBVIOUS
<1>2. /\ UNCHANGED <<posted, cells, receipts>> /\ of = CubeOutcomes'
      /\ driver.step = "restart" /\ driver' = [driver EXCEPT !.step = "sandboxed"]
  BY <1>1 DEF Cube!RestartCelld, CubeOutcomes, Posted, Cube!Outcomes
<1>3. LaneFits(Cube!Jobs, MaxCapabilityClaims, CubeResults, of)
  BY <1>1, CubeLaneIs DEF CubeInv
<1>4. Lane(Cube!Jobs, TRUE, CapabilitiesFitLeases, MaxCapabilityClaims)!RestartHost
  BY CubeHasALane DEF Cube!RestartCelld
<1>5. LaneFits(Cube!Jobs, MaxCapabilityClaims, CubeResults, of)' /\ LaneGoesOn(Cube!Jobs)
  BY <1>3, <1>4, RestartFits
<1>6. CubeLane'
  BY <1>2, <1>5, CubeLaneIs
<1> QED
  BY <1>2, <1>5, <1>6, LaneKeepsWork

(* Only the driver goes on.                                                  *)
Elsewhere == <<lane, requests, ledger, cells, receipts>>

(* The driver moves without asking for anything: the lane, the cells and       *)
(* what is asked stay.                                                         *)
LEMMA CubeDriverMoves ==
  ASSUME CubeInv, UNCHANGED Elsewhere, UNCHANGED posted, CubeTypes', driver'.open = driver.open,
         TodoFits', EvidenceFits', VerifyingFits', ResolvingFits', AcceptingFits', NothingIsLost',
         BudgetFits'
  PROVE  CubeInv'
<1>1. CubeLane'
  BY DEF CubeInv, CubeLane, CubeOutcomes, LaneFits, Posted, Cube!Outcomes, Elsewhere
<1>2. WorkFollowsTheLane'
  BY DEF CubeInv, WorkFollowsTheLane, Posted, Cube!Got, Cube!Outcomes, Elsewhere
<1>3. OneAtATime'
  BY DEF CubeInv, OneAtATime, Undone, Posted, Cube!Got, Elsewhere
<1> QED
  BY <1>1, <1>2, <1>3 DEF CubeInv

(* A driver that stops keeps what it has.                                      *)
LEMMA StopsKeeps ==
  ASSUME CubeInv, UNCHANGED Elsewhere, NEW status, status \in {"passed", "failed"},
         Cube!Stops(status)
  PROVE  CubeInv'
<1>1. UNCHANGED posted /\ driver' = [driver EXCEPT !.step = status]
  BY DEF Cube!Stops
<1>2. /\ CubeTypes' /\ driver'.open = driver.open /\ driver'.todo = driver.todo
      /\ driver'.sandboxes = driver.sandboxes /\ driver'.evaluations = driver.evaluations
      /\ driver'.before = driver.before /\ driver'.accepted = driver.accepted
      /\ driver'.step = status /\ driver'.step \in Ends
  BY <1>1 DEF CubeInv, CubeTypes, Steps, Ends, Elsewhere
<1>3. TodoFits'
  BY <1>1, <1>2 DEF CubeInv, TodoFits, Asked, Posted, Ends
<1>4. EvidenceFits'
  BY <1>1, <1>2 DEF CubeInv, EvidenceFits, Posted, Cube!Got, Ends, Elsewhere
<1>5. VerifyingFits' /\ ResolvingFits'
  BY <1>1, <1>2 DEF VerifyingFits, ResolvingFits, Ends
<1>6. AcceptingFits'
  <2>1. Cube!AcceptedIsVerified'
    BY <1>2, AcceptedStays DEF CubeInv, AcceptingFits, Elsewhere
  <2> QED
    BY <1>2, <2>1 DEF AcceptingFits, Ends
<1>7. NothingIsLost'
  BY <1>1, <1>2 DEF CubeInv, NothingIsLost, Cube!AssertionsHold, Cube!Got, Ends, Elsewhere
<1>8. BudgetFits'
  BY <1>1, <1>2 DEF CubeInv, BudgetFits, PlannedCalls, Asked, Posted
<1> QED
  BY <1>1, <1>2, <1>3, <1>4, <1>5, <1>6, <1>7, <1>8, CubeDriverMoves

(* At rest all that was asked for is done.                                     *)
LEMMA NobodyIsAtWork ==
  ASSUME CubeInv, Cube!AllGot PROVE \A w \in Cube!Work : ~Undone(w) /\ (Posted(w) => Cube!Got(w))
BY DEF CubeInv, OneAtATime, Undone, Cube!AllGot

LEMMA ReceiptIs ==
  ASSUME CubeInv, NEW w \in Cube!Work, Cube!Got(w)
  PROVE  receipts[w] \in CubeResults /\ receipts[w].source \in Sources \cup {None}
         /\ receipts[w].ok \in BOOLEAN
BY DEF CubeInv, CubeTypes, Cube!Got, CubeResults

(* Works are asked for that can be: their cells are free.                     *)
AskedFor(ws, about) ==
  /\ ws \subseteq Cube!Work /\ \A w \in ws : ~Posted(w) /\ about[w] \in SUBSET (Sources \cup {None})
  /\ \A v \in ws, w \in Cube!Work :
       (w \in ws /\ w # v) \/ Undone(w) => Cube!CellOf(v) # Cube!CellOf(w)
  /\ posted' = [w \in Cube!Work |-> IF w \in ws THEN about[w] ELSE posted[w]]
  /\ driver'.open = {w \in driver.open : ~Cube!Got(w)} \cup ws
  /\ UNCHANGED Elsewhere

(* Then the lane, the cells and the books of what is open are kept.            *)
LEMMA AsksFit ==
  ASSUME CubeInv, NEW ws, NEW about, AskedFor(ws, about)
  PROVE  /\ CubeLane' /\ WorkFollowsTheLane' /\ OneAtATime'
         /\ posted' \in [Cube!Work -> (SUBSET (Sources \cup {None})) \cup {None}]
         /\ driver'.open \in SUBSET Cube!Work
         /\ \A w \in Cube!Work : Posted(w)' <=> Posted(w) \/ w \in ws
         /\ \A w \in ws : posted'[w] = about[w]
         /\ \A w \in Cube!Work \ ws : posted'[w] = posted[w]
         /\ \A w \in Cube!Work : Cube!Got(w)' = Cube!Got(w) /\ (Cube!Got(w) => w \notin ws)
         /\ \A w \in Cube!Work : Undone(w)' <=> Undone(w) \/ w \in ws
<1>1. /\ posted' \in [Cube!Work -> (SUBSET (Sources \cup {None})) \cup {None}]
      /\ driver'.open \in SUBSET Cube!Work
      /\ \A w \in ws : posted'[w] = about[w]
      /\ \A w \in Cube!Work \ ws : posted'[w] = posted[w]
  BY DEF AskedFor, CubeInv, CubeTypes
<1>2. \A w \in Cube!Work : Posted(w)' <=> Posted(w) \/ w \in ws
  BY <1>1, CubeConstants DEF AskedFor, Posted
<1>3. \A w \in Cube!Work : Cube!Got(w)' = Cube!Got(w) /\ (Cube!Got(w) => w \notin ws)
  BY DEF AskedFor, Elsewhere, Cube!Got, CubeInv, OneAtATime
<1>4. \A w \in Cube!Work : Undone(w)' <=> Undone(w) \/ w \in ws
  BY <1>2, <1>3 DEF Undone
<1>5. \A w \in Cube!Jobs : Posted(w) =>
        Posted(w)' /\ Cube!Outcomes(w)' = Cube!Outcomes(w)
  BY <1>1, <1>2, JobsAreOf DEF AskedFor, Cube!Outcomes, Cube!Denied
<1>6. CubeLane'
  <2>1. \A w \in Cube!Jobs : CubeOutcomes[w] \subseteq CubeOutcomes'[w]
    BY <1>5 DEF CubeOutcomes
  <2>2. PICK of : of = CubeOutcomes
    OBVIOUS
  <2>3. PICK more : more = CubeOutcomes'
    OBVIOUS
  <2>4. LaneFits(Cube!Jobs, MaxCapabilityClaims, CubeResults, of)
    BY <2>2, CubeLaneIs DEF CubeInv
  <2>5. LaneFits(Cube!Jobs, MaxCapabilityClaims, CubeResults, more)'
    <3>1. \A w \in Cube!Jobs : of[w] \subseteq more[w]
      BY <2>1, <2>2, <2>3
    <3> HIDE DEF CubeOutcomes
    <3>2. UNCHANGED <<lane, requests, ledger>>
      BY DEF AskedFor, Elsewhere
    <3>3. \A q \in requests : q.job \in Cube!Jobs
      BY <2>4 DEF LaneFits, Requests
    <3> QED
      BY <2>4, <3>1, <3>2, <3>3 DEF LaneFits
  <2> QED
    BY <2>3, <2>5, CubeLaneIs
<1>7. WorkFollowsTheLane'
  BY <1>2, <1>3, <1>5, JobsAreOf
  DEF CubeInv, WorkFollowsTheLane, OneAtATime, AskedFor, Elsewhere
<1>8. OneAtATime'
  BY <1>2, <1>3, <1>4 DEF CubeInv, OneAtATime, AskedFor, Undone
<1> QED
  BY <1>1, <1>2, <1>3, <1>4, <1>6, <1>7, <1>8

(* A work that is next has what it is about, in a receipt or in the evidence. *)
LEMMA NextIsPrepared ==
  ASSUME CubeInv, Cube!AllGot, NEW w \in driver.todo, w \in Cube!Work,
         \A v \in driver.todo : ~Cube!Precedes(v, w)
  PROVE  \A later, earlier :
           /\ w[1] = later
           /\ <<later, earlier>> \in {<<"sandbox-public", "revise-public">>,
                <<"sandbox-revision", "revise">>, <<"verify-revision", "sandbox-revision">>}
           => Cube!Got(<<earlier, w[2]>>) /\ <<earlier, w[2]>> \in Cube!Work
<1> SUFFICES ASSUME NEW later, NEW earlier, w[1] = later,
                    <<later, earlier>> \in {<<"sandbox-public", "revise-public">>,
                      <<"sandbox-revision", "revise">>, <<"verify-revision", "sandbox-revision">>}
             PROVE  Cube!Got(<<earlier, w[2]>>) /\ <<earlier, w[2]>> \in Cube!Work
  OBVIOUS
<1>1. w = <<later, w[2]>> /\ w[2] \in Cube!Reports
  BY WorkIsOf
<1>2. <<earlier, w[2]>> \in Cube!Work
  BY <1>1, WorkIsOf DEF Cube!Sandboxes
<1>3. Cube!Precedes(<<earlier, w[2]>>, w)
  BY <1>1 DEF Cube!Precedes
<1>4. <<earlier, w[2]>> \notin driver.todo
  BY <1>3
<1>5. Asked(<<earlier, w[2]>>)
  BY <1>1 DEF CubeInv, TodoFits
<1> QED
  BY <1>2, <1>4, <1>5, NobodyIsAtWork DEF Asked

(* What is next belongs to the step of the driver.                             *)
LEMMA TodoIsOf ==
  ASSUME CubeInv, ~Cube!Ended, NEW w \in driver.todo
  PROVE  /\ w \in Cube!Work /\ w \in TodoOf(driver.step)
         /\ w[1] \notin {"sandbox", "verify", "verify-retry"}
         /\ w[1] = "resolve" => driver.step = "resolve" /\ w = <<"resolve", Cube!Final>>
         /\ w[1] \in {"triage", "patch", "revise-public", "revise", "conflict", "accept", "release",
                      "sandbox-public", "sandbox-revision", "verify-revision", "resolve"}
<1>1. w \in Cube!Work /\ w \in TodoOf(driver.step) /\ driver.step \in Steps
  BY DEF CubeInv, CubeTypes, TodoFits, Cube!Ended, Ends
<1> QED
  BY <1>1 DEF TodoOf

(* What it is about is a source that somebody has built or proposed.           *)
LEMMA AboutNext ==
  ASSUME CubeInv, Cube!AllGot, ~Cube!Ended, NEW w \in driver.todo,
         \A v \in driver.todo : ~Cube!Precedes(v, w), NEW d, d.sandboxes = driver.sandboxes
  PROVE  /\ Cube!About(w, d) \in SUBSET (Sources \cup {None})
         /\ w[1] = "verify-revision" =>
              /\ Cube!Got(<<"sandbox-revision", w[2]>>)
              /\ Cube!About(w, d) = {receipts[<<"sandbox-revision", w[2]>>].source}
         /\ w[1] = "resolve" =>
              Cube!About(w, d) = {driver.sandboxes[r].source : r \in Cube!Rivals}
<1>1. w \in Cube!Work /\ w[2] \in Cube!Reports
  BY TodoIsOf, WorkIsOf
<1>2. CASE w[1] \in {"triage", "patch", "revise-public", "revise", "conflict", "accept", "release"}
  BY <1>2 DEF Cube!About
<1>3. CASE w[1] = "sandbox-public"
  <2>1. Cube!About(w, d) = {receipts[<<"revise-public", w[2]>>].source}
    BY <1>3 DEF Cube!About
  <2>2. receipts[<<"revise-public", w[2]>>].source \in Sources \cup {None}
    BY <1>1, <1>3, NextIsPrepared, ReceiptIs
  <2> QED
    BY <1>3, <2>1, <2>2
<1>4. CASE w[1] = "sandbox-revision"
  <2>1. Cube!About(w, d) = {receipts[<<"revise", w[2]>>].source}
    BY <1>4 DEF Cube!About
  <2>2. receipts[<<"revise", w[2]>>].source \in Sources \cup {None}
    BY <1>1, <1>4, NextIsPrepared, ReceiptIs
  <2> QED
    BY <1>4, <2>1, <2>2
<1>5. CASE w[1] = "verify-revision"
  <2>1. Cube!About(w, d) = {receipts[<<"sandbox-revision", w[2]>>].source}
    BY <1>5 DEF Cube!About
  <2>2. Cube!Got(<<"sandbox-revision", w[2]>>) /\ <<"sandbox-revision", w[2]>> \in Cube!Work
    BY <1>1, <1>5, NextIsPrepared
  <2>3. receipts[<<"sandbox-revision", w[2]>>].source \in Sources \cup {None}
    BY <2>2, ReceiptIs
  <2> QED
    BY <1>5, <2>1, <2>2, <2>3
<1>6. CASE w[1] = "resolve"
  <2>1. Cube!About(w, d) = {driver.sandboxes[r].source : r \in Cube!Rivals}
    BY <1>6 DEF Cube!About
  <2>2. \A r \in Cube!Rivals : driver.sandboxes[r].source \in Sources \cup {None}
    <3> SUFFICES ASSUME NEW r \in Cube!Rivals
                 PROVE  driver.sandboxes[r].source \in Sources \cup {None}
      OBVIOUS
    <3>1. r \in Cube!Reports /\ Built(r)
      BY <1>6, TodoIsOf, CubeConstants DEF CubeInv, EvidenceFits
    <3>2. PICK b \in Cube!Sandboxes :
                 Cube!Got(<<b, r>>) /\ driver.sandboxes[r] = receipts[<<b, r>>]
      BY <3>1 DEF Built
    <3> QED
      BY <3>1, <3>2, WorkIsOf, ReceiptIs
  <2> QED
    BY <1>6, <2>1, <2>2
<1> QED
  BY <1>2, <1>3, <1>4, <1>5, <1>6, TodoIsOf

(* One work after the other.                                                   *)
LEMMA AskNextKeeps ==
  ASSUME CubeInv, ~Cube!Ended, Cube!AskNext PROVE CubeInv'
<1>1. UNCHANGED Elsewhere /\ Cube!AllGot
  BY DEF Cube!AskNext, Elsewhere, Cube!lanes
<1>2. PICK w \in driver.todo :
        /\ \A v \in driver.todo : ~Cube!Precedes(v, w)
        /\ IF \E v \in driver.open : Cube!StillFails(v) THEN Cube!Stops("failed")
           ELSE Cube!Asks({w}, [driver EXCEPT !.todo = @ \ {w}])
  BY DEF Cube!AskNext
<1>3. CASE Cube!Stops("failed")
  BY <1>1, <1>3, StopsKeeps
<1>4. CASE ~Cube!Stops("failed")
  <2> DEFINE d == [driver EXCEPT !.todo = @ \ {w}]
             about == [v \in {w} |-> Cube!About(v, d)]
  <2>1. /\ ~Posted(w) /\ posted' = [v \in Cube!Work |-> IF v \in {w} THEN about[v] ELSE posted[v]]
        /\ driver' = [d EXCEPT !.open = {v \in @ : ~Cube!Got(v)} \cup {w}]
    BY <1>2, <1>4 DEF Cube!Asks, Cube!Refused, Posted
  <2>2. /\ d.sandboxes = driver.sandboxes /\ d.open = driver.open
        /\ driver'.open = {v \in driver.open : ~Cube!Got(v)} \cup {w}
        /\ driver'.todo = driver.todo \ {w} /\ driver'.step = driver.step
        /\ driver'.sandboxes = driver.sandboxes /\ driver'.evaluations = driver.evaluations
        /\ driver'.before = driver.before /\ driver'.accepted = driver.accepted
    BY <2>1 DEF CubeInv, CubeTypes
  <2>3. /\ about[w] \in SUBSET (Sources \cup {None})
        /\ w[1] = "verify-revision" =>
              /\ Cube!Got(<<"sandbox-revision", w[2]>>)
              /\ about[w] = {receipts[<<"sandbox-revision", w[2]>>].source}
        /\ w[1] = "resolve" => about[w] = {driver.sandboxes[r].source : r \in Cube!Rivals}
    BY <1>1, <1>2, <2>2, AboutNext
  <2>4. /\ w \in Cube!Work /\ w \in TodoOf(driver.step)
        /\ w[1] \notin {"sandbox", "verify", "verify-retry"}
        /\ w[1] = "resolve" => driver.step = "resolve" /\ w = <<"resolve", Cube!Final>>
        /\ w[2] \in Cube!Reports /\ w = <<w[1], w[2]>>
    BY TodoIsOf, WorkIsOf
  <2> HIDE DEF about, d
  <2>5. AskedFor({w}, about)
    BY <1>1, <2>1, <2>2, <2>3, <2>4, NobodyIsAtWork DEF AskedFor
  <2>6. /\ CubeLane' /\ WorkFollowsTheLane' /\ OneAtATime'
        /\ posted' \in [Cube!Work -> (SUBSET (Sources \cup {None})) \cup {None}]
        /\ driver'.open \in SUBSET Cube!Work
        /\ \A v \in Cube!Work : Posted(v)' <=> Posted(v) \/ v = w
        /\ posted'[w] = about[w]
        /\ \A v \in Cube!Work : v # w => posted'[v] = posted[v]
        /\ \A v \in Cube!Work : Cube!Got(v)' = Cube!Got(v)
        /\ \A v \in Cube!Work : Undone(v)' <=> Undone(v) \/ v = w
    BY <2>5, AsksFit
  <2>7. CubeTypes'
    BY <1>1, <2>1, <2>6 DEF CubeInv, CubeTypes, Elsewhere, d
  <2>8. \A v \in Cube!Work : Asked(v)' <=> Asked(v)
    BY <2>2, <2>6 DEF Asked
  <2>9. TodoFits'
    BY <2>2, <2>8, WorkIsOf DEF CubeInv, TodoFits, Cube!Sandboxes, Cube!Evaluators
  <2>10. \A r \in Cube!Reports : (Built(r) => Built(r)') /\ (Evaluated(r) => Evaluated(r)')
    BY <1>1, <2>2 DEF Built, Evaluated, Elsewhere, Cube!Got
  <2>11. EvidenceFits'
    <3> SUFFICES ASSUME NEW r \in Cube!Reports, Posted(<<"verify-revision", r>>)'
                 PROVE  /\ Cube!Got(<<"sandbox-revision", r>>)'
                        /\ posted'[<<"verify-revision", r>>]
                             = {receipts'[<<"sandbox-revision", r>>].source}
      BY <2>2, <2>6, <2>10, WorkIsOf DEF CubeInv, EvidenceFits, Cube!Sandboxes, Cube!Evaluators
    <3>1. /\ <<"verify-revision", r>> \in Cube!Work /\ <<"sandbox-revision", r>> \in Cube!Work
          /\ UNCHANGED receipts
      BY <1>1, WorkIsOf DEF Elsewhere, Cube!Sandboxes, Cube!Evaluators
    <3>2. CASE w = <<"verify-revision", r>>
      BY <2>3, <2>6, <3>1, <3>2
    <3>3. CASE w # <<"verify-revision", r>>
      BY <2>6, <3>1, <3>3 DEF CubeInv, EvidenceFits
    <3> QED
      BY <3>2, <3>3
  <2>12. VerifyingFits'
    <3>1. driver.step # "verify"
      BY <2>4 DEF TodoOf
    <3>2. \A r \in Cube!Reports :
            <<"verify-retry", r>> \in Cube!Work /\ w # <<"verify-retry", r>>
      BY <2>4, WorkIsOf DEF Cube!Evaluators
    <3> QED
      BY <2>2, <2>6, <3>1, <3>2 DEF CubeInv, VerifyingFits
  <2>13. ResolvingFits'
    <3>1. <<"resolve", Cube!Final>> \in Cube!Work
      BY WorkIsOf
    <3>2. CASE w = <<"resolve", Cube!Final>>
      BY <2>2, <2>3, <2>4, <2>6, <3>2 DEF ResolvingFits
    <3>3. CASE w # <<"resolve", Cube!Final>>
      BY <2>2, <2>6, <3>1, <3>3 DEF CubeInv, ResolvingFits
    <3> QED
      BY <3>2, <3>3
  <2>14. AcceptingFits'
    <3>1. Cube!AcceptedIsVerified'
      BY <1>1, <2>2, AcceptedStays DEF CubeInv, AcceptingFits, Elsewhere
    <3> QED
      BY <2>2, <3>1 DEF CubeInv, AcceptingFits
  <2>15. NothingIsLost'
    BY <1>1, <2>2 DEF CubeInv, NothingIsLost, Cube!AssertionsHold, Cube!Got, Elsewhere
  <2>16. BudgetFits'
    <3>1. PlannedCalls' = PlannedCalls
      BY <2>8, JobsAreOf DEF PlannedCalls, ModelJobs
    <3> QED
      BY <3>1 DEF CubeInv, BudgetFits
  <2> QED
    BY <2>6, <2>7, <2>9, <2>11, <2>12, <2>13, <2>14, <2>15, <2>16 DEF CubeInv
<1> QED
  BY <1>3, <1>4

(* Checks are asked for, all of a kind: no model is called.                    *)
CheckKinds == {"sandbox", "verify", "verify-retry"}

(* They change neither the plan of model calls nor what is accepted.           *)
LEMMA ChecksAsked ==
  ASSUME CubeInv, NEW ws, NEW about, AskedFor(ws, about), ws \subseteq CheckKinds \X Cube!Reports,
         driver'.todo = driver.todo, driver'.before = driver.before,
         driver.accepted = {}, driver'.accepted = {}, driver'.step # "broken"
  PROVE  /\ CubeLane' /\ WorkFollowsTheLane' /\ OneAtATime'
         /\ posted' \in [Cube!Work -> (SUBSET (Sources \cup {None})) \cup {None}]
         /\ driver'.open \in SUBSET Cube!Work
         /\ \A w \in Cube!Work : w[1] \notin CheckKinds =>
              (Posted(w)' <=> Posted(w)) /\ posted'[w] = posted[w]
         /\ AcceptingFits' /\ NothingIsLost' /\ BudgetFits'
<1>1. /\ CubeLane' /\ WorkFollowsTheLane' /\ OneAtATime'
      /\ posted' \in [Cube!Work -> (SUBSET (Sources \cup {None})) \cup {None}]
      /\ driver'.open \in SUBSET Cube!Work
      /\ \A w \in Cube!Work : Posted(w)' <=> Posted(w) \/ w \in ws
      /\ \A w \in Cube!Work \ ws : posted'[w] = posted[w]
  BY AsksFit
<1>2. \A w \in ws : w[1] \in CheckKinds
  OBVIOUS
<1>3. \A w \in Cube!Work : w[1] \notin CheckKinds =>
        (Posted(w)' <=> Posted(w)) /\ posted'[w] = posted[w]
  BY <1>1, <1>2
<1>4. AcceptingFits'
  BY DEF AcceptingFits, Cube!AcceptedIsVerified
<1>5. NothingIsLost'
  BY DEF CubeInv, NothingIsLost, Cube!AssertionsHold, Cube!Got, AskedFor, Elsewhere
<1>6. PlannedCalls' = PlannedCalls
  <2>1. \A w \in ModelJobs : w \in Cube!Work /\ w[1] \notin CheckKinds
    BY JobsAreOf DEF ModelJobs, CheckKinds, Cube!Models
  <2>2. \A w \in ModelJobs : Asked(w)' <=> Asked(w)
    BY <1>3, <2>1 DEF Asked
  <2> QED
    BY <2>2 DEF PlannedCalls, ModelJobs
<1>7. BudgetFits'
  BY <1>6 DEF CubeInv, BudgetFits
<1> QED
  BY <1>1, <1>3, <1>4, <1>5, <1>7

LEMMA ChecksOfAKind ==
  ASSUME NEW k \in CheckKinds, NEW w \in {k} \X Cube!Reports
  PROVE  /\ w \in Cube!Work /\ w[1] = k /\ w[2] \in Cube!Reports /\ w = <<k, w[2]>>
         /\ Cube!CellOf(w) = <<IF k = "sandbox" THEN "execute" ELSE "verify", w[2]>>
<1>1. w[1] = k /\ w[2] \in Cube!Reports /\ w = <<k, w[2]>>
  OBVIOUS
<1> DEFINE r == w[2]
<1>2. <<k, r>> \in Cube!Work
  BY <1>1, WorkIsOf DEF CheckKinds, Cube!Sandboxes, Cube!Evaluators
<1>3. Cube!CellOf(<<k, r>>) = <<IF k = "sandbox" THEN "execute" ELSE "verify", r>>
  BY <1>1, CellsOfWork DEF CheckKinds, Cube!Sandboxes, Cube!Evaluators
<1> QED
  BY <1>1, <1>2, <1>3

(* All sandboxes at once.                                                      *)
LEMMA StartSandboxesKeeps ==
  ASSUME CubeInv, Cube!StartSandboxes PROVE CubeInv'
<1> DEFINE ws == {"sandbox"} \X Cube!Reports
           d == [driver EXCEPT !.step = "active"]
           about == [w \in ws |-> Cube!About(w, d)]
<1>1. /\ driver.step = "repair" /\ driver.todo = {} /\ Cube!AllGot /\ UNCHANGED Elsewhere
      /\ Cube!Asks(ws, d)
  BY DEF Cube!StartSandboxes, Cube!Through, Elsewhere, Cube!lanes
<1>2. CASE Cube!Refused(ws)
  BY <1>1, <1>2, StopsKeeps DEF Cube!Asks
<1>3. CASE ~Cube!Refused(ws)
  <2>1. /\ \A w \in ws : ~Posted(w)
        /\ posted' = [w \in Cube!Work |-> IF w \in ws THEN about[w] ELSE posted[w]]
        /\ driver' = [d EXCEPT !.open = {w \in @ : ~Cube!Got(w)} \cup ws]
    BY <1>1, <1>3 DEF Cube!Asks, Cube!Refused, Posted
  <2>2. /\ driver'.open = {w \in driver.open : ~Cube!Got(w)} \cup ws
        /\ driver'.todo = {} /\ driver'.step = "active" /\ driver'.before = driver.before
        /\ driver'.accepted = driver.accepted /\ driver.accepted = {}
    BY <1>1, <2>1 DEF CubeInv, CubeTypes, AcceptingFits, Ends
  <2>3. \A w \in ws : /\ w \in Cube!Work /\ w[1] = "sandbox" /\ w[2] \in Cube!Reports
                      /\ w = <<"sandbox", w[2]>> /\ Cube!CellOf(w) = <<"execute", w[2]>>
    BY ChecksOfAKind DEF CheckKinds
  <2>4. \A w \in ws : about[w] \in SUBSET (Sources \cup {None})
    <3> SUFFICES ASSUME NEW w \in ws PROVE about[w] \in SUBSET (Sources \cup {None})
      OBVIOUS
    <3>1. about[w] = {receipts[<<"patch", w[2]>>].source}
      BY <2>3 DEF Cube!About
    <3>2. <<"patch", w[2]>> \in Cube!Work /\ Cube!Got(<<"patch", w[2]>>)
      BY <1>1, <2>3, WorkIsOf, NobodyIsAtWork DEF CubeInv, TodoFits, Asked
    <3>3. receipts[<<"patch", w[2]>>].source \in Sources \cup {None}
      BY <3>2, ReceiptIs
    <3> QED
      BY <3>1, <3>3
  <2> HIDE DEF about, d, ws
  <2>5. AskedFor(ws, about)
    <3>1. \A v, w \in ws : w # v => Cube!CellOf(v) # Cube!CellOf(w)
      BY <2>3
    <3> QED
      BY <1>1, <2>1, <2>2, <2>3, <2>4, <3>1, NobodyIsAtWork DEF AskedFor
  <2>6. ws \subseteq CheckKinds \X Cube!Reports
    BY DEF CheckKinds, ws
  <2>7. /\ CubeLane' /\ WorkFollowsTheLane' /\ OneAtATime'
        /\ posted' \in [Cube!Work -> (SUBSET (Sources \cup {None})) \cup {None}]
        /\ driver'.open \in SUBSET Cube!Work
        /\ \A w \in Cube!Work : w[1] \notin CheckKinds =>
             (Posted(w)' <=> Posted(w)) /\ posted'[w] = posted[w]
        /\ AcceptingFits' /\ NothingIsLost' /\ BudgetFits'
    BY <1>1, <2>2, <2>5, <2>6, ChecksAsked
  <2>8. \A w \in Cube!Work : Posted(w)' <=> Posted(w) \/ w \in ws
    BY <2>5, AsksFit
  <2>9. CubeTypes'
    BY <1>1, <2>1, <2>7 DEF CubeInv, CubeTypes, Elsewhere, d, Steps
  <2>10. TodoFits'
    BY <2>2 DEF TodoFits
  <2>11. EvidenceFits'
    <3> SUFFICES ASSUME NEW r \in Cube!Reports
                 PROVE  /\ Posted(<<"sandbox", r>>)'
                        /\ Posted(<<"verify-revision", r>>)' =>
                             /\ Cube!Got(<<"sandbox-revision", r>>)'
                             /\ posted'[<<"verify-revision", r>>]
                                  = {receipts'[<<"sandbox-revision", r>>].source}
      BY <2>2 DEF EvidenceFits
    <3>1. /\ <<"sandbox", r>> \in ws /\ <<"sandbox", r>> \in Cube!Work
          /\ <<"verify-revision", r>> \in Cube!Work
      BY WorkIsOf DEF ws, Cube!Sandboxes, Cube!Evaluators
    <3>2. <<"verify-revision", r>>[1] \notin CheckKinds
      BY DEF CheckKinds
    <3> QED
      BY <1>1, <2>7, <2>8, <3>1, <3>2 DEF CubeInv, EvidenceFits, Cube!Got, Elsewhere
  <2>12. VerifyingFits'
    <3>1. \A r \in Cube!Reports : <<"verify-retry", r>> \in Cube!Work /\ <<"verify-retry", r>> \notin ws
      BY WorkIsOf DEF ws, Cube!Evaluators
    <3> QED
      BY <1>1, <2>2, <2>8, <3>1 DEF CubeInv, VerifyingFits
  <2>13. ResolvingFits'
    <3>1. <<"resolve", Cube!Final>> \in Cube!Work /\ <<"resolve", Cube!Final>> \notin ws
      BY WorkIsOf DEF ws
    <3> QED
      BY <1>1, <2>2, <2>8, <3>1 DEF CubeInv, ResolvingFits, Ends
  <2> QED
    BY <2>7, <2>9, <2>10, <2>11, <2>12, <2>13 DEF CubeInv
<1> QED
  BY <1>2, <1>3

(* All evaluations at once, of what was built last.                            *)
LEMMA VerifyKeeps ==
  ASSUME CubeInv, Cube!Verify PROVE CubeInv'
<1> DEFINE ws == {"verify"} \X Cube!Reports
           built == [r \in Cube!Reports |-> Cube!Newest("sandbox", "sandbox-public", r)]
           d == [driver EXCEPT !.step = "verify", !.sandboxes = built]
           about == [w \in ws |-> Cube!About(w, d)]
<1>1. /\ driver.step = "public" /\ driver.todo = {} /\ Cube!AllGot /\ UNCHANGED Elsewhere
      /\ Cube!Stops("failed") \/ Cube!Asks(ws, d)
  BY DEF Cube!Verify, Cube!Through, Elsewhere, Cube!lanes
<1>2. CASE Cube!Stops("failed")
  BY <1>1, <1>2, StopsKeeps
<1>3. CASE ~Cube!Stops("failed")
  <2>1. /\ \A w \in ws : ~Posted(w)
        /\ posted' = [w \in Cube!Work |-> IF w \in ws THEN about[w] ELSE posted[w]]
        /\ driver' = [d EXCEPT !.open = {w \in @ : ~Cube!Got(w)} \cup ws]
    BY <1>1, <1>3 DEF Cube!Asks, Cube!Refused, Posted
  <2>2. /\ driver'.open = {w \in driver.open : ~Cube!Got(w)} \cup ws
        /\ driver'.todo = {} /\ driver'.step = "verify" /\ driver'.sandboxes = built /\ driver'.before = driver.before
        /\ driver'.accepted = driver.accepted /\ driver.accepted = {}
    BY <1>1, <2>1 DEF CubeInv, CubeTypes, AcceptingFits, Ends
  <2>3. \A w \in ws : /\ w \in Cube!Work /\ w[1] = "verify" /\ w[2] \in Cube!Reports
                      /\ w = <<"verify", w[2]>> /\ Cube!CellOf(w) = <<"verify", w[2]>>
    BY ChecksOfAKind DEF CheckKinds
  <2>4. \A r \in Cube!Reports : \E b \in Cube!Sandboxes :
          <<b, r>> \in Cube!Work /\ Cube!Got(<<b, r>>) /\ built[r] = receipts[<<b, r>>]
    <3> SUFFICES ASSUME NEW r \in Cube!Reports
                 PROVE  \E b \in Cube!Sandboxes :
                          <<b, r>> \in Cube!Work /\ Cube!Got(<<b, r>>) /\ built[r] = receipts[<<b, r>>]
      OBVIOUS
    <3>1. {"sandbox", "sandbox-public"} \subseteq Cube!Sandboxes
      BY DEF Cube!Sandboxes
    <3>2. <<"sandbox", r>> \in Cube!Work /\ <<"sandbox-public", r>> \in Cube!Work
      BY <3>1, WorkIsOf
    <3>3. Cube!Got(<<"sandbox", r>>)
      BY <1>1, <3>2, NobodyIsAtWork DEF CubeInv, EvidenceFits
    <3> QED
      BY <3>1, <3>2, <3>3 DEF Cube!Newest
  <2>14. \A r \in Cube!Reports : built[r] \in CubeResults /\ built[r].source \in Sources \cup {None}
    BY <2>4, ReceiptIs
  <2>15. built \in DriverEvidence
    BY <2>14 DEF DriverEvidence
  <2>16. d.sandboxes = built
    BY DEF CubeInv, CubeTypes
  <2>17. \A w \in ws : about[w] = {built[w[2]].source} /\ about[w] \in SUBSET (Sources \cup {None})
    <3> SUFFICES ASSUME NEW w \in ws
                 PROVE  about[w] = {built[w[2]].source} /\ about[w] \in SUBSET (Sources \cup {None})
      OBVIOUS
    <3> HIDE DEF built, d
    <3>1. about[w] = {built[w[2]].source}
      BY <2>3, <2>16 DEF Cube!About
    <3> QED
      BY <2>3, <2>14, <3>1
  <2> HIDE DEF about, d, ws, built
  <2>5. AskedFor(ws, about)
    <3>1. \A v, w \in ws : w # v => Cube!CellOf(v) # Cube!CellOf(w)
      BY <2>3
    <3> QED
      BY <1>1, <2>1, <2>2, <2>3, <2>17, <3>1, NobodyIsAtWork DEF AskedFor
  <2>6. ws \subseteq CheckKinds \X Cube!Reports
    BY DEF CheckKinds, ws
  <2>7. /\ CubeLane' /\ WorkFollowsTheLane' /\ OneAtATime'
        /\ posted' \in [Cube!Work -> (SUBSET (Sources \cup {None})) \cup {None}]
        /\ driver'.open \in SUBSET Cube!Work
        /\ \A w \in Cube!Work : w[1] \notin CheckKinds =>
             (Posted(w)' <=> Posted(w)) /\ posted'[w] = posted[w]
        /\ AcceptingFits' /\ NothingIsLost' /\ BudgetFits'
    BY <1>1, <2>2, <2>5, <2>6, ChecksAsked
  <2>8. \A w \in Cube!Work : Posted(w)' <=> Posted(w) \/ w \in ws
    BY <2>5, AsksFit
  <2>9. CubeTypes'
    BY <1>1, <2>1, <2>7, <2>15 DEF CubeInv, CubeTypes, Elsewhere, d, Steps
  <2>10. TodoFits'
    BY <2>2 DEF TodoFits
  <2>11. EvidenceFits'
    <3> SUFFICES ASSUME NEW r \in Cube!Reports
                 PROVE  /\ Built(r)' /\ Posted(<<"verify", r>>)'
                        /\ Posted(<<"verify-revision", r>>)' =>
                             /\ Cube!Got(<<"sandbox-revision", r>>)'
                             /\ posted'[<<"verify-revision", r>>]
                                  = {receipts'[<<"sandbox-revision", r>>].source}
      BY <2>2 DEF EvidenceFits
    <3>1. /\ <<"verify", r>> \in ws /\ <<"verify", r>> \in Cube!Work
          /\ <<"verify-revision", r>> \in Cube!Work
      BY WorkIsOf DEF ws, Cube!Sandboxes, Cube!Evaluators
    <3>2. <<"verify-revision", r>>[1] \notin CheckKinds
      BY DEF CheckKinds
    <3>3. Built(r)'
      BY <1>1, <2>2, <2>4 DEF Built, Elsewhere, Cube!Got
    <3> QED
      BY <1>1, <2>7, <2>8, <3>1, <3>2, <3>3 DEF CubeInv, EvidenceFits, Cube!Got, Elsewhere
  <2>12. VerifyingFits'
    <3>1. ASSUME NEW w \in Cube!Work, Undone(w)'
          PROVE  w[1] \in {"verify", "verify-retry"}
      <4>1. w \in ws
        BY <1>1, <2>5, <3>1, AsksFit, NobodyIsAtWork
      <4> QED
        BY <2>3, <4>1
    <3>2. ASSUME NEW r \in Cube!Reports
          PROVE  /\ posted'[<<"verify", r>>] = {driver'.sandboxes[r].source}
                 /\ ~Posted(<<"verify-retry", r>>)'
      <4>1. /\ <<"verify", r>> \in ws /\ <<"verify-retry", r>> \notin ws
            /\ <<"verify-retry", r>> \in Cube!Work
        BY WorkIsOf DEF ws, Cube!Evaluators
      <4>2. posted'[<<"verify", r>>] = about[<<"verify", r>>]
        BY <2>5, <4>1, AsksFit
      <4>3. about[<<"verify", r>>] = {built[r].source}
        BY <2>17, <4>1
      <4> QED
        BY <1>1, <2>2, <2>8, <4>1, <4>2, <4>3 DEF CubeInv, VerifyingFits
    <3> QED
      BY <2>2, <3>1, <3>2 DEF VerifyingFits
  <2>13. ResolvingFits'
    <3>1. <<"resolve", Cube!Final>> \in Cube!Work /\ <<"resolve", Cube!Final>> \notin ws
      BY WorkIsOf DEF ws
    <3> QED
      BY <1>1, <2>2, <2>8, <3>1 DEF CubeInv, ResolvingFits, Ends
  <2> QED
    BY <2>7, <2>9, <2>10, <2>11, <2>12, <2>13 DEF CubeInv
<1> QED
  BY <1>2, <1>3

(* The denied evaluation once more: its cell is free, since the first one      *)
(* is done.                                                                    *)
LEMMA RetryKeeps ==
  ASSUME CubeInv, Cube!Retry PROVE CubeInv'
<1> DEFINE w == <<"verify-retry", DeniedReport>>
           about == [v \in {w} |-> Cube!About(v, driver)]
<1>1. /\ driver.step = "verify" /\ UNCHANGED Elsewhere /\ Cube!Asks({w}, driver)
      /\ ~Posted(w) /\ Cube!Got(<<"verify", DeniedReport>>)
  BY CubeConstants DEF Cube!Retry, Elsewhere, Cube!lanes, Posted, Cube!Reports
<1>2. CASE Cube!Refused({w})
  BY <1>1, <1>2, StopsKeeps DEF Cube!Asks
<1>3. CASE ~Cube!Refused({w})
  <2>1. /\ posted' = [v \in Cube!Work |-> IF v \in {w} THEN about[v] ELSE posted[v]]
        /\ driver' = [driver EXCEPT !.open = {v \in @ : ~Cube!Got(v)} \cup {w}]
    BY <1>1, <1>3 DEF Cube!Asks
  <2>2. /\ driver'.open = {v \in driver.open : ~Cube!Got(v)} \cup {w}
        /\ driver'.todo = driver.todo /\ driver'.step = "verify"
        /\ driver'.sandboxes = driver.sandboxes /\ driver'.before = driver.before
        /\ driver'.accepted = driver.accepted /\ driver.accepted = {}
    BY <1>1, <2>1 DEF CubeInv, CubeTypes, AcceptingFits, Ends
  <2>3. w \in {"verify-retry"} \X Cube!Reports /\ w \in CheckKinds \X Cube!Reports
    BY CubeConstants DEF CheckKinds
  <2>4. w \in Cube!Work /\ Cube!CellOf(w) = <<"verify", DeniedReport>>
    BY <2>3, ChecksOfAKind DEF CheckKinds
  <2>5. /\ about[w] = {driver.sandboxes[DeniedReport].source}
        /\ about[w] \in SUBSET (Sources \cup {None})
    <3>1. about[w] = {driver.sandboxes[DeniedReport].source}
      BY DEF Cube!About
    <3>2. Built(DeniedReport)
      BY <1>1, CubeConstants DEF CubeInv, EvidenceFits
    <3>3. driver.sandboxes[DeniedReport].source \in Sources \cup {None}
      BY <3>2, CubeConstants, WorkIsOf, ReceiptIs DEF Built
    <3> QED
      BY <3>1, <3>3
  <2>6. ASSUME NEW v \in Cube!Work, Undone(v)
        PROVE  Cube!CellOf(v) # <<"verify", DeniedReport>>
    <3>1. v[1] \in {"verify", "verify-retry"}
      BY <1>1, <2>6 DEF CubeInv, VerifyingFits
    <3>2. v = <<v[1], v[2]>> /\ v[2] \in Cube!Reports
      BY WorkIsOf
    <3>3. v \in {v[1]} \X Cube!Reports /\ v[1] \in CheckKinds
      BY <3>1, <3>2 DEF CheckKinds
    <3>4. Cube!CellOf(v) = <<"verify", v[2]>>
      BY <3>1, <3>3, ChecksOfAKind
    <3>5. v[2] # DeniedReport
      BY <1>1, <2>6, <3>1, <3>2 DEF Undone
    <3> QED
      BY <3>4, <3>5
  <2> HIDE DEF about, w
  <2>7. AskedFor({w}, about)
    BY <1>1, <2>1, <2>2, <2>4, <2>5, <2>6 DEF AskedFor
  <2>8. /\ CubeLane' /\ WorkFollowsTheLane' /\ OneAtATime'
        /\ posted' \in [Cube!Work -> (SUBSET (Sources \cup {None})) \cup {None}]
        /\ driver'.open \in SUBSET Cube!Work
        /\ AcceptingFits' /\ NothingIsLost' /\ BudgetFits'
    BY <2>2, <2>3, <2>7, ChecksAsked
  <2>9. /\ \A v \in Cube!Work : Posted(v)' <=> Posted(v) \/ v = w
        /\ posted'[w] = about[w]
        /\ \A v \in Cube!Work : v # w => posted'[v] = posted[v]
        /\ \A v \in Cube!Work : Undone(v)' <=> Undone(v) \/ v = w
    BY <2>7, AsksFit
  <2>10. CubeTypes'
    BY <1>1, <2>1, <2>8 DEF CubeInv, CubeTypes, Elsewhere
  <2>11. TodoFits'
    BY <1>1, <2>2 DEF CubeInv, TodoFits, TodoOf, Ends
  <2>12. EvidenceFits'
    <3> SUFFICES ASSUME NEW r \in Cube!Reports
                 PROVE  /\ Built(r)' /\ Posted(<<"verify", r>>)'
                        /\ Posted(<<"verify-revision", r>>)' =>
                             /\ Cube!Got(<<"sandbox-revision", r>>)'
                             /\ posted'[<<"verify-revision", r>>]
                                  = {receipts'[<<"sandbox-revision", r>>].source}
      BY <2>2 DEF EvidenceFits
    <3>1. /\ <<"verify", r>> \in Cube!Work /\ <<"verify-revision", r>> \in Cube!Work
          /\ <<"verify-revision", r>> # w
      BY WorkIsOf DEF w, Cube!Evaluators
    <3>2. Built(r)'
      BY <1>1, <2>2 DEF CubeInv, EvidenceFits, Built, Elsewhere, Cube!Got
    <3> QED
      BY <1>1, <2>9, <3>1, <3>2 DEF CubeInv, EvidenceFits, Cube!Got, Elsewhere
  <2>13. VerifyingFits'
    <3>1. ASSUME NEW v \in Cube!Work, Undone(v)'
          PROVE  v[1] \in {"verify", "verify-retry"}
      BY <1>1, <2>9, <3>1 DEF CubeInv, VerifyingFits, w
    <3>2. ASSUME NEW r \in Cube!Reports, NEW k \in {"verify", "verify-retry"}, Posted(<<k, r>>)'
          PROVE  posted'[<<k, r>>] = {driver.sandboxes[r].source}
      <4>1. <<k, r>> \in Cube!Work
        BY WorkIsOf DEF Cube!Evaluators
      <4>2. CASE <<k, r>> = w
        BY <2>5, <2>9, <4>2 DEF w
      <4>3. CASE <<k, r>> # w
        BY <1>1, <2>9, <3>2, <4>1, <4>3 DEF CubeInv, VerifyingFits
      <4> QED
        BY <4>2, <4>3
    <3> QED
      BY <2>2, <3>1, <3>2 DEF VerifyingFits
  <2>14. ResolvingFits'
    <3>1. <<"resolve", Cube!Final>> \in Cube!Work /\ <<"resolve", Cube!Final>> # w
      BY WorkIsOf DEF w
    <3> QED
      BY <1>1, <2>2, <2>9, <3>1 DEF CubeInv, ResolvingFits, Ends
  <2> QED
    BY <2>8, <2>10, <2>11, <2>12, <2>13, <2>14 DEF CubeInv
<1> QED
  BY <1>2, <1>3

Resolver == <<"resolve", Cube!Final>>
CallsOf == {w \in ModelJobs : ledger[w] # None}

(* There are finitely many model calls, and they can be counted.               *)
LEMMA CallsAreFinite ==
  /\ IsFiniteSet(ModelJobs) /\ IsFiniteSet(Cube!Reports) /\ Cardinality(Cube!Reports) = NReports
  /\ IsFiniteSet(PlannedCalls) /\ IsFiniteSet(CallsOf)
<1>1. IsFiniteSet(Cube!Reports) /\ Cardinality(Cube!Reports) = NReports
  <2>1. 1 \in Int /\ NReports \in Int /\ NReports >= 1
    BY CubeConstants
  <2>2. IsFiniteSet(1..NReports) /\ Cardinality(1..NReports) = NReports
    BY <2>1, FS_Interval
  <2> QED
    BY <2>2 DEF Cube!Reports
<1>2. IsFiniteSet(Cube!Models)
  <2>1. IsFiniteSet({"triage"})
    BY FS_Singleton
  <2>2. IsFiniteSet({"triage"} \cup {"patch"})
    BY <2>1, FS_AddElement
  <2>3. IsFiniteSet(({"triage"} \cup {"patch"}) \cup {"revise-public"})
    BY <2>2, FS_AddElement
  <2>4. IsFiniteSet((({"triage"} \cup {"patch"}) \cup {"revise-public"}) \cup {"revise"})
    BY <2>3, FS_AddElement
  <2>5. IsFiniteSet(((({"triage"} \cup {"patch"}) \cup {"revise-public"}) \cup {"revise"})
                    \cup {"resolve"})
    BY <2>4, FS_AddElement
  <2>6. Cube!Models = (((({"triage"} \cup {"patch"}) \cup {"revise-public"}) \cup {"revise"})
                       \cup {"resolve"})
    BY DEF Cube!Models
  <2> QED
    BY <2>5, <2>6
<1>3. IsFiniteSet(Cube!Models \X Cube!Reports)
  BY <1>1, <1>2, FS_Product
<1>4. ModelJobs \subseteq Cube!Models \X Cube!Reports
  <2> SUFFICES ASSUME NEW w \in ModelJobs PROVE w \in Cube!Models \X Cube!Reports
    OBVIOUS
  <2>1. w \in Cube!Work /\ w[1] \in Cube!Models
    BY JobsAreOf DEF ModelJobs
  <2>2. w = <<w[1], w[2]>> /\ w[2] \in Cube!Reports
    BY <2>1, WorkIsOf
  <2> QED
    BY <2>1, <2>2
<1>5. IsFiniteSet(ModelJobs)
  BY <1>3, <1>4, FS_Subset
<1>6. IsFiniteSet({w \in ModelJobs : Asked(w)}) /\ IsFiniteSet(CallsOf)
  BY <1>5, FS_Subset DEF CallsOf
<1>7. IsFiniteSet(PlannedCalls)
  BY <1>6, FS_AddElement DEF PlannedCalls
<1> QED
  BY <1>1, <1>5, <1>6, <1>7

LEMMA CallsAreCounted ==
  Cube!CallsMade = Cardinality(CallsOf) /\ Cardinality(CallsOf) \in Nat
<1>1. {w \in Cube!Jobs : w[1] \in Cube!Models /\ ledger[w] # None} = CallsOf
  BY DEF CallsOf, ModelJobs
<1>2. Cube!CallsMade = Cardinality(CallsOf)
  BY <1>1, CountIsOne DEF Cube!CallsMade
<1> QED
  BY <1>2, CallsAreFinite, FS_CardinalityType

(* At rest the calls that were asked for are made; after that the reports     *)
(* that fail are revised within what the budget leaves.                      *)
LEMMA RevisionsFit ==
  ASSUME CubeInv, Cube!AllGot, driver.todo = {}, UNCHANGED posted,
         NEW failed, failed \subseteq Cube!Reports, NEW k, NEW kinds, kinds \cap Cube!Models = {k},
         driver'.todo = kinds \X failed,
         failed # {} => Cube!CallsMade + Cardinality(failed) + 1 <= MaxModelCalls
  PROVE  BudgetFits'
<1>1. \A w \in ModelJobs : w \in Cube!Work /\ w[1] \in Cube!Models /\ (Posted(w)' <=> Posted(w))
  BY JobsAreOf DEF ModelJobs, Posted
<1>2. CASE failed = {}
  <2>1. \A w \in ModelJobs : Asked(w)' <=> Asked(w)
    BY <1>1, <1>2 DEF Asked
  <2>2. PlannedCalls' = PlannedCalls
    BY <2>1 DEF PlannedCalls, ModelJobs
  <2> QED
    BY <2>2 DEF CubeInv, BudgetFits
<1>3. CASE failed # {}
  <2> DEFINE revised == {k} \X failed
             all == (CallsOf \cup {Resolver}) \cup revised
  <2>1. ASSUME NEW w \in ModelJobs, Asked(w)'
        PROVE  w \in CallsOf \cup revised
    <3>1. CASE Posted(w)
      <4>1. ledger[w] # None
        BY <1>1, <3>1, NobodyIsAtWork DEF ModelJobs, CubeInv, WorkFollowsTheLane
      <4> QED
        BY <4>1 DEF CallsOf
    <3>2. CASE w \in kinds \X failed
      BY <1>1, <3>2
    <3> QED
      BY <1>1, <2>1, <3>1, <3>2 DEF Asked
  <2>2. PlannedCalls' \subseteq all
    BY <2>1 DEF PlannedCalls, Resolver, ModelJobs
  <2>3. IsFiniteSet(failed) /\ Cardinality(failed) \in Nat
    BY CallsAreFinite, FS_Subset, FS_CardinalityType
  <2>4. IsFiniteSet({k}) /\ Cardinality({k}) = 1
    BY FS_Singleton
  <2>5. IsFiniteSet(revised) /\ Cardinality(revised) = Cardinality({k}) * Cardinality(failed)
    BY <2>3, <2>4, FS_Product
  <2>6. Cardinality(revised) = Cardinality(failed)
    BY <2>3, <2>4, <2>5
  <2>7. /\ IsFiniteSet(CallsOf \cup {Resolver})
        /\ Cardinality(CallsOf \cup {Resolver}) <= Cardinality(CallsOf) + 1
        /\ Cardinality(CallsOf \cup {Resolver}) \in Nat
    <3>1. IsFiniteSet(CallsOf) /\ Cardinality(CallsOf) \in Nat
      BY CallsAreFinite, CallsAreCounted
    <3>2. /\ IsFiniteSet(CallsOf \cup {Resolver})
          /\ Cardinality(CallsOf \cup {Resolver})
               = IF Resolver \in CallsOf THEN Cardinality(CallsOf) ELSE Cardinality(CallsOf) + 1
      BY <3>1, FS_AddElement
    <3> QED
      BY <3>1, <3>2
  <2> HIDE DEF revised
  <2>8. /\ IsFiniteSet(all)
        /\ Cardinality(all) <= Cardinality(CallsOf \cup {Resolver}) + Cardinality(revised)
    <3>1. /\ IsFiniteSet(all)
          /\ Cardinality(all) = Cardinality(CallsOf \cup {Resolver}) + Cardinality(revised)
                                - Cardinality((CallsOf \cup {Resolver}) \cap revised)
      BY <2>5, <2>7, FS_Union
    <3>2. Cardinality((CallsOf \cup {Resolver}) \cap revised) \in Nat
      BY <2>5, FS_Intersection, FS_CardinalityType
    <3> QED
      BY <2>3, <2>6, <2>7, <3>1, <3>2
  <2> HIDE DEF all
  <2>9. Cardinality(PlannedCalls') <= Cardinality(all) /\ Cardinality(PlannedCalls') \in Nat
        /\ Cardinality(all) \in Nat
    BY <2>2, <2>8, FS_Subset, FS_CardinalityType
  <2>10. Cardinality(PlannedCalls') <= MaxModelCalls
    BY <1>3, <2>3, <2>6, <2>7, <2>8, <2>9, CallsAreCounted, CubeConstants
  <2> QED
    BY <2>10 DEF BudgetFits
<1> QED
  BY <1>2, <1>3

PublicKinds == {"revise-public", "sandbox-public"}
HiddenKinds == {"revise", "sandbox-revision", "verify-revision"}

(* The driver goes from one look at its evidence to revisions.                *)
Revises(kinds, step, failed, built, evaluated) ==
  /\ UNCHANGED Elsewhere /\ UNCHANGED posted /\ Cube!AllGot /\ driver.todo = {}
  /\ failed \subseteq Cube!Reports
  /\ \/ kinds = PublicKinds /\ step = "public" /\ driver.step = "sandboxed"
     \/ kinds = HiddenKinds /\ step \in {"hidden", "diverse"} /\ driver.step \in {"verify", "hidden"}
  /\ built \in DriverEvidence /\ evaluated \in DriverEvidence
  /\ driver' = [driver EXCEPT !.step = step, !.todo = kinds \X failed,
                  !.sandboxes = built, !.evaluations = evaluated]
  /\ failed # {} => Cube!CallsMade + Cardinality(failed) + 1 <= MaxModelCalls
  /\ \A r \in Cube!Reports : Built(r)' /\ (step # "public" => Evaluated(r)')

(* Revisions begin: their evidence is at hand, and their calls fit the         *)
(* budget.                                                                     *)
LEMMA RevisionsKeep ==
  ASSUME CubeInv, NEW kinds, NEW step, NEW failed, NEW built, NEW evaluated,
         Revises(kinds, step, failed, built, evaluated)
  PROVE  CubeInv'
<1> USE DEF Revises
<1>1. driver.step \notin {"resolve", "accept"} \cup Ends /\ step \notin {"resolve", "accept"} \cup Ends
      /\ step \in Steps /\ step \notin {"repair", "active", "restart", "sandboxed", "verify"}
  BY DEF Ends, Steps
<1>2. /\ driver'.open = driver.open /\ driver'.todo = kinds \X failed
      /\ driver'.sandboxes = built /\ driver'.evaluations = evaluated
      /\ driver'.before = driver.before /\ driver'.accepted = driver.accepted
      /\ driver'.step = step /\ driver.accepted = {}
  BY <1>1 DEF CubeInv, CubeTypes, AcceptingFits
<1>3. kinds \X failed \in SUBSET Cube!Work
  <2> SUFFICES ASSUME NEW k \in kinds, NEW r \in failed PROVE <<k, r>> \in Cube!Work
    OBVIOUS
  <2> QED
    BY WorkIsOf DEF PublicKinds, HiddenKinds, Cube!Sandboxes, Cube!Evaluators
<1>4. CubeTypes'
  BY <1>1, <1>3 DEF CubeInv, CubeTypes, Elsewhere
<1>5. TodoFits'
  <2>1. kinds \X failed \subseteq TodoOf(step)
    BY DEF TodoOf, PublicKinds, HiddenKinds
  <2>2. ASSUME NEW r \in Cube!Reports
        PROVE  /\ <<"sandbox-public", r>> \in kinds \X failed => <<"revise-public", r>> \in kinds \X failed
               /\ <<"sandbox-revision", r>> \in kinds \X failed => <<"revise", r>> \in kinds \X failed
               /\ <<"verify-revision", r>> \in kinds \X failed
                    => <<"sandbox-revision", r>> \in kinds \X failed
    BY DEF PublicKinds, HiddenKinds
  <2> QED
    BY <1>1, <1>2, <2>1, <2>2 DEF TodoFits, Asked
<1>6. EvidenceFits'
  <2>1. \A r \in Cube!Reports :
          /\ driver.step \in {"active", "restart", "sandboxed", "public"} => Posted(<<"sandbox", r>>)
          /\ step = "public" => driver.step = "sandboxed"
    BY <1>1 DEF CubeInv, EvidenceFits, PublicKinds, HiddenKinds
  <2> QED
    BY <1>1, <1>2, <2>1 DEF CubeInv, EvidenceFits, Posted, Cube!Got, Elsewhere
<1>7. VerifyingFits' /\ ResolvingFits'
  <2>1. step = "public" => driver.step = "sandboxed"
    OBVIOUS
  <2> QED
    BY <1>1, <1>2, <2>1 DEF CubeInv, VerifyingFits, ResolvingFits, Posted
<1>8. AcceptingFits'
  BY <1>2 DEF AcceptingFits, Cube!AcceptedIsVerified
<1>9. NothingIsLost'
  BY <1>1, <1>2 DEF CubeInv, NothingIsLost, Cube!AssertionsHold, Cube!Got, Elsewhere, Ends
<1>10. BudgetFits'
  <2>1. \E k : kinds \cap Cube!Models = {k}
    <3>1. CASE kinds = PublicKinds
      BY <3>1 DEF PublicKinds, Cube!Models
    <3>2. CASE kinds = HiddenKinds
      BY <3>2 DEF HiddenKinds, Cube!Models
    <3> QED
      BY <3>1, <3>2
  <2> QED
    BY <1>2, <2>1, RevisionsFit
<1> QED
  BY <1>2, <1>4, <1>5, <1>6, <1>7, <1>8, <1>9, <1>10, CubeDriverMoves

LEMMA AtRest ==
  ASSUME NEW step, Cube!Through(step)
  PROVE  driver.step = step /\ driver.todo = {} /\ Cube!AllGot /\ UNCHANGED Elsewhere
BY DEF Cube!Through, Elsewhere, Cube!lanes

(* The sandboxes are looked at; all of them are there after the restart.       *)
LEMMA PublicChecksKeeps ==
  ASSUME CubeInv, Cube!PublicChecks PROVE CubeInv'
<1> DEFINE built == [r \in Cube!Reports |-> receipts[<<"sandbox", r>>]]
           d == [driver EXCEPT !.step = "public", !.sandboxes = built]
           failed == {r \in Cube!Reports : ~d.sandboxes[r].ok}
<1>1. driver.step = "sandboxed" /\ driver.todo = {} /\ Cube!AllGot /\ UNCHANGED Elsewhere
  BY AtRest DEF Cube!PublicChecks
<1>2. Cube!PrefixKept
  BY DEF CubeInv, NothingIsLost, Cube!PrefixKept
<1>3. Cube!Revise(failed, PublicKinds, d)
  BY <1>2 DEF Cube!PublicChecks, PublicKinds
<1>4. CASE Cube!Stops("failed")
  BY <1>1, <1>4, StopsKeeps
<1>5. CASE ~Cube!Stops("failed")
  <2>1. /\ driver' = [d EXCEPT !.todo = PublicKinds \X failed] /\ UNCHANGED posted
        /\ failed # {} => Cube!FitsBudget(Cube!Cardinality(failed))
    BY <1>3, <1>5 DEF Cube!Revise
  <2>2. \A r \in Cube!Reports : /\ <<"sandbox", r>> \in Cube!Work /\ Cube!Got(<<"sandbox", r>>)
                                /\ "sandbox" \in Cube!Sandboxes
    BY <1>1, WorkIsOf, NobodyIsAtWork DEF CubeInv, EvidenceFits, Cube!Sandboxes
  <2>3. built \in DriverEvidence /\ driver.evaluations \in DriverEvidence
    BY <2>2, ReceiptIs DEF DriverEvidence, CubeInv, CubeTypes
  <2>4. driver' = [driver EXCEPT !.step = "public", !.todo = PublicKinds \X failed,
                     !.sandboxes = built, !.evaluations = driver.evaluations]
    BY <2>1 DEF CubeInv, CubeTypes
  <2>5. driver'.sandboxes = built
    BY <2>1 DEF CubeInv, CubeTypes
  <2>6. \A r \in Cube!Reports : Built(r)'
    BY <1>1, <2>2, <2>5 DEF Built, Cube!Got, Elsewhere
  <2>7. failed \subseteq Cube!Reports
    OBVIOUS
  <2> HIDE DEF failed, built, d
  <2>8. failed # {} => Cube!CallsMade + Cardinality(failed) + 1 <= MaxModelCalls
    <3>1. IsFiniteSet(failed) /\ Cardinality(failed) \in Nat
      BY <2>7, CallsAreFinite, FS_Subset, FS_CardinalityType
    <3> QED
      BY <2>1, <3>1, CountIsOne, CallsAreCounted, CubeConstants DEF Cube!FitsBudget
  <2>9. Revises(PublicKinds, "public", failed, built, driver.evaluations)
    BY <1>1, <2>1, <2>3, <2>4, <2>6, <2>7, <2>8 DEF Revises
  <2> QED
    BY <2>9, RevisionsKeep
<1> QED
  BY <1>4, <1>5

(* A receipt is about what its work was asked about, or a refusal.            *)
LEMMA ReceiptIsAbout ==
  ASSUME CubeInv, NEW w \in Cube!Jobs, Cube!Got(w), receipts[w].ok
  PROVE  receipts[w].source \in posted[w]
<1>1. receipts[w] \in Cube!Outcomes(w)
  BY DEF CubeInv, WorkFollowsTheLane
<1>2. CASE Cube!Denied(w)
  <2>1. receipts[w] = [source |-> None, ok |-> FALSE]
    BY <1>1, <1>2 DEF Cube!Outcomes
  <2> QED
    BY <2>1
<1>3. CASE ~Cube!Denied(w)
  <2>1. \E oks \in SUBSET BOOLEAN : receipts[w] \in [source : posted[w], ok : oks]
    BY <1>1, <1>3 DEF Cube!Outcomes
  <2> QED
    BY <2>1
<1> QED
  BY <1>2, <1>3

(* The evaluations are looked at; they are of the sources that were built.     *)
LEMMA HiddenChecksKeeps ==
  ASSUME CubeInv, Cube!HiddenChecks PROVE CubeInv'
<1> DEFINE evaluated == [r \in Cube!Reports |-> Cube!Newest("verify", "verify-retry", r)]
           d == [driver EXCEPT !.step = "hidden", !.evaluations = evaluated]
           failed == {r \in Cube!Reports : ~Cube!HiddenPass(d, r)}
<1>1. driver.step = "verify" /\ driver.todo = {} /\ Cube!AllGot /\ UNCHANGED Elsewhere
  BY AtRest DEF Cube!HiddenChecks
<1>2. Cube!Revise(failed, HiddenKinds, d)
  BY DEF Cube!HiddenChecks, HiddenKinds
<1>3. CASE Cube!Stops("failed")
  BY <1>1, <1>3, StopsKeeps
<1>4. CASE ~Cube!Stops("failed")
  <2>1. /\ driver' = [d EXCEPT !.todo = HiddenKinds \X failed] /\ UNCHANGED posted
        /\ failed # {} => Cube!FitsBudget(Cube!Cardinality(failed))
    BY <1>2, <1>4 DEF Cube!Revise
  <2>2. ASSUME NEW r \in Cube!Reports
        PROVE  \E v \in {"verify", "verify-retry"} :
                 /\ <<v, r>> \in Cube!Jobs /\ <<v, r>> \in Cube!Work /\ v \in Cube!Evaluators
                 /\ Cube!Got(<<v, r>>) /\ evaluated[r] = receipts[<<v, r>>]
    <3>1. {"verify", "verify-retry"} \subseteq Cube!Evaluators
      BY DEF Cube!Evaluators
    <3>2. \A v \in {"verify", "verify-retry"} : <<v, r>> \in Cube!Work /\ <<v, r>> \in Cube!Jobs
      BY <3>1, WorkIsOf, JobsAreOf
    <3>3. Cube!Got(<<"verify", r>>)
      BY <1>1, <3>2, NobodyIsAtWork DEF CubeInv, EvidenceFits
    <3> QED
      BY <3>1, <3>2, <3>3 DEF Cube!Newest
  <2>3. \A r \in Cube!Reports : evaluated[r] \in CubeResults
    BY <2>2, ReceiptIs
  <2>4. evaluated \in DriverEvidence /\ driver.sandboxes \in DriverEvidence
    BY <2>3 DEF DriverEvidence, CubeInv, CubeTypes
  <2>5. /\ driver' = [driver EXCEPT !.step = "hidden", !.todo = HiddenKinds \X failed,
                        !.sandboxes = driver.sandboxes, !.evaluations = evaluated]
        /\ driver'.evaluations = evaluated /\ driver'.sandboxes = driver.sandboxes
    BY <2>1 DEF CubeInv, CubeTypes
  <2>6. failed \subseteq Cube!Reports
    OBVIOUS
  <2> HIDE DEF failed, evaluated, d
  <2>7. \A r \in Cube!Reports : Built(r)'
    BY <1>1, <2>5 DEF CubeInv, EvidenceFits, Built, Cube!Got, Elsewhere
  <2>8. ASSUME NEW r \in Cube!Reports PROVE Evaluated(r)'
    <3>1. PICK v \in {"verify", "verify-retry"} :
                 /\ <<v, r>> \in Cube!Jobs /\ v \in Cube!Evaluators
                 /\ Cube!Got(<<v, r>>) /\ evaluated[r] = receipts[<<v, r>>]
      BY <2>2
    <3>2. posted[<<v, r>>] = {driver.sandboxes[r].source}
      BY <1>1, <3>1, JobsAreOf DEF CubeInv, VerifyingFits, OneAtATime
    <3>3. evaluated[r].ok => evaluated[r].source = driver.sandboxes[r].source
      BY <3>1, <3>2, ReceiptIsAbout
    <3>4. Cube!Got(<<v, r>>)' /\ UNCHANGED receipts
      BY <1>1, <3>1 DEF Elsewhere, Cube!Got
    <3> QED
      BY <2>5, <3>1, <3>3, <3>4 DEF Evaluated
  <2>9. failed # {} => Cube!CallsMade + Cardinality(failed) + 1 <= MaxModelCalls
    <3>1. IsFiniteSet(failed) /\ Cardinality(failed) \in Nat
      BY <2>6, CallsAreFinite, FS_Subset, FS_CardinalityType
    <3> QED
      BY <2>1, <3>1, CountIsOne, CallsAreCounted, CubeConstants DEF Cube!FitsBudget
  <2>10. Revises(HiddenKinds, "hidden", failed, driver.sandboxes, evaluated)
    BY <1>1, <2>1, <2>4, <2>5, <2>6, <2>7, <2>8, <2>9 DEF Revises
  <2> QED
    BY <2>10, RevisionsKeep
<1> QED
  BY <1>3, <1>4

(* The evidence after revisions: both receipts of a report are replaced.      *)
HoldsEvidence(d) ==
  /\ d.sandboxes \in DriverEvidence /\ d.evaluations \in DriverEvidence
  /\ \A r \in Cube!Reports :
       /\ \E b \in Cube!Sandboxes : Cube!Got(<<b, r>>) /\ d.sandboxes[r] = receipts[<<b, r>>]
       /\ \E v \in Cube!Evaluators :
            /\ Cube!Got(<<v, r>>) /\ d.evaluations[r] = receipts[<<v, r>>]
            /\ d.evaluations[r].ok => d.evaluations[r].source = d.sandboxes[r].source
  /\ d = [driver EXCEPT !.sandboxes = d.sandboxes, !.evaluations = d.evaluations]

LEMMA RevisedIs ==
  ASSUME CubeInv, Cube!AllGot, driver.step \in {"hidden", "diverse"},
         NEW d, d = Cube!Revised(driver)
  PROVE  HoldsEvidence(d)
<1> DEFINE revised == {r \in Cube!Reports : Cube!Got(<<"verify-revision", r>>)}
           built == [r \in Cube!Reports |->
             IF r \in revised THEN receipts[<<"sandbox-revision", r>>] ELSE driver.sandboxes[r]]
           evaluated == [r \in Cube!Reports |->
             IF r \in revised THEN receipts[<<"verify-revision", r>>] ELSE driver.evaluations[r]]
<1>1. d = [driver EXCEPT !.sandboxes = built, !.evaluations = evaluated]
  BY DEF Cube!Revised, CubeInv, CubeTypes
<1>2. d.sandboxes = built /\ d.evaluations = evaluated
  BY <1>1 DEF CubeInv, CubeTypes
<1>3. ASSUME NEW r \in Cube!Reports
      PROVE  /\ built[r] \in CubeResults /\ evaluated[r] \in CubeResults
             /\ \E b \in Cube!Sandboxes : Cube!Got(<<b, r>>) /\ built[r] = receipts[<<b, r>>]
             /\ \E v \in Cube!Evaluators :
                  /\ Cube!Got(<<v, r>>) /\ evaluated[r] = receipts[<<v, r>>]
                  /\ evaluated[r].ok => evaluated[r].source = built[r].source
  <2>1. CASE r \in revised
    <3>1. "sandbox-revision" \in Cube!Sandboxes /\ "verify-revision" \in Cube!Evaluators
      BY DEF Cube!Sandboxes, Cube!Evaluators
    <3>2. /\ <<"sandbox-revision", r>> \in Cube!Work /\ <<"verify-revision", r>> \in Cube!Work
          /\ <<"verify-revision", r>> \in Cube!Jobs
      BY <3>1, WorkIsOf, JobsAreOf
    <3>3. /\ Cube!Got(<<"verify-revision", r>>) /\ Cube!Got(<<"sandbox-revision", r>>)
          /\ posted[<<"verify-revision", r>>] = {receipts[<<"sandbox-revision", r>>].source}
      BY <2>1, <3>2 DEF CubeInv, EvidenceFits, OneAtATime
    <3>4. /\ built[r] = receipts[<<"sandbox-revision", r>>]
          /\ evaluated[r] = receipts[<<"verify-revision", r>>]
      BY <2>1
    <3> HIDE DEF built, evaluated, revised
    <3>5. evaluated[r].ok => evaluated[r].source = built[r].source
      BY <3>2, <3>3, <3>4, ReceiptIsAbout
    <3> QED
      BY <3>1, <3>2, <3>3, <3>4, <3>5, ReceiptIs
  <2>2. CASE r \notin revised
    <3>1. built[r] = driver.sandboxes[r] /\ evaluated[r] = driver.evaluations[r]
      BY <2>2
    <3> HIDE DEF built, evaluated, revised
    <3>2. Built(r) /\ Evaluated(r)
      BY DEF CubeInv, EvidenceFits
    <3>3. PICK b \in Cube!Sandboxes : Cube!Got(<<b, r>>) /\ built[r] = receipts[<<b, r>>]
      BY <3>1, <3>2 DEF Built
    <3>4. PICK v \in Cube!Evaluators :
                 /\ Cube!Got(<<v, r>>) /\ evaluated[r] = receipts[<<v, r>>]
                 /\ evaluated[r].ok => evaluated[r].source = built[r].source
      BY <3>1, <3>2 DEF Evaluated
    <3>5. <<b, r>> \in Cube!Work /\ <<v, r>> \in Cube!Work
      BY WorkIsOf
    <3> QED
      BY <3>3, <3>4, <3>5, ReceiptIs
  <2> QED
    BY <2>1, <2>2
<1>4. built \in DriverEvidence /\ evaluated \in DriverEvidence
  BY <1>3 DEF DriverEvidence
<1> HIDE DEF built, evaluated, revised
<1> QED
  BY <1>1, <1>2, <1>3, <1>4 DEF HoldsEvidence

(* The rivals compete, or the last is revised once more.                       *)
LEMMA CompeteKeeps ==
  ASSUME CubeInv, NEW step \in {"hidden", "diverse"}, Cube!Compete(step) PROVE CubeInv'
<1>1. driver.step = step /\ driver.todo = {} /\ Cube!AllGot /\ UNCHANGED Elsewhere
  BY AtRest DEF Cube!Compete
<1>2. PICK d : d = Cube!Revised(driver)
  OBVIOUS
<1>3. HoldsEvidence(d)
  <2>1. driver.step \in {"hidden", "diverse"}
    BY <1>1
  <2> QED
    BY <1>1, <1>2, <2>1, RevisedIs
<1>4. \/ Cube!Stops("failed")
      \/ /\ driver' = [d EXCEPT !.step = "resolve", !.todo = {"conflict", "resolve"} \X {Cube!Final}]
         /\ UNCHANGED posted
      \/ /\ step # "diverse" /\ ~(Cube!CallsMade + 2 > MaxModelCalls)
         /\ driver' = [d EXCEPT !.step = "diverse", !.todo = HiddenKinds \X {Cube!Final}]
         /\ UNCHANGED posted
  BY <1>2 DEF Cube!Compete, HiddenKinds
<1>5. CASE Cube!Stops("failed")
  BY <1>1, <1>5, StopsKeeps
<1>6. CASE /\ driver' = [d EXCEPT !.step = "resolve", !.todo = {"conflict", "resolve"} \X {Cube!Final}]
           /\ UNCHANGED posted
  <2>1. /\ driver'.open = driver.open /\ driver'.todo = {"conflict", "resolve"} \X {Cube!Final}
        /\ driver'.sandboxes = d.sandboxes /\ driver'.evaluations = d.evaluations
        /\ driver'.before = driver.before /\ driver'.accepted = driver.accepted
        /\ driver'.step = "resolve" /\ driver.accepted = {}
    BY <1>1, <1>3, <1>6 DEF HoldsEvidence, CubeInv, CubeTypes, AcceptingFits, Ends
  <2>2. {"conflict", "resolve"} \X {Cube!Final} \in SUBSET Cube!Work
    <3> SUFFICES ASSUME NEW k \in {"conflict", "resolve"} PROVE <<k, Cube!Final>> \in Cube!Work
      OBVIOUS
    <3> QED
      BY WorkIsOf
  <2>3. CubeTypes'
    BY <1>1, <1>3, <1>6, <2>1, <2>2 DEF HoldsEvidence, CubeInv, CubeTypes, Elsewhere, Steps
  <2>4. TodoFits'
    <3>1. Resolver \in driver'.todo
      BY <2>1 DEF Resolver
    <3>2. \A r \in Cube!Reports, k \in {"sandbox-public", "sandbox-revision", "verify-revision"} :
            <<k, r>> \notin driver'.todo
      BY <2>1
    <3>3. driver'.todo \subseteq TodoOf("resolve")
      BY <2>1 DEF TodoOf
    <3> QED
      BY <2>1, <3>1, <3>2, <3>3 DEF TodoFits, Asked, Resolver
  <2>5. EvidenceFits'
    <3>1. \A r \in Cube!Reports : Built(r)'
      BY <1>1, <1>3, <2>1 DEF HoldsEvidence, Built, Cube!Got, Elsewhere
    <3>2. \A r \in Cube!Reports : Evaluated(r)'
      <4> SUFFICES ASSUME NEW r \in Cube!Reports PROVE Evaluated(r)'
        OBVIOUS
      <4>1. PICK v \in Cube!Evaluators :
                   /\ Cube!Got(<<v, r>>) /\ d.evaluations[r] = receipts[<<v, r>>]
                   /\ d.evaluations[r].ok => d.evaluations[r].source = d.sandboxes[r].source
        BY <1>3 DEF HoldsEvidence
      <4>2. Cube!Got(<<v, r>>)' /\ UNCHANGED receipts
        BY <1>1, <4>1 DEF Cube!Got, Elsewhere
      <4> QED
        BY <2>1, <4>1, <4>2 DEF Evaluated
    <3> QED
      BY <1>1, <1>6, <2>1, <3>1, <3>2 DEF CubeInv, EvidenceFits, Posted, Cube!Got, Elsewhere
  <2>6. VerifyingFits' /\ ResolvingFits'
    BY <1>1, <1>6, <2>1 DEF CubeInv, VerifyingFits, ResolvingFits, Posted, Ends
  <2>7. AcceptingFits'
    BY <2>1 DEF AcceptingFits, Cube!AcceptedIsVerified
  <2>8. NothingIsLost'
    BY <1>1, <2>1 DEF CubeInv, NothingIsLost, Cube!AssertionsHold, Cube!Got, Elsewhere
  <2>9. BudgetFits'
    <3>1. \A w \in ModelJobs \ {Resolver} : Asked(w)' <=> Asked(w)
      <4> SUFFICES ASSUME NEW w \in ModelJobs, w # Resolver PROVE w \notin driver'.todo
        BY <1>1, <1>6 DEF Asked, Posted
      <4> QED
        BY <2>1 DEF Resolver, ModelJobs, Cube!Models
    <3>2. PlannedCalls' = PlannedCalls
      BY <3>1 DEF PlannedCalls, ModelJobs, Resolver
    <3> QED
      BY <3>2 DEF CubeInv, BudgetFits
  <2> QED
    BY <1>1, <1>6, <2>1, <2>3, <2>4, <2>5, <2>6, <2>7, <2>8, <2>9, CubeDriverMoves
<1>7. CASE /\ step # "diverse" /\ ~(Cube!CallsMade + 2 > MaxModelCalls)
           /\ driver' = [d EXCEPT !.step = "diverse", !.todo = HiddenKinds \X {Cube!Final}]
           /\ UNCHANGED posted
  <2> DEFINE failed == {Cube!Final}
  <2>1. /\ driver' = [driver EXCEPT !.step = "diverse", !.todo = HiddenKinds \X failed,
                        !.sandboxes = d.sandboxes, !.evaluations = d.evaluations]
        /\ driver'.sandboxes = d.sandboxes /\ driver'.evaluations = d.evaluations
    BY <1>3, <1>7 DEF HoldsEvidence, CubeInv, CubeTypes
  <2>2. failed \subseteq Cube!Reports /\ driver.step = "hidden"
    BY <1>1, <1>7, CubeConstants
  <2>3. Cube!CallsMade + Cardinality(failed) + 1 <= MaxModelCalls
    <3>1. Cardinality(failed) = 1
      BY FS_Singleton
    <3> HIDE DEF failed
    <3> QED
      BY <1>7, <3>1, CallsAreCounted, CubeConstants
  <2> HIDE DEF failed
  <2>4. ASSUME NEW r \in Cube!Reports PROVE Built(r)'
    BY <1>1, <1>3, <2>1 DEF HoldsEvidence, Built, Cube!Got, Elsewhere
  <2>5. ASSUME NEW r \in Cube!Reports PROVE Evaluated(r)'
    <3>1. PICK v \in Cube!Evaluators :
                 /\ Cube!Got(<<v, r>>) /\ d.evaluations[r] = receipts[<<v, r>>]
                 /\ d.evaluations[r].ok => d.evaluations[r].source = d.sandboxes[r].source
      BY <1>3 DEF HoldsEvidence
    <3>2. Cube!Got(<<v, r>>)' /\ UNCHANGED receipts
      BY <1>1, <3>1 DEF Cube!Got, Elsewhere
    <3> QED
      BY <2>1, <3>1, <3>2 DEF Evaluated
  <2>6. Revises(HiddenKinds, "diverse", failed, d.sandboxes, d.evaluations)
    BY <1>1, <1>3, <1>7, <2>1, <2>2, <2>3, <2>4, <2>5 DEF HoldsEvidence, Revises
  <2> QED
    BY <2>6, RevisionsKeep
<1> QED
  BY <1>4, <1>5, <1>6, <1>7

(* The resolver picks one of the rivals: its answer is a source it was         *)
(* asked about.                                                                *)
LEMMA SelectKeeps ==
  ASSUME CubeInv, Cube!Select PROVE CubeInv'
<1>1. driver.step = "resolve" /\ driver.todo = {} /\ Cube!AllGot /\ UNCHANGED Elsewhere
  BY AtRest DEF Cube!Select
<1>2. PICK winner : winner = CHOOSE r \in Cube!Rivals :
         driver.sandboxes[r].source = receipts[<<"resolve", Cube!Final>>].source
  OBVIOUS
<1> DEFINE selected == (Cube!Reports \ Cube!Rivals) \cup {winner}
           todo == ({"accept"} \X (1 .. Cube!Final - 1)) \cup {<<"release", Cube!Final>>}
<1>3. \/ Cube!Stops("failed")
      \/ /\ \A r \in selected : driver.evaluations[r].ok
         /\ driver' = [driver EXCEPT !.step = "accept", !.accepted = selected, !.todo = todo]
         /\ UNCHANGED posted
  BY <1>2 DEF Cube!Select, Cube!HiddenPass
<1>4. CASE Cube!Stops("failed")
  BY <1>1, <1>4, StopsKeeps
<1>5. CASE /\ \A r \in selected : driver.evaluations[r].ok
           /\ driver' = [driver EXCEPT !.step = "accept", !.accepted = selected, !.todo = todo]
           /\ UNCHANGED posted
  <2>1. winner \in Cube!Rivals
    <3>1. Resolver \in Cube!Work /\ Resolver \in Cube!Jobs /\ ~Cube!Denied(Resolver)
      BY WorkIsOf, JobsAreOf DEF Resolver, Cube!Denied
    <3>2. Cube!Got(Resolver) /\ posted[Resolver] = {driver.sandboxes[r].source : r \in Cube!Rivals}
      BY <1>1, <3>1, NobodyIsAtWork DEF CubeInv, TodoFits, Asked, ResolvingFits, Resolver
    <3>3. receipts[Resolver] \in Cube!Outcomes(Resolver)
      BY <3>1, <3>2 DEF CubeInv, WorkFollowsTheLane
    <3>4. \E oks \in SUBSET BOOLEAN : receipts[Resolver] \in [source : posted[Resolver], ok : oks]
      BY <3>1, <3>3 DEF Cube!Outcomes
    <3>5. receipts[Resolver].source \in posted[Resolver]
      BY <3>4
    <3>6. \E r \in Cube!Rivals : driver.sandboxes[r].source = receipts[Resolver].source
      BY <3>2, <3>5
    <3> QED
      BY <1>2, <3>6 DEF Resolver
  <2>2. selected \subseteq Cube!Reports
    BY <2>1, CubeConstants
  <2>3. todo \subseteq {"accept", "release"} \X Cube!Reports /\ todo \in SUBSET Cube!Work
    <3>1. \A r \in 1 .. Cube!Final - 1 : r \in Cube!Reports
      BY CubeConstants DEF Cube!Final, Cube!Reports
    <3>2. \A r \in 1 .. Cube!Final - 1 : <<"accept", r>> \in Cube!Work
      BY <3>1, WorkIsOf
    <3>3. <<"release", Cube!Final>> \in Cube!Work
      BY WorkIsOf
    <3> QED
      BY <3>1, <3>2, <3>3, CubeConstants
  <2> HIDE DEF selected, todo
  <2>4. /\ driver'.open = driver.open /\ driver'.todo = todo
        /\ driver'.sandboxes = driver.sandboxes /\ driver'.evaluations = driver.evaluations
        /\ driver'.before = driver.before /\ driver'.accepted = selected
        /\ driver'.step = "accept"
    BY <1>5 DEF CubeInv, CubeTypes
  <2>5. CubeTypes'
    BY <1>1, <1>5, <2>2, <2>3 DEF CubeInv, CubeTypes, Elsewhere, Steps
  <2>6. TodoFits'
    <3>1. todo \subseteq TodoOf("accept")
      BY <2>3 DEF TodoOf
    <3>2. \A r \in Cube!Reports, k \in {"sandbox-public", "sandbox-revision", "verify-revision"} :
            <<k, r>> \notin todo
      BY <2>3
    <3> QED
      BY <2>4, <3>1, <3>2 DEF TodoFits
  <2>7. EvidenceFits'
    BY <1>1, <1>5, <2>4 DEF CubeInv, EvidenceFits, Posted, Cube!Got, Elsewhere
  <2>8. VerifyingFits' /\ ResolvingFits'
    BY <2>4 DEF VerifyingFits, ResolvingFits
  <2>9. AcceptingFits'
    <3>1. ASSUME NEW r \in selected
          PROVE  \E b \in Cube!Sandboxes, v \in Cube!Evaluators :
                   /\ Cube!Got(<<b, r>>)' /\ Cube!Got(<<v, r>>)' /\ receipts'[<<v, r>>].ok
                   /\ {receipts'[<<b, r>>].source, receipts'[<<v, r>>].source}
                        = {driver'.sandboxes[r].source}
      <4>1. Built(r) /\ Evaluated(r) /\ driver.evaluations[r].ok
        BY <1>1, <1>5, <2>2 DEF CubeInv, EvidenceFits
      <4>2. PICK b \in Cube!Sandboxes :
                   Cube!Got(<<b, r>>) /\ driver.sandboxes[r] = receipts[<<b, r>>]
        BY <4>1 DEF Built
      <4>3. PICK v \in Cube!Evaluators :
                   /\ Cube!Got(<<v, r>>) /\ driver.evaluations[r] = receipts[<<v, r>>]
                   /\ driver.evaluations[r].source = driver.sandboxes[r].source
        BY <4>1 DEF Evaluated
      <4>4. UNCHANGED receipts /\ Cube!Got(<<b, r>>)' /\ Cube!Got(<<v, r>>)'
        BY <1>1, <4>2, <4>3 DEF Elsewhere, Cube!Got
      <4>5. {receipts[<<b, r>>].source, receipts[<<v, r>>].source} = {driver.sandboxes[r].source}
        BY <4>2, <4>3
      <4> QED
        BY <2>4, <4>1, <4>3, <4>4, <4>5
    <3>2. Cube!AcceptedIsVerified'
      BY <2>4, <3>1 DEF Cube!AcceptedIsVerified
    <3> QED
      BY <2>4, <3>2 DEF AcceptingFits
  <2>10. NothingIsLost'
    BY <1>1, <2>4 DEF CubeInv, NothingIsLost, Cube!AssertionsHold, Cube!Got, Elsewhere
  <2>11. BudgetFits'
    <3>1. \A w \in ModelJobs : Asked(w)' <=> Asked(w)
      <4> SUFFICES ASSUME NEW w \in ModelJobs PROVE w \notin driver'.todo
        BY <1>1, <1>5 DEF Asked, Posted
      <4> QED
        BY <2>3, <2>4 DEF ModelJobs, Cube!Models
    <3>2. PlannedCalls' = PlannedCalls
      BY <3>1 DEF PlannedCalls, ModelJobs
    <3> QED
      BY <3>2 DEF CubeInv, BudgetFits
  <2> QED
    BY <1>1, <1>5, <2>4, <2>5, <2>6, <2>7, <2>8, <2>9, <2>10, <2>11, CubeDriverMoves
<1> QED
  BY <1>3, <1>4, <1>5

LEMMA ReleaseKeeps ==
  ASSUME CubeInv, Cube!Release PROVE CubeInv'
<1>1. UNCHANGED Elsewhere /\ Cube!Stops("passed")
  BY AtRest DEF Cube!Release
<1> QED
  BY <1>1, StopsKeeps

LEMMA CubeGivesUpKeeps ==
  ASSUME CubeInv, Cube!GivesUp PROVE CubeInv'
<1>1. UNCHANGED Elsewhere /\ Cube!Stops("failed")
  BY DEF Cube!GivesUp, Elsewhere, Cube!lanes
<1> QED
  BY <1>1, StopsKeeps

(* What is complete before the restart is remembered.                          *)
LEMMA LookBeforeKeeps ==
  ASSUME CubeInv, Cube!LookBefore PROVE CubeInv'
<1>1. /\ UNCHANGED Elsewhere /\ UNCHANGED posted /\ driver.step = "active"
      /\ driver' = [driver EXCEPT !.step = "restart", !.before = {w \in Cube!Work : Cube!Got(w)}]
  BY DEF Cube!LookBefore, Elsewhere, Cube!lanes
<1>2. /\ CubeTypes' /\ driver'.open = driver.open /\ driver'.todo = driver.todo
      /\ driver'.sandboxes = driver.sandboxes /\ driver'.evaluations = driver.evaluations
      /\ driver'.before = {w \in Cube!Work : Cube!Got(w)}
      /\ driver'.accepted = driver.accepted /\ driver.accepted = {}
      /\ driver'.step = "restart"
  BY <1>1 DEF CubeInv, CubeTypes, Steps, Elsewhere, AcceptingFits, Ends
<1>3. TodoFits'
  BY <1>1, <1>2 DEF CubeInv, TodoFits, TodoOf, Asked, Posted, Ends
<1>4. EvidenceFits'
  BY <1>1, <1>2 DEF CubeInv, EvidenceFits, Posted, Cube!Got, Elsewhere
<1>5. VerifyingFits' /\ ResolvingFits'
  BY <1>1, <1>2 DEF CubeInv, VerifyingFits, ResolvingFits, Posted, Ends
<1>6. AcceptingFits'
  BY <1>2 DEF AcceptingFits, Cube!AcceptedIsVerified
<1>7. NothingIsLost'
  BY <1>1, <1>2 DEF NothingIsLost, Cube!AssertionsHold, Cube!Got, Elsewhere
<1>8. BudgetFits'
  BY <1>1, <1>2 DEF CubeInv, BudgetFits, PlannedCalls, Asked, Posted
<1> QED
  BY <1>1, <1>2, <1>3, <1>4, <1>5, <1>6, <1>7, <1>8, CubeDriverMoves

(* The first calls and the one of the resolver are 2 * NReports + 1.           *)
LEMMA FirstPlanFits ==
  ASSUME driver.todo = {"triage", "patch"} \X Cube!Reports, \A w \in Cube!Work : ~Posted(w)
  PROVE  BudgetFits
<1> DEFINE first == {"triage", "patch"} \X Cube!Reports
           all == first \cup {<<"resolve", Cube!Final>>}
<1>1. PlannedCalls \subseteq all
  BY JobsAreOf DEF PlannedCalls, ModelJobs, Asked
<1>2. IsFiniteSet({"triage", "patch"}) /\ Cardinality({"triage", "patch"}) = 2
  <2>1. IsFiniteSet({"triage"}) /\ Cardinality({"triage"}) = 1
    BY FS_Singleton
  <2>2. /\ IsFiniteSet({"triage"} \cup {"patch"})
        /\ Cardinality({"triage"} \cup {"patch"})
             = IF "patch" \in {"triage"} THEN Cardinality({"triage"}) ELSE Cardinality({"triage"}) + 1
    BY <2>1, FS_AddElement
  <2>3. {"triage"} \cup {"patch"} = {"triage", "patch"} /\ "patch" \notin {"triage"}
    OBVIOUS
  <2> QED
    BY <2>1, <2>2, <2>3
<1>3. IsFiniteSet(first) /\ Cardinality(first) = 2 * NReports
  BY <1>2, CallsAreFinite, FS_Product
<1> HIDE DEF first
<1>4. /\ IsFiniteSet(all)
      /\ Cardinality(all) = IF <<"resolve", Cube!Final>> \in first
                            THEN Cardinality(first) ELSE Cardinality(first) + 1
  BY <1>3, FS_AddElement
<1> HIDE DEF all
<1>5. Cardinality(PlannedCalls) <= Cardinality(all) /\ Cardinality(PlannedCalls) \in Nat
  BY <1>1, <1>4, FS_Subset, FS_CardinalityType
<1>6. Cardinality(all) <= 2 * NReports + 1
  BY <1>3, <1>4, CubeConstants
<1>7. Cardinality(all) \in Nat
  BY <1>4, FS_CardinalityType
<1> QED
  BY <1>5, <1>6, <1>7, CubeConstants DEF BudgetFits, PlanIsAffordable

LEMMA NothingYet ==
  ASSUME NEW S, NEW T, None \in T PROVE [x \in S |-> None] \in [S -> T]
OBVIOUS

(* The fabric starts with its invariant.                                       *)
LEMMA CubeStarts ==
  ASSUME Cube!Init PROVE CubeInv
<1>1. /\ posted = [w \in Cube!Work |-> None] /\ receipts = [w \in Cube!Work |-> None]
      /\ cells = [c \in Cube!Cells |-> [status |-> "idle", pending |-> None]]
      /\ driver = [step |-> "repair", open |-> {},
                   todo |-> {"triage", "patch"} \X Cube!Reports,
                   sandboxes |-> [r \in Cube!Reports |-> None],
                   evaluations |-> [r \in Cube!Reports |-> None],
                   before |-> {}, accepted |-> {}]
  BY DEF Cube!Init
<1>2. PICK of : of = CubeOutcomes
  OBVIOUS
<1>3. /\ LaneFits(Cube!Jobs, MaxCapabilityClaims, CubeResults, of)
      /\ \A w \in Cube!Jobs : lane[w].status = "none"
  <2>1. Lane(Cube!Jobs, TRUE, CapabilitiesFitLeases, MaxCapabilityClaims)!JobsInit
    BY DEF Cube!Init, Cube!JobsInit, Cube!NoAction, Lane!JobsInit, Lane!NoAction
  <2> QED
    BY <2>1, CubeConstants, LaneStarts
<1>4. CubeLane
  BY <1>2, <1>3, CubeLaneIs
<1>5. \A w \in Cube!Work : ~Posted(w) /\ ~Cube!Got(w)
  BY <1>1 DEF Posted, Cube!Got
<1>6. CubeTypes
  <2>1. {"triage", "patch"} \X Cube!Reports \in SUBSET Cube!Work
    <3> SUFFICES ASSUME NEW k \in {"triage", "patch"}, NEW r \in Cube!Reports
                 PROVE  <<k, r>> \in Cube!Work
      OBVIOUS
    <3> QED
      BY WorkIsOf
  <2>2. [r \in Cube!Reports |-> None] \in DriverEvidence
    BY NothingYet DEF DriverEvidence
  <2>3. /\ posted \in [Cube!Work -> (SUBSET (Sources \cup {None})) \cup {None}]
        /\ receipts \in [Cube!Work -> CubeResults \cup {None}]
    <3>1. None \in (SUBSET (Sources \cup {None})) \cup {None}
      BY Zenon
    <3>2. None \in CubeResults \cup {None}
      BY Zenon
    <3> QED
      BY <1>1, <3>1, <3>2, NothingYet
  <2>4. cells \in [Cube!Cells -> [status : {"idle", "working", "failed"},
                                 pending : Cube!Jobs \cup {None}]]
    BY <1>1
  <2>5. PICK first, none : first = {"triage", "patch"} \X Cube!Reports
                           /\ none = [r \in Cube!Reports |-> None]
    OBVIOUS
  <2>6. driver = [step |-> "repair", open |-> {}, todo |-> first, sandboxes |-> none,
                  evaluations |-> none, before |-> {}, accepted |-> {}]
    BY <1>1, <2>5
  <2>7. first \in SUBSET Cube!Work /\ none \in DriverEvidence
    BY <2>1, <2>2, <2>5
  <2>8. driver \in [step : Steps, open : SUBSET Cube!Work, todo : SUBSET Cube!Work,
                   sandboxes : DriverEvidence, evaluations : DriverEvidence,
                   before : SUBSET Cube!Work, accepted : SUBSET Cube!Reports]
    BY <2>6, <2>7 DEF Steps
  <2> QED
    BY <2>3, <2>4, <2>8 DEF CubeTypes
<1>7. WorkFollowsTheLane
  <2>1. ASSUME NEW w \in Cube!Jobs
        PROVE  /\ lane[w].status = "none" /\ cells[Cube!CellOf(w)].pending # w /\ ~Cube!Got(w)
    BY <1>1, <1>3, <1>5, JobsAreOf, CellsOfWork, CubeConstants
  <2> QED
    BY <1>1, <2>1 DEF WorkFollowsTheLane, Open
<1>8. OneAtATime
  BY <1>5 DEF OneAtATime, Undone
<1>9. TodoFits
  BY <1>1 DEF TodoFits, TodoOf, Asked
<1>10. EvidenceFits
  BY <1>1, <1>5, WorkIsOf DEF EvidenceFits, Cube!Evaluators
<1>11. VerifyingFits /\ ResolvingFits
  <2>1. \A r \in Cube!Reports : <<"verify-retry", r>> \in Cube!Work
    BY WorkIsOf DEF Cube!Evaluators
  <2>2. <<"resolve", Cube!Final>> \in Cube!Work
    BY WorkIsOf
  <2> QED
    BY <1>1, <1>5, <2>1, <2>2 DEF VerifyingFits, ResolvingFits
<1>12. AcceptingFits /\ NothingIsLost
  BY <1>1 DEF AcceptingFits, Cube!AcceptedIsVerified, NothingIsLost, Cube!AssertionsHold
<1>13. BudgetFits
  BY <1>1, <1>5, FirstPlanFits
<1> QED
  BY <1>4, <1>6, <1>7, <1>8, <1>9, <1>10, <1>11, <1>12, <1>13 DEF CubeInv

(* Every step of the fabric keeps its invariant.                               *)
LEMMA CubeGoesOn ==
  ASSUME CubeInv, Cube!Next PROVE CubeInv'
<1>1. ~Cube!Ended
  BY DEF Cube!Next
<1>2. CASE Cube!JobStep /\ UNCHANGED <<posted, cells, receipts, driver>>
  BY <1>2, CubeJobsKeep
<1>3. ASSUME NEW q \in requests, Cube!Executes(q) PROVE CubeInv'
  BY <1>3, ExecutesKeeps
<1>4. ASSUME NEW w \in Cube!Work, Cube!Assigned(w) PROVE CubeInv'
  BY <1>4, AssignedKeeps
<1>5. ASSUME NEW w \in Cube!Jobs, Cube!Delivers(w) PROVE CubeInv'
  BY <1>5, DeliversKeeps
<1>6. ASSUME NEW w \in Cube!Jobs, Cube!Fails(w) PROVE CubeInv'
  BY <1>6, CubeFailsKeeps
<1>7. CASE Cube!AskNext
  BY <1>1, <1>7, AskNextKeeps
<1>8. CASE Cube!StartSandboxes
  BY <1>8, StartSandboxesKeeps
<1>9. CASE Cube!LookBefore
  BY <1>9, LookBeforeKeeps
<1>10. CASE Cube!RestartCelld
  BY <1>10, RestartKeeps
<1>11. CASE Cube!PublicChecks
  BY <1>11, PublicChecksKeeps
<1>12. CASE Cube!Verify
  BY <1>12, VerifyKeeps
<1>13. CASE Cube!Retry
  BY <1>13, RetryKeeps
<1>14. CASE Cube!HiddenChecks
  BY <1>14, HiddenChecksKeeps
<1>15. ASSUME NEW step \in {"hidden", "diverse"}, Cube!Compete(step) PROVE CubeInv'
  BY <1>15, CompeteKeeps
<1>16. CASE Cube!Select
  BY <1>16, SelectKeeps
<1>17. CASE Cube!Release
  BY <1>17, ReleaseKeeps
<1>18. CASE Cube!GivesUp
  BY <1>18, CubeGivesUpKeeps
<1> QED
  BY <1>2, <1>3, <1>4, <1>5, <1>6, <1>7, <1>8, <1>9, <1>10, <1>11, <1>12, <1>13, <1>14, <1>15,
    <1>16, <1>17, <1>18 DEF Cube!Next

(* Two works in one cell, both asked for and not done, are the same.           *)
LEMMA CubeIsNeverBusy ==
  ASSUME CubeInv PROVE Cube!NobodyIsBusy
<1> SUFFICES ASSUME NEW w \in Cube!Work, Cube!Waits(w)
             PROVE  cells[Cube!CellOf(w)].pending = None
  BY DEF Cube!NobodyIsBusy
<1>1. Undone(w) /\ (w \in Cube!Jobs => lane[w].status = "none")
  BY DEF Cube!Waits, Undone, Posted
<1> SUFFICES ASSUME cells[Cube!CellOf(w)].pending # None PROVE FALSE
  OBVIOUS
<1>2. PICK p : p = cells[Cube!CellOf(w)].pending
  OBVIOUS
<1>3. p \in Cube!Jobs /\ Cube!CellOf(p) = Cube!CellOf(w) /\ Cube!CellOf(w) \in Cube!Cells
  BY <1>2, CellsOfWork DEF CubeInv, CubeTypes, WorkFollowsTheLane
<1>4. lane[p].status \in Open
  BY <1>2, <1>3 DEF CubeInv, WorkFollowsTheLane
<1>5. Undone(p) /\ p \in Cube!Work
  BY <1>3, <1>4, OpenIsPending DEF Undone
<1>6. p = w
  BY <1>1, <1>3, <1>5 DEF CubeInv, OneAtATime
<1> QED
  BY <1>1, <1>3, <1>4, <1>6 DEF Open

(* What is asked for is planned, and the plan is within the budget.            *)
LEMMA CubeStaysInBudget ==
  ASSUME CubeInv, PlanIsAffordable PROVE Cube!BudgetHolds
<1>1. Cardinality(PlannedCalls) <= MaxModelCalls
  BY DEF CubeInv, BudgetFits
<1>2. {w \in Cube!Jobs : w[1] \in Cube!Models /\ posted[w] # None} \subseteq PlannedCalls
  BY DEF PlannedCalls, ModelJobs, Asked, Posted
<1>3. {w \in Cube!Jobs : w[1] \in Cube!Models /\ posted[w] # None} = Cube!ModelJobsAsked
  BY DEF Cube!ModelJobsAsked
<1>4. Cube!ModelJobsAsked \subseteq PlannedCalls
  BY <1>2, <1>3
<1>5. /\ Cardinality(PlannedCalls) \in Nat /\ Cardinality(Cube!ModelJobsAsked) \in Nat
      /\ Cardinality(Cube!ModelJobsAsked) <= Cardinality(PlannedCalls)
  BY <1>4, CallsAreFinite, FS_Subset, FS_CardinalityType
<1> QED
  BY <1>1, <1>5, CountIsOne, CubeConstants DEF Cube!BudgetHolds

(* Everything that the two experiments keep.                                  *)
ExperimentsInv ==
  /\ kind \in {"repository", "fabric"}
  /\ kind = "repository" => RunsInv
  /\ kind = "fabric" => CubeInv

(* Nothing happens when an experiment is over.                               *)
LEMMA OverKeeps ==
  ASSUME ExperimentsInv, UNCHANGED vars PROVE ExperimentsInv'
<1>1. UNCHANGED <<kind, lane, requests, ledger, faults, cells, driver, runs, posted, receipts>>
  BY DEF vars
<1>2. LaneGoesOn(AgentRuns) /\ LaneGoesOn(Cube!Jobs)
  BY <1>1 DEF LaneGoesOn
<1>3. ASSUME RunsInv PROVE RunsInv'
  <2>1. LaneFits(AgentRuns, MaxRunClaims, RunResults, ResultsOf)'
    BY <1>1, <1>3 DEF RunsInv, LaneFits
  <2> QED
    BY <1>1, <1>2, <1>3, <2>1, LaneKeepsRuns
<1>4. ASSUME CubeInv PROVE CubeInv'
  <2>1. CubeLane'
    BY <1>1, <1>4 DEF CubeInv, CubeLane, CubeOutcomes, LaneFits, Posted, Cube!Outcomes
  <2> QED
    BY <1>1, <1>2, <1>4, <2>1, LaneKeepsWork
<1> QED
  BY <1>1, <1>3, <1>4 DEF ExperimentsInv

(* Whichever experiment is chosen starts with its invariant.                  *)
LEMMA ExperimentsStart == Init => ExperimentsInv
BY RunsStart, CubeStarts DEF Init, ExperimentsInv

(* Every step of either experiment keeps it.                                 *)
LEMMA ExperimentsGoOn == ExperimentsInv /\ [Next]_vars => ExperimentsInv'
<1> SUFFICES ASSUME ExperimentsInv, [Next]_vars PROVE ExperimentsInv'
  OBVIOUS
<1>1. CASE kind = "repository" /\ Repository!Next /\ UNCHANGED <<kind, posted, receipts>>
  BY <1>1, RunsGoOn DEF ExperimentsInv
<1>2. CASE kind = "fabric" /\ Cube!Next /\ UNCHANGED <<kind, runs>>
  BY <1>2, CubeGoesOn DEF ExperimentsInv
<1>3. CASE UNCHANGED vars
  BY <1>3, OverKeeps
<1> QED
  BY <1>1, <1>2, <1>3 DEF Next, Over

(* So it holds for ever.                                                     *)
LEMMA ExperimentsKeep == Spec => []ExperimentsInv
BY ExperimentsStart, ExperimentsGoOn, PTL DEF Spec

(* The books of a cell of the repository agent are those of its runs, however *)
(* often its jobs are done and whenever celld is restarted (onAgentEvent()).  *)
THEOREM BooksAlwaysAgree == Spec => []BooksAgree
<1>1. ExperimentsInv => BooksAgree
  BY BooksOfAgents DEF ExperimentsInv, RunsInv, BooksAgree
<1> QED
  BY <1>1, ExperimentsKeep, PTL

(* No cell of the fabric is given work while it is at work: the driver waits  *)
(* for what it asked for, and the denied evaluation is asked for again in a   *)
(* cell that is free (onAgentEvent() would throw).                           *)
THEOREM NobodyIsEverBusy == Spec => []NobodyIsBusy
<1>1. ExperimentsInv => NobodyIsBusy
  BY CubeIsNeverBusy DEF ExperimentsInv, NobodyIsBusy
<1> QED
  BY <1>1, ExperimentsKeep, PTL

(* What the driver accepts was built in a sandbox and passed an evaluation of *)
(* that very source, whatever was revised, denied or done twice.             *)
THEOREM AcceptedIsAlwaysVerified == Spec => []AcceptedIsVerified
<1>1. ExperimentsInv => AcceptedIsVerified
  BY DEF ExperimentsInv, CubeInv, AcceptingFits, AcceptedIsVerified
<1> QED
  BY <1>1, ExperimentsKeep, PTL

(* No assertion of a driver about its cells fails (the comparison after the   *)
(* restart, the durable prefix, the jobs in the end).                        *)
THEOREM DriversAreContent == Spec => []AssertionsHold
<1>1. ExperimentsInv => AssertionsHold
  BY DEF ExperimentsInv, RunsInv, CubeInv, NothingIsLost, AssertionsHold
<1> QED
  BY <1>1, ExperimentsKeep, PTL

(* The driver asks for no more model jobs than the budget has calls.  Where   *)
(* the budget has room for the first calls and the resolver                   *)
(* (fabric-config.json: five repairs, and 12 calls), the guards before every  *)
(* revision do the rest.  A job that is executed again after a timeout counts *)
(* once, as in the statistics the driver reads.                              *)
THEOREM BudgetIsKept == ASSUME PlanIsAffordable PROVE Spec => []BudgetHolds
<1>1. ExperimentsInv => BudgetHolds
  BY CubeStaysInBudget DEF ExperimentsInv, BudgetHolds
<1> QED
  BY <1>1, ExperimentsKeep, PTL

-----------------------------------------------------------------------------
(* The acceptance of artifacts: a lineage of revisions.                       *)

(* A gate with exactly one passing item is among the passed gates. *)
LEMMA PassesIsPassed ==
  ASSUME NEW e, NEW gate, Passes(e, gate)
  PROVE  gate \in PassedBy(e)
BY DEF Passes, Items, PassedBy

(* An accepted candidate passes everything its parent passed and everything  *)
(* that was required of it. *)
LEMMA AcceptedPreserves ==
  ASSUME NEW input, Accepts(input)
  PROVE  input.required \cup PassedBy(input.parentEvidence) \subseteq PassedBy(input.candidateEvidence)
BY PassesIsPassed DEF Accepts, GatesToPass

(* So a decision regresses nothing. *)
LEMMA RegressionStep ==
  NothingRegresses /\ [LineageNext]_lineage => NothingRegresses'
<1> SUFFICES ASSUME NothingRegresses, [LineageNext]_lineage PROVE NothingRegresses'
  OBVIOUS
<1>1. ASSUME NEW candidate \in Artifact, NEW candidateEvidence \in Evidence,
             NEW required \in SUBSET (Gates \cup {Empty}),
             Decide(candidate, candidateEvidence, required)
      PROVE  NothingRegresses'
  <2> DEFINE input == [parent |-> retained, candidate |-> candidate,
                       parentEvidence |-> evidence, candidateEvidence |-> candidateEvidence,
                       required |-> required]
  <2>1. /\ Accepts(input)
        /\ evidence' = candidateEvidence
        /\ established' = established \cup required \cup PassedBy(candidateEvidence)
    BY <1>1 DEF Decide
  <2>2. required \cup PassedBy(evidence) \subseteq PassedBy(candidateEvidence)
    BY <2>1, AcceptedPreserves
  <2>3. established \subseteq PassedBy(evidence)
    BY DEF NothingRegresses
  <2>4. PassedBy(evidence)' = PassedBy(candidateEvidence)
    BY <2>1 DEF PassedBy
  <2>5. QED
    BY <2>1, <2>2, <2>3, <2>4 DEF NothingRegresses
<1>2. CASE UNCHANGED lineage
  BY <1>2 DEF lineage, NothingRegresses, PassedBy
<1>3. QED
  BY <1>1, <1>2 DEF LineageNext

(* The retained artifact passes every gate an ancestor ever passed. *)
THEOREM AcceptanceIsMonotonic == LineageSpec => []NothingRegresses
<1>1. LineageInit => NothingRegresses
  BY DEF LineageInit, NothingRegresses
<1>2. QED
  BY <1>1, RegressionStep, PTL DEF LineageSpec
==============================================================================
