-------------------------- MODULE ModelGatewayProofs --------------------------
(* Theorems about ModelGateway for every number of turns, requests, calls,    *)
(* retries and crashes, with every interleaving of duplicates.                *)
EXTENDS ModelGateway, Functions, FiniteSetTheorems, SequenceTheorems,
        WellFoundedInduction, TLAPS

-----------------------------------------------------------------------------
(* What a sum over the requests does when one of them changes.                *)
(* SumFunctionOnSet is defined by recursion over the subsets of its indices;  *)
(* that it does not depend on the order the library picks them in is proved   *)
(* first, by induction in the form that takes a set for the hypothesis.       *)
LEMMA LeastNumber ==
  ASSUME NEW N, N \subseteq Nat, N # {}
  PROVE  \E n \in N : \A m \in N : n <= m
<1>1. PICK n \in N : \A m \in N : <<m, n>> \notin OpToRel(<, Nat)
  BY NatLessThanWellFounded, WFMin
<1>2. \A m \in N : ~(m < n)
  BY <1>1 DEF OpToRel
<1> QED
  BY <1>2

(* A set of subsets that has a set whenever it has all smaller ones has all.  *)
LEMMA SubsetInduction ==
  ASSUME NEW S, IsFiniteSet(S), NEW Good,
         \A s \in SUBSET S : (\A r \in SUBSET s : r # s => r \in Good) => s \in Good
  PROVE  \A s \in SUBSET S : s \in Good
<1> DEFINE Sizes == {Cardinality(s) : s \in {s \in SUBSET S : s \notin Good}}
<1>1. \A s \in SUBSET S : IsFiniteSet(s) /\ Cardinality(s) \in Nat
  BY FS_Subset, FS_CardinalityType
<1>2. SUFFICES ASSUME Sizes # {} PROVE FALSE
  OBVIOUS
<1>3. PICK n \in Sizes : \A m \in Sizes : n <= m
  <2>1. Sizes \subseteq Nat
    BY <1>1
  <2> HIDE DEF Sizes
  <2> QED
    BY <1>2, <2>1, LeastNumber
<1>4. PICK s \in SUBSET S : s \notin Good /\ Cardinality(s) = n
  BY <1>3
<1>5. ASSUME NEW r \in SUBSET s, r # s PROVE r \in Good
  <2>1. Cardinality(r) <= Cardinality(s) /\ Cardinality(r) # Cardinality(s)
    BY <1>1, <1>5, FS_Subset
  <2>2. r \in SUBSET S /\ Cardinality(r) \in Nat /\ n \in Nat
    BY <1>1, <1>4
  <2>3. r \notin Good => n <= Cardinality(r)
    BY <1>3, <2>2
  <2> QED
    BY <1>4, <2>1, <2>2, <2>3
<1> QED
  BY <1>4, <1>5

-----------------------------------------------------------------------------
(* The recursion of the library, as an equation.                              *)
Picked(s) == CHOOSE x \in s : TRUE
Step(f, s, sum) == IF s = {} THEN 0 ELSE f[Picked(s)] + sum[s \ {Picked(s)}]
Accumulates(sum, f, S) == sum = [s \in SUBSET S |-> Step(f, s, sum)]

LEMMA SumIsAccumulated ==
  ASSUME NEW f, NEW S
  PROVE  SumFunctionOnSet(f, S) = (CHOOSE sum : Accumulates(sum, f, S))[S]
BY DEF SumFunctionOnSet, FoldFunctionOnSet, MapThenFoldSet, Accumulates, Step, Picked

LEMMA PickedIn == ASSUME NEW s, s # {} PROVE Picked(s) \in s
BY DEF Picked

(* There is such a function: one for the subsets of each size after another.  *)
LEMMA SumExists ==
  ASSUME NEW f, NEW S, IsFiniteSet(S)
  PROVE  \E sum : Accumulates(sum, f, S)
<1> DEFINE UpTo(n) == {s \in SUBSET S : Cardinality(s) <= n}
           Fits(sum, n) == sum = [s \in UpTo(n) |-> Step(f, s, sum)]
           Missing == {n \in Nat : ~\E sum : Fits(sum, n)}
<1>1. \A s \in SUBSET S : IsFiniteSet(s) /\ Cardinality(s) \in Nat
  BY FS_Subset, FS_CardinalityType
<1>2. Cardinality(S) \in Nat /\ UpTo(Cardinality(S)) = SUBSET S
  BY <1>1, FS_Subset
<1>3. 0 \notin Missing
  <2>1. \A s \in UpTo(0) : s = {}
    BY <1>1, FS_EmptySet
  <2>2. Fits([s \in UpTo(0) |-> 0], 0)
    BY <2>1 DEF Step
  <2> QED
    BY <2>2
<1>4. ASSUME NEW n \in Nat, n \notin Missing PROVE n + 1 \notin Missing
  <2>1. PICK sum : Fits(sum, n)
    BY <1>4
  <2> DEFINE next == [s \in UpTo(n + 1) |-> Step(f, s, sum)]
  <2>2. \A s \in UpTo(n) : s \in UpTo(n + 1) /\ next[s] = sum[s]
    BY <1>1, <2>1
  <2>3. ASSUME NEW s \in UpTo(n + 1), s # {}
        PROVE  s \ {Picked(s)} \in UpTo(n)
    <3>1. Cardinality(s \ {Picked(s)}) = Cardinality(s) - 1
      BY <1>1, <2>3, PickedIn, FS_RemoveElement
    <3> QED
      BY <1>1, <2>3, <3>1
  <2>4. \A s \in UpTo(n + 1) : Step(f, s, next) = Step(f, s, sum)
    BY <2>2, <2>3 DEF Step
  <2>5. Fits(next, n + 1)
    BY <2>4
  <2> QED
    BY <2>5
<1>5. Missing = {}
  <2> HIDE DEF Missing
  <2>1. SUFFICES ASSUME Missing # {} PROVE FALSE
    OBVIOUS
  <2>2. Missing \subseteq Nat
    BY DEF Missing
  <2>3. PICK n \in Missing : \A m \in Missing : n <= m
    BY <2>1, <2>2, LeastNumber
  <2>4. n \in Nat /\ n # 0 /\ n - 1 \in Nat /\ n - 1 \notin Missing
    BY <1>3, <2>2, <2>3
  <2>5. (n - 1) + 1 \notin Missing /\ (n - 1) + 1 = n
    BY <1>4, <2>4
  <2> QED
    BY <2>3, <2>5
<1>6. PICK sum : Fits(sum, Cardinality(S))
  BY <1>2, <1>5
<1> QED
  BY <1>2, <1>6 DEF Accumulates

LEMMA SumAccumulates ==
  ASSUME NEW f, NEW S, IsFiniteSet(S)
  PROVE  \E sum : Accumulates(sum, f, S) /\ SumFunctionOnSet(f, S) = sum[S]
BY SumExists, SumIsAccumulated

(* On a set of indices two sums agree if their summands do.                   *)
LEMMA AgreeingSums ==
  ASSUME NEW f, NEW g, NEW S, NEW T, NEW sum, NEW tum,
         Accumulates(sum, f, S), Accumulates(tum, g, T),
         NEW R \in SUBSET (S \cap T), IsFiniteSet(R), \A x \in R : f[x] = g[x]
  PROVE  sum[R] = tum[R]
<1> DEFINE Good == {s \in SUBSET R : sum[s] = tum[s]}
<1>1. ASSUME NEW s \in SUBSET R, \A r \in SUBSET s : r # s => r \in Good
      PROVE  s \in Good
  <2>1. sum[s] = Step(f, s, sum) /\ tum[s] = Step(g, s, tum)
    BY DEF Accumulates
  <2>2. CASE s = {}
    BY <2>1, <2>2 DEF Step
  <2>3. CASE s # {}
    <3>1. Picked(s) \in s
      BY <2>3, PickedIn
    <3>2. s \ {Picked(s)} \in Good
      BY <1>1, <3>1
    <3> QED
      BY <2>1, <2>3, <3>1, <3>2 DEF Step
  <2> QED
    BY <2>2, <2>3
<1>2. R \in Good
  <2> HIDE DEF Good
  <2> QED
    BY <1>1, SubsetInduction
<1> QED
  BY <1>2

LEMMA NaturalSums ==
  ASSUME NEW f, NEW S, NEW sum, Accumulates(sum, f, S), IsFiniteSet(S),
         \A x \in S : f[x] \in Nat
  PROVE  \A s \in SUBSET S : sum[s] \in Nat
<1> DEFINE Good == {s \in SUBSET S : sum[s] \in Nat}
<1>1. ASSUME NEW s \in SUBSET S, \A r \in SUBSET s : r # s => r \in Good
      PROVE  s \in Good
  <2>1. sum[s] = Step(f, s, sum)
    BY DEF Accumulates
  <2>2. CASE s = {}
    BY <2>1, <2>2 DEF Step
  <2>3. CASE s # {}
    <3>1. Picked(s) \in s
      BY <2>3, PickedIn
    <3>2. s \ {Picked(s)} \in Good
      BY <1>1, <3>1
    <3> QED
      BY <2>1, <2>3, <3>1, <3>2 DEF Step
  <2> QED
    BY <2>2, <2>3
<1>2. \A s \in SUBSET S : s \in Good
  <2> HIDE DEF Good
  <2> QED
    BY <1>1, SubsetInduction
<1> QED
  BY <1>2

(* Any index may be the one that is added last.                               *)
LEMMA AnyIndexLast ==
  ASSUME NEW f, NEW S, NEW sum, Accumulates(sum, f, S), IsFiniteSet(S),
         \A x \in S : f[x] \in Nat
  PROVE  \A s \in SUBSET S : \A x \in s : sum[s] = f[x] + sum[s \ {x}]
<1> DEFINE Good == {s \in SUBSET S : \A x \in s : sum[s] = f[x] + sum[s \ {x}]}
<1>1. ASSUME NEW s \in SUBSET S, \A r \in SUBSET s : r # s => r \in Good, NEW x \in s
      PROVE  sum[s] = f[x] + sum[s \ {x}]
  <2> DEFINE p == Picked(s)
  <2>1. p \in s
    BY PickedIn
  <2>2. sum[s] = f[p] + sum[s \ {p}]
    BY DEF Accumulates, Step
  <2>3. CASE p = x
    BY <2>2, <2>3
  <2>4. CASE p # x
    <3>1. s \ {p} \in Good /\ x \in s \ {p} /\ s \ {x} \in Good /\ p \in s \ {x}
      BY <1>1, <2>1, <2>4
    <3>2. sum[s \ {p}] = f[x] + sum[(s \ {p}) \ {x}]
      BY <3>1
    <3>3. sum[s \ {x}] = f[p] + sum[(s \ {x}) \ {p}]
      BY <3>1
    <3>4. (s \ {p}) \ {x} = (s \ {x}) \ {p}
      OBVIOUS
    <3> DEFINE others == sum[(s \ {x}) \ {p}]
    <3>5. /\ f[p] \in Nat /\ f[x] \in Nat /\ others \in Nat
      BY <2>1, NaturalSums
    <3>6. sum[s \ {p}] = f[x] + others /\ sum[s \ {x}] = f[p] + others
      BY <3>2, <3>3, <3>4
    <3> HIDE DEF others, p
    <3> QED
      BY <2>2, <3>5, <3>6
  <2> QED
    BY <2>3, <2>4
<1>2. ASSUME NEW s \in SUBSET S, \A r \in SUBSET s : r # s => r \in Good
      PROVE  s \in Good
  BY <1>1, <1>2
<1>3. \A s \in SUBSET S : s \in Good
  <2> HIDE DEF Good
  <2> QED
    BY <1>2, SubsetInduction
<1> QED
  BY <1>3

-----------------------------------------------------------------------------
(* The facts the other proofs use.                                            *)

(* A sum of natural numbers is one.                                           *)
LEMMA SumIsNatural ==
  ASSUME NEW f, NEW S, IsFiniteSet(S), \A x \in S : f[x] \in Nat
  PROVE  SumFunctionOnSet(f, S) \in Nat
<1>1. PICK sum : Accumulates(sum, f, S) /\ SumFunctionOnSet(f, S) = sum[S]
  BY SumAccumulates
<1> QED
  BY <1>1, NaturalSums

(* Each index contributes its summand.                                        *)
LEMMA SumSplits ==
  ASSUME NEW f, NEW S, IsFiniteSet(S), \A x \in S : f[x] \in Nat, NEW t \in S
  PROVE  SumFunctionOnSet(f, S) = f[t] + SumFunctionOnSet(f, S \ {t})
<1>1. PICK sum : Accumulates(sum, f, S) /\ SumFunctionOnSet(f, S) = sum[S]
  BY SumAccumulates
<1>2. IsFiniteSet(S \ {t})
  BY FS_RemoveElement
<1>3. PICK rest : /\ Accumulates(rest, f, S \ {t})
                  /\ SumFunctionOnSet(f, S \ {t}) = rest[S \ {t}]
  BY <1>2, SumAccumulates
<1>4. sum[S \ {t}] = rest[S \ {t}]
  <2>1. S \ {t} \in SUBSET (S \cap (S \ {t}))
    OBVIOUS
  <2> QED
    BY <2>1, <1>1, <1>2, <1>3, AgreeingSums
<1>5. sum[S] = f[t] + sum[S \ {t}]
  BY <1>1, AnyIndexLast
<1> QED
  BY <1>1, <1>3, <1>4, <1>5

(* Equal summands, equal sums.                                                *)
LEMMA SumsAgree ==
  ASSUME NEW f, NEW g, NEW S, IsFiniteSet(S), \A x \in S : f[x] = g[x]
  PROVE  SumFunctionOnSet(f, S) = SumFunctionOnSet(g, S)
<1>1. PICK sum : Accumulates(sum, f, S) /\ SumFunctionOnSet(f, S) = sum[S]
  BY SumAccumulates
<1>2. PICK tum : Accumulates(tum, g, S) /\ SumFunctionOnSet(g, S) = tum[S]
  BY SumAccumulates
<1>3. S \in SUBSET (S \cap S)
  OBVIOUS
<1>4. sum[S] = tum[S]
  BY <1>1, <1>2, <1>3, AgreeingSums
<1> QED
  BY <1>1, <1>2, <1>4

(* A sum moves by what one summand moves by.                                  *)
LEMMA SumMoves ==
  ASSUME NEW f, NEW g, NEW S, IsFiniteSet(S), NEW t \in S,
         \A x \in S : f[x] \in Nat /\ g[x] \in Nat,
         \A x \in S \ {t} : f[x] = g[x]
  PROVE  SumFunctionOnSet(g, S) + f[t] = SumFunctionOnSet(f, S) + g[t]
<1>1. IsFiniteSet(S \ {t})
  BY FS_RemoveElement
<1>2. SumFunctionOnSet(f, S \ {t}) = SumFunctionOnSet(g, S \ {t})
  BY <1>1, SumsAgree
<1>3. SumFunctionOnSet(f, S \ {t}) \in Nat
  BY <1>1, SumIsNatural
<1>4. /\ SumFunctionOnSet(f, S) = f[t] + SumFunctionOnSet(f, S \ {t})
      /\ SumFunctionOnSet(g, S) = g[t] + SumFunctionOnSet(g, S \ {t})
  BY SumSplits
<1> QED
  BY <1>2, <1>3, <1>4

(* Larger summands, larger sum.                                               *)
LEMMA SumGrows ==
  ASSUME NEW f, NEW g, NEW S, IsFiniteSet(S),
         \A x \in S : f[x] \in Nat /\ g[x] \in Nat /\ f[x] <= g[x]
  PROVE  SumFunctionOnSet(f, S) <= SumFunctionOnSet(g, S)
<1>1. PICK sum : Accumulates(sum, f, S) /\ SumFunctionOnSet(f, S) = sum[S]
  BY SumAccumulates
<1>2. PICK tum : Accumulates(tum, g, S) /\ SumFunctionOnSet(g, S) = tum[S]
  BY SumAccumulates
<1>3. \A s \in SUBSET S : sum[s] \in Nat /\ tum[s] \in Nat
  BY <1>1, <1>2, NaturalSums
<1> DEFINE Good == {s \in SUBSET S : sum[s] <= tum[s]}
<1>4. ASSUME NEW s \in SUBSET S, \A r \in SUBSET s : r # s => r \in Good
      PROVE  s \in Good
  <2>1. sum[s] = Step(f, s, sum) /\ tum[s] = Step(g, s, tum)
    BY <1>1, <1>2 DEF Accumulates
  <2>2. CASE s = {}
    BY <2>1, <2>2 DEF Step
  <2>3. CASE s # {}
    <3>1. Picked(s) \in s
      BY <2>3, PickedIn
    <3> DEFINE x == Picked(s)
               r == s \ {x}
    <3>2. r \in Good /\ r \in SUBSET S
      BY <1>4, <3>1
    <3>3. sum[s] = f[x] + sum[r] /\ tum[s] = g[x] + tum[r]
      BY <2>1, <2>3 DEF Step
    <3>4. /\ f[x] \in Nat /\ g[x] \in Nat /\ f[x] <= g[x]
          /\ sum[r] \in Nat /\ tum[r] \in Nat /\ sum[r] <= tum[r]
      BY <1>3, <3>1, <3>2
    <3> HIDE DEF x, r
    <3>5. sum[s] <= tum[s]
      BY <3>3, <3>4
    <3> QED
      BY <3>5
  <2> QED
    BY <2>2, <2>3
<1>5. S \in Good
  <2> HIDE DEF Good
  <2> QED
    BY <1>4, SubsetInduction
<1> QED
  BY <1>1, <1>2, <1>5

(* Summands of 0 sum up to 0.                                                 *)
LEMMA SumOfZeros ==
  ASSUME NEW f, NEW S, IsFiniteSet(S), \A x \in S : f[x] = 0
  PROVE  SumFunctionOnSet(f, S) = 0
<1>1. PICK sum : Accumulates(sum, f, S) /\ SumFunctionOnSet(f, S) = sum[S]
  BY SumAccumulates
<1> DEFINE Good == {s \in SUBSET S : sum[s] = 0}
<1>2. ASSUME NEW s \in SUBSET S, \A r \in SUBSET s : r # s => r \in Good
      PROVE  s \in Good
  <2>1. sum[s] = Step(f, s, sum)
    BY <1>1 DEF Accumulates
  <2>2. CASE s = {}
    BY <2>1, <2>2 DEF Step
  <2>3. CASE s # {}
    <3>1. Picked(s) \in s
      BY <2>3, PickedIn
    <3>2. s \ {Picked(s)} \in Good
      BY <1>2, <3>1
    <3> QED
      BY <2>1, <2>3, <3>1, <3>2 DEF Step
  <2> QED
    BY <2>2, <2>3
<1>3. S \in Good
  <2> HIDE DEF Good
  <2> QED
    BY <1>2, SubsetInduction
<1> QED
  BY <1>1, <1>3

-----------------------------------------------------------------------------
(* What a request at its present stretch knows of its action.                 *)
Active(o) == slot[o].pc # "idle"
Unsettled == {"logging", "saving_receipt", "saving_transcript", "calling"}
Begun == {"saving_transcript", "calling"}
SlotFits(o) ==
  LET t == slot[o].turn
      pc == slot[o].pc
  IN  /\ Active(o) => /\ state.receipts[t].status # "none"
                      /\ state.receipts[t].callId = slot[o].callId
      /\ pc = "saving_transcript" => t = 0
      /\ pc \in Begun => state.exists
      /\ pc = "calling" => t <= Len(state.turns) /\ slot[o].tries <= MaxProviderAttempts
                           /\ slot[o].call \in Calls
      /\ pc \in Unsettled \ {"calling"} => slot[o].tries = 0
      /\ pc = "saving_result" => Has(state, t, slot[o].call)
      /\ pc = "answering" => Has(disk, t, slot[o].call)
SlotsFit == \A o \in Slots : SlotFits(o)

(* The file, the write in progress and the memory follow each other: each     *)
(* transcript continues the one before it.                                    *)
Follows(new, old) == \A i \in DOMAIN old.turns : i \in DOMAIN new.turns /\ new.turns[i] = old.turns[i]
WritesFollow ==
  /\ Follows(state, disk)
  /\ writing.by # None =>
       /\ Follows(writing.what, disk) /\ Follows(state, writing.what)
       /\ slot[writing.by].pc = "saving_result" =>
            Has(writing.what, slot[writing.by].turn, slot[writing.by].call)

(* In a state object, the turns are in their order unless one is there twice, *)
(* and a receipt is refused because the transcript lacks the answer it names, *)
(* or because a turn is there twice.                                          *)
InOrder(s) == \A i \in DOMAIN s.turns : s.turns[i].turn = i - 1
RefusedRightly(s, t) ==
  Refused(s, t) => Doubled(s) \/ ~Has(s, t - 1, s.receipts[t].callId)
Sound(s) ==
  /\ Doubled(s) \/ InOrder(s)
  /\ Len(s.turns) > 0 => s.exists
  /\ \A t \in Turn \ {0} : RefusedRightly(s, t)
AllSound == Sound(state) /\ Sound(disk) /\ Sound(writing.what)

(* Responses are numbered as they are asked for; the number of a request that *)
(* is being made is not known to anyone else.                                 *)
Names(s, n) ==
  \/ \E t \in Turn : s.receipts[t].callId = n \/ s.receipts[t].result = n
  \/ \E i \in DOMAIN s.turns : s.turns[i].result = n
Known(n) ==
  \/ Names(state, n)
  \/ \E t \in Turn : n \in told[t]
  \/ \E o \in Slots : slot[o].callId = n
KnownIsPast ==
  /\ \A n \in 0..MaxCalls : Known(n) \/ Names(disk, n) \/ Names(writing.what, n) => n <= calls
  /\ \A o \in Slots : slot[o].call <= calls
OpenIsNew ==
  \A o \in Slots : slot[o].pc = "calling" =>
    /\ ~Known(slot[o].call)
    /\ \A p \in Slots \ {o} : slot[p].call # slot[o].call

Inv == /\ TypeOK
       /\ SlotsFit
       /\ WritesFollow
       /\ AllSound
       /\ KnownIsPast
       /\ OpenIsNew
       /\ AnswersAreKept

-----------------------------------------------------------------------------
(* Types.                                                                     *)

LEMMA TurnType == ASSUME NEW t \in Turn PROVE t \in Nat /\ (t # 0 => t - 1 \in Turn)
BY GatewayAssumption DEF Turn, GatewayAssumption

LEMMA SlotType ==
  ASSUME TypeOK, NEW o \in Slots
  PROVE  /\ slot[o] \in Local
         /\ slot[o].turn \in Turn /\ slot[o].callId \in 0..MaxCalls
         /\ slot[o].call \in 0..MaxCalls /\ slot[o].tries \in Nat /\ slot[o].object \in Nat
         /\ slot[o] = [pc |-> slot[o].pc, turn |-> slot[o].turn, callId |-> slot[o].callId,
                       object |-> slot[o].object, tries |-> slot[o].tries, call |-> slot[o].call]
         /\ state.receipts[slot[o].turn] \in Receipt
BY DEF TypeOK, Local, State

LEMMA StateType ==
  ASSUME NEW s \in State
  PROVE  /\ s.turns \in Seq(TurnRecord)
         /\ Len(s.turns) \in Nat /\ DOMAIN s.turns = 1..Len(s.turns)
         /\ \A i \in DOMAIN s.turns : s.turns[i] \in TurnRecord
         /\ s.receipts \in [Turn -> Receipt]
         /\ s.exists \in BOOLEAN
         /\ s.requests \in Nat /\ s.unfinished \in Nat
         /\ s = [receipts |-> s.receipts, exists |-> s.exists, turns |-> s.turns,
                 requests |-> s.requests, unfinished |-> s.unfinished]
BY DEF State

LEMMA FreshStateType == FreshState \in State
BY GatewayAssumption, EmptySeq DEF FreshState, State, NoReceipt, Receipt, ReceiptStatus, GatewayAssumption

LEMMA IdleType == Idle \in Local /\ Idle.pc = "idle" /\ Idle.call = 0 /\ Idle.callId = 0
BY GatewayAssumption DEF Idle, Request, Local, Pc, Turn, GatewayAssumption

LEMMA CallIdType ==
  ASSUME TypeOK, NEW t \in Turn, NEW callId \in CallIds(t)
  PROVE  callId \in 0..MaxCalls
BY GatewayAssumption, TurnType DEF CallIds, TypeOK, Calls, GatewayAssumption

LEMMA InProgressType ==
  ASSUME NEW callId \in 0..MaxCalls, NEW existing \in Receipt
  PROVE  InProgress(callId, existing) \in Receipt
BY GatewayAssumption DEF InProgress, Receipt, ReceiptStatus, GatewayAssumption

(* A request that goes on is still well formed. *)
LEMMA MovedType ==
  ASSUME TypeOK, NEW o \in Slots, NEW q \in Local, slot' = [slot EXCEPT ![o] = q]
  PROVE  slot' \in [Slots -> Local]
BY DEF TypeOK

LEMMA Writer ==
  ASSUME TypeOK, NEW o \in Slots, NEW pc, Written(o, pc)
  PROVE  /\ o # None /\ writing.by = o /\ writing.by # None /\ slot[o].pc = pc
         /\ disk' = writing.what /\ disk' \in State /\ writing' = NoWrite
         /\ writing' \in [by : Slots \cup {None}, what : State] /\ writing'.by = None
BY FreshStateType, GatewayAssumption DEF TypeOK, Written, NoWrite, GatewayAssumption

(* A step that leaves the one who writes where it is, or ends the write.      *)
LEMMA WriterStays ==
  ASSUME TypeOK, \A p \in Slots : slot[p].pc \in Saving => slot'[p].pc = slot[p].pc,
         writing' = writing
  PROVE  writing'.by # None => slot'[writing'.by].pc \in Saving
BY DEF TypeOK

LEMMA BoundsType ==
  /\ MaxCalls \in Nat /\ MaxProviderAttempts \in Nat /\ 1 <= MaxProviderAttempts
  /\ 0 \in Turn /\ IsFiniteSet(Slots) /\ IsFiniteSet(Turn)
BY GatewayAssumption, FS_Interval DEF GatewayAssumption, Turn

LEMMA PcType == Saving \subseteq Pc /\ {"idle", "logging", "calling", "answering"} \subseteq Pc
BY DEF Pc

(* A receipt changes in a state object.                                       *)
LEMMA ReceiptChanges ==
  ASSUME NEW s \in State, NEW t \in Turn, NEW r \in Receipt
  PROVE  /\ [s EXCEPT !.receipts[t] = r] \in State
         /\ [s EXCEPT !.receipts[t] = r].receipts = [s.receipts EXCEPT ![t] = r]
         /\ [s EXCEPT !.receipts[t] = r].receipts[t] = r
         /\ [s EXCEPT !.receipts[t] = r].turns = s.turns
         /\ [s EXCEPT !.receipts[t] = r].exists = s.exists
         /\ [s EXCEPT !.receipts[t] = r].requests = s.requests
         /\ [s EXCEPT !.receipts[t] = r].unfinished = s.unfinished
BY StateType DEF State

LEMMA SettledType ==
  ASSUME TypeOK, NEW o \in Slots, NEW status \in {"completed", "retryable"},
         NEW result \in 0..MaxCalls
  PROVE  /\ Settled(o, status, result) \in Receipt
         /\ Settled(o, status, result).callId = state.receipts[slot[o].turn].callId
         /\ Settled(o, status, result).status \in {status, state.receipts[slot[o].turn].status}
         /\ Settled(o, status, result).result \in {result, state.receipts[slot[o].turn].result}
BY SlotType DEF Settled, Receipt, ReceiptStatus

(* What each action does, in one formula per action: the request, the file    *)
(* and the memory after it.  The first lemma says what Receive does.          *)
LEMMA ReceiveDoes ==
  ASSUME TypeOK, NEW o \in Slots, NEW t \in Turn, NEW callId \in CallIds(t), Receive(o, t, callId)
  PROVE  /\ TypeOK'
         /\ slot[o].pc = "idle" /\ slot'[o].turn = t /\ slot'[o].callId = callId
         /\ slot'[o].tries = 0 /\ slot'[o].call = 0
         /\ \A p \in Slots \ {o} : slot'[p] = slot[p]
         /\ state'.turns = state.turns /\ state'.exists = state.exists
         /\ state'.requests = state.requests
         /\ \/ /\ state.receipts[t].status = "none"
               /\ slot'[o].pc = "saving_receipt"
               /\ state'.receipts = [state.receipts EXCEPT ![t] = InProgress(callId, state.receipts[t])]
               /\ state'.unfinished = state.unfinished
            \/ /\ state.receipts[t].status # "none" /\ state.receipts[t].callId = callId
               /\ slot'[o].pc = "logging"
               /\ state'.receipts = state.receipts
               /\ state'.unfinished = state.unfinished + 1
<1>1. state \in State /\ state.receipts[t] \in Receipt /\ callId \in 0..MaxCalls
  BY CallIdType DEF TypeOK, State
<1>2. \A pc \in Pc : /\ Request(pc, t, callId) \in Local
                     /\ Request(pc, t, callId).pc = pc /\ Request(pc, t, callId).turn = t
                     /\ Request(pc, t, callId).callId = callId
                     /\ Request(pc, t, callId).tries = 0 /\ Request(pc, t, callId).call = 0
  BY <1>1, BoundsType DEF Request, Local
<1>3. slot \in [Slots -> Local] /\ slot[o].pc = "idle"
  BY DEF TypeOK, Receive
<1>4. writing.by # o
  BY <1>3, GatewayAssumption DEF TypeOK, Saving, GatewayAssumption
<1>5. CASE state.receipts[t].status = "none"
  <2>1. /\ slot' = [slot EXCEPT ![o] = Request("saving_receipt", t, callId)]
        /\ state' = [state EXCEPT !.receipts[t] = InProgress(callId, state.receipts[t])]
    BY <1>5 DEF Receive
  <2>2. slot' \in [Slots -> Local] /\ slot'[o] = Request("saving_receipt", t, callId)
        /\ \A p \in Slots \ {o} : slot'[p] = slot[p]
    BY <2>1, <1>2, <1>3, PcType DEF Saving
  <2>3. InProgress(callId, state.receipts[t]) \in Receipt
    BY <1>1, InProgressType
  <2>4. /\ state' \in State
        /\ state'.receipts = [state.receipts EXCEPT ![t] = InProgress(callId, state.receipts[t])]
        /\ state'.turns = state.turns /\ state'.exists = state.exists
        /\ state'.requests = state.requests /\ state'.unfinished = state.unfinished
    BY <2>1, <2>3, <1>1, ReceiptChanges
  <2>5. writing.by # None => slot'[writing.by].pc \in Saving
    BY <2>2, <1>4 DEF TypeOK
  <2>6. TypeOK'
    BY <2>2, <2>4, <2>5 DEF TypeOK, Receive
  <2> QED
    BY <2>2, <2>4, <2>6, <1>2, <1>3, <1>5, PcType DEF Saving
<1>6. CASE state.receipts[t].status # "none"
  <2>1. /\ slot' = [slot EXCEPT ![o] = Request("logging", t, callId)]
        /\ state' = [state EXCEPT !.unfinished = state.unfinished + 1]
        /\ state.receipts[t].callId = callId
    BY <1>6 DEF Receive, RetryCounted
  <2>2. slot' \in [Slots -> Local] /\ slot'[o] = Request("logging", t, callId)
        /\ \A p \in Slots \ {o} : slot'[p] = slot[p]
    BY <2>1, <1>2, <1>3, PcType
  <2>3. /\ state' \in State
        /\ state'.receipts = state.receipts
        /\ state'.turns = state.turns /\ state'.exists = state.exists
        /\ state'.requests = state.requests /\ state'.unfinished = state.unfinished + 1
    BY <2>1, <1>1 DEF State
  <2>4. writing.by # None => slot'[writing.by].pc \in Saving
    BY <2>2, <1>4 DEF TypeOK
  <2>5. TypeOK'
    BY <2>2, <2>3, <2>4 DEF TypeOK, Receive
  <2> QED
    BY <2>1, <2>2, <2>3, <2>5, <1>2, <1>3, <1>6, PcType
<1> QED
  BY <1>5, <1>6

LEMMA LoggedDoes ==
  ASSUME TypeOK, NEW o \in Slots, Logged(o)
  PROVE  /\ TypeOK'
         /\ slot[o].pc = "logging" /\ slot' = [slot EXCEPT ![o].pc = "saving_receipt"]
         /\ state'.turns = state.turns /\ state'.exists = state.exists
         /\ state'.requests = state.requests /\ state'.unfinished = state.unfinished
         /\ state'.receipts = [state.receipts EXCEPT ![slot[o].turn] =
                                 InProgress(slot[o].callId, state.receipts[slot[o].turn])]
<1> DEFINE t == slot[o].turn
<1>1. /\ slot[o].pc = "logging" /\ slot' = [slot EXCEPT ![o].pc = "saving_receipt"]
      /\ state' = [state EXCEPT !.receipts[t] = InProgress(slot[o].callId, state.receipts[t])]
  BY DEF Logged
<1>2. InProgress(slot[o].callId, state.receipts[t]) \in Receipt /\ t \in Turn /\ state \in State
  BY SlotType, InProgressType DEF TypeOK
<1>3. /\ state' \in State
      /\ state'.receipts = [state.receipts EXCEPT ![t] = InProgress(slot[o].callId, state.receipts[t])]
      /\ state'.turns = state.turns /\ state'.exists = state.exists
      /\ state'.requests = state.requests /\ state'.unfinished = state.unfinished
  BY <1>1, <1>2, ReceiptChanges
<1>4. slot' \in [Slots -> Local]
  BY <1>1, PcType DEF TypeOK, Local, Saving
<1>5. \A p \in Slots : slot[p].pc \in Saving => slot'[p].pc = slot[p].pc
  BY <1>1 DEF TypeOK, Saving
<1>6. writing'.by # None => slot'[writing'.by].pc \in Saving
  BY <1>5, WriterStays DEF Logged
<1>7. TypeOK'
  BY <1>3, <1>4, <1>6 DEF TypeOK, Logged
<1> QED
  BY <1>1, <1>3, <1>7

LEMMA ReplayReceiptDoes ==
  ASSUME TypeOK, NEW t \in Turn, ReplayReceipt(t)
  PROVE  /\ TypeOK'
         /\ state' = state /\ disk' = disk /\ writing' = writing /\ slot' = slot /\ calls' = calls
         /\ delivered' = delivered
         /\ state.receipts[t].status = "completed"
         /\ told' = [told EXCEPT ![t] = @ \cup {state.receipts[t].result}]

<1>1. told' \in [Turn -> SUBSET (0..MaxCalls)]
  BY DEF ReplayReceipt, TypeOK, State, Receipt
<1> QED
  BY <1>1 DEF ReplayReceipt, TypeOK

LEMMA StartWriteDoes ==
  ASSUME TypeOK, NEW o \in Slots, StartWrite(o)
  PROVE  /\ TypeOK'
         /\ state' = state /\ disk' = disk /\ slot' = slot /\ calls' = calls
         /\ delivered' = delivered /\ told' = told
         /\ writing.by = None /\ slot[o].pc \in Saving
         /\ writing'.by = o /\ writing'.by # None /\ writing'.what = state
<1>1. writing.by = None
  BY DEF StartWrite, NoWrite
<1>2. /\ writing' = [by |-> o, what |-> state] /\ o # None
  BY GatewayAssumption DEF StartWrite, Snapshot, GatewayAssumption
<1>3. TypeOK'
  BY <1>2 DEF StartWrite, TypeOK
<1> QED
  BY <1>1, <1>2, <1>3 DEF StartWrite

(* A call goes out, the first of its operation or a repetition.               *)
LEMMA SendingDoes ==
  ASSUME TypeOK, NEW o \in Slots, NEW object \in Nat, NEW tries \in Nat, calls < MaxCalls,
         calls' = calls + 1, slot' = [slot EXCEPT ![o] = Sending(o, object, tries)]
  PROVE  /\ slot' \in [Slots -> Local] /\ calls' \in 0..MaxCalls
         /\ slot'[o].pc = "calling" /\ slot'[o].turn = slot[o].turn
         /\ slot'[o].callId = slot[o].callId /\ slot'[o].tries = tries
         /\ slot'[o].call = calls + 1 /\ slot'[o].call \in Calls
         /\ \A p \in Slots \ {o} : slot'[p] = slot[p]
<1>1. calls \in 0..MaxCalls /\ calls + 1 \in 0..MaxCalls /\ calls + 1 \in Calls
  BY BoundsType DEF TypeOK, Calls
<1>2. Sending(o, object, tries) \in Local
  BY <1>1, SlotType, PcType DEF Sending, Local
<1>3. slot'[o] = Sending(o, object, tries) /\ \A p \in Slots \ {o} : slot'[p] = slot[p]
  BY DEF TypeOK
<1> QED
  BY <1>1, <1>2, <1>3, MovedType DEF Sending

LEMMA RepeatRequestDoes ==
  ASSUME TypeOK, NEW o \in Slots, RepeatRequest(o)
  PROVE  /\ TypeOK'
         /\ state' = state /\ disk' = disk /\ writing' = writing /\ calls' = calls + 1
         /\ delivered' = delivered /\ told' = told
         /\ slot[o].pc = "calling" /\ slot'[o].pc = "calling"
         /\ slot'[o].turn = slot[o].turn /\ slot'[o].callId = slot[o].callId
         /\ slot[o].tries < MaxProviderAttempts /\ slot'[o].tries = slot[o].tries + 1
         /\ slot'[o].call = calls + 1 /\ slot'[o].call \in Calls
         /\ \A p \in Slots \ {o} : slot'[p] = slot[p]
<1>0. slot[o].object \in Nat /\ slot[o].tries \in Nat
  BY SlotType
<1>1. slot[o].tries + 1 \in Nat
  BY <1>0
<1>2. /\ slot' \in [Slots -> Local] /\ calls' \in 0..MaxCalls
      /\ slot'[o].pc = "calling" /\ slot'[o].turn = slot[o].turn
      /\ slot'[o].callId = slot[o].callId /\ slot'[o].tries = slot[o].tries + 1
      /\ slot'[o].call = calls + 1 /\ slot'[o].call \in Calls
      /\ \A p \in Slots \ {o} : slot'[p] = slot[p]
  BY <1>0, <1>1, SendingDoes DEF RepeatRequest
<1>3. \A p \in Slots : slot[p].pc \in Saving => slot'[p].pc = slot[p].pc
  BY <1>2 DEF RepeatRequest, Saving
<1>4. writing'.by # None => slot'[writing'.by].pc \in Saving
  BY <1>3, WriterStays DEF RepeatRequest
<1>5. TypeOK'
  BY <1>2, <1>4 DEF RepeatRequest, TypeOK
<1> QED
  BY <1>2, <1>5 DEF RepeatRequest

LEMMA CallProviderDoes ==
  ASSUME TypeOK, NEW o \in Slots, CallProvider(o)
  PROVE  /\ slot' \in [Slots -> Local] /\ calls' \in 0..MaxCalls /\ calls' = calls + 1
         /\ slot'[o].pc = "calling" /\ slot'[o].turn = slot[o].turn
         /\ slot'[o].callId = slot[o].callId /\ slot'[o].tries = 1
         /\ slot'[o].call = calls + 1 /\ slot'[o].call \in Calls
         /\ \A p \in Slots \ {o} : slot'[p] = slot[p]
<1> DEFINE object == state.receipts[slot[o].turn].object
<1>1. object \in Nat /\ 1 \in Nat
  BY SlotType DEF Receipt
<1>2. calls < MaxCalls /\ calls' = calls + 1 /\ slot' = [slot EXCEPT ![o] = Sending(o, object, 1)]
  BY DEF CallProvider
<1> HIDE DEF object
<1>3. /\ slot' \in [Slots -> Local] /\ calls' \in 0..MaxCalls
      /\ slot'[o].pc = "calling" /\ slot'[o].turn = slot[o].turn
      /\ slot'[o].callId = slot[o].callId /\ slot'[o].tries = 1
      /\ slot'[o].call = calls + 1 /\ slot'[o].call \in Calls
      /\ \A p \in Slots \ {o} : slot'[p] = slot[p]
  BY ONLY TypeOK, <1>1, <1>2, SendingDoes
<1> QED
  BY <1>2, <1>3

(* The four ways on from a receipt that is on disk.                           *)
MakesLoop(o) ==
  /\ slot[o].turn = 0
  /\ state' = [state EXCEPT !.exists = TRUE]
  /\ slot' = [slot EXCEPT ![o].pc = "saving_transcript"]
  /\ calls' = calls
Calling(o) ==
  /\ slot[o].turn = 0 \/ Continues(slot[o].turn, slot[o].callId)
  /\ state.exists
  /\ state' = state
  /\ CallProvider(o)
Finds(o) ==
  \E i \in DOMAIN state.turns :
    /\ state.turns[i].turn = slot[o].turn
    /\ state' = [state EXCEPT !.receipts[slot[o].turn] =
                   [state.receipts[slot[o].turn] EXCEPT !.status = "completed",
                                                        !.result = state.turns[i].result]]
    /\ slot' = [slot EXCEPT ![o].pc = "saving_result", ![o].call = state.turns[i].result]
    /\ calls' = calls
Refuses(o) ==
  /\ slot[o].turn # 0 /\ ~Continues(slot[o].turn, slot[o].callId)
  /\ state.exists /\ Len(state.turns) # slot[o].turn => PriorTurn(slot[o].turn) = {}
  /\ state' = [state EXCEPT !.receipts[slot[o].turn] =
                 [state.receipts[slot[o].turn] EXCEPT !.status = "rejected"]]
  /\ slot' = [slot EXCEPT ![o].pc = "saving_failure"]
  /\ calls' = calls

LEMMA WaysOn ==
  ASSUME TypeOK, NEW o \in Slots, BeginTurn(o)
  PROVE  /\ Written(o, "saving_receipt") /\ delivered' = delivered /\ told' = told
         /\ MakesLoop(o) \/ Calling(o) \/ Finds(o) \/ Refuses(o)
<1> DEFINE t == slot[o].turn
           prior == IF state.exists /\ Len(state.turns) # t THEN PriorTurn(t) ELSE {}
<1>1. Written(o, "saving_receipt") /\ delivered' = delivered /\ told' = told
  BY DEF BeginTurn
<1>2. CASE t = 0 /\ ~state.exists
  BY <1>2 DEF BeginTurn, MakesLoop
<1>3. CASE ~(t = 0 /\ ~state.exists) /\ (t = 0 \/ Continues(t, slot[o].callId))
  <2>1. state.exists
    BY <1>3 DEF Continues
  <2> QED
    BY <2>1, <1>3 DEF BeginTurn, Calling
<1>4. CASE t # 0 /\ ~Continues(t, slot[o].callId) /\ prior # {}
  <2> DEFINE i == CHOOSE i \in prior : \A j \in prior : i <= j
  <2>1. prior \subseteq PriorTurn(t)
    OBVIOUS
  <2>2. prior \subseteq Nat
    BY StateType DEF PriorTurn, TypeOK
  <2>3. i \in prior
    BY <1>4, <2>2, LeastNumber
  <2>4. i \in DOMAIN state.turns /\ state.turns[i].turn = t
    <3> HIDE DEF i, prior
    <3>1. i \in PriorTurn(t)
      BY <2>1, <2>3
    <3> QED
      BY <3>1 DEF PriorTurn
  <2>5. /\ state' = [state EXCEPT !.receipts[t] =
                       [state.receipts[t] EXCEPT !.status = "completed",
                                                 !.result = state.turns[i].result]]
        /\ slot' = [slot EXCEPT ![o].pc = "saving_result", ![o].call = state.turns[i].result]
        /\ calls' = calls
    BY <1>4 DEF BeginTurn
  <2> HIDE DEF i
  <2> QED
    BY <1>1, <2>4, <2>5 DEF Finds
<1>5. CASE t # 0 /\ ~Continues(t, slot[o].callId) /\ prior = {}
  <2>1. /\ state' = [state EXCEPT !.receipts[t].status = "rejected"]
        /\ slot' = [slot EXCEPT ![o].pc = "saving_failure"]
        /\ calls' = calls
    BY <1>5 DEF BeginTurn
  <2> QED
    BY <1>1, <1>5, <2>1 DEF Refuses
<1> QED
  BY <1>2, <1>3, <1>4, <1>5

(* The types after each of them, with what becomes of the memory.             *)
LEMMA MakesLoopDoes ==
  ASSUME TypeOK, NEW o \in Slots, slot[o].pc = "saving_receipt", MakesLoop(o)
  PROVE  /\ slot' \in [Slots -> Local] /\ state' \in State /\ calls' \in 0..MaxCalls
         /\ state'.receipts = state.receipts /\ state'.turns = state.turns /\ state'.exists
         /\ state'.requests = state.requests /\ state'.unfinished = state.unfinished
<1>1. slot' \in [Slots -> Local]
  BY PcType DEF MakesLoop, TypeOK, Local, Saving
<1>2. /\ state' \in State
      /\ state'.receipts = state.receipts /\ state'.turns = state.turns /\ state'.exists
      /\ state'.requests = state.requests /\ state'.unfinished = state.unfinished
  BY DEF MakesLoop, TypeOK, State
<1> QED
  BY <1>1, <1>2 DEF MakesLoop, TypeOK

LEMMA FindsDoes ==
  ASSUME TypeOK, NEW o \in Slots, slot[o].pc = "saving_receipt",
         NEW i \in DOMAIN state.turns, NEW result, result = state.turns[i].result,
         state' = [state EXCEPT !.receipts[slot[o].turn] =
                     [state.receipts[slot[o].turn] EXCEPT !.status = "completed", !.result = result]],
         slot' = [slot EXCEPT ![o].pc = "saving_result", ![o].call = result],
         calls' = calls
  PROVE  /\ slot' \in [Slots -> Local] /\ state' \in State /\ result \in Calls
         /\ state'.receipts = [state.receipts EXCEPT ![slot[o].turn] =
                     [state.receipts[slot[o].turn] EXCEPT !.status = "completed", !.result = result]]
         /\ state'.turns = state.turns /\ state'.exists = state.exists
         /\ state'.requests = state.requests /\ state'.unfinished = state.unfinished
<1> DEFINE t == slot[o].turn
           r == [state.receipts[t] EXCEPT !.status = "completed", !.result = result]
<1>1. result \in Calls /\ result \in 0..MaxCalls
  BY StateType, BoundsType DEF TypeOK, TurnRecord, Calls
<1>2. t \in Turn /\ state.receipts[t] \in Receipt /\ state \in State
  BY SlotType DEF TypeOK
<1>3. r \in Receipt
  BY <1>1, <1>2 DEF Receipt, ReceiptStatus
<1>4. slot' \in [Slots -> Local]
  <2>1. [slot[o] EXCEPT !.pc = "saving_result", !.call = result] \in Local
    BY <1>1, SlotType, PcType DEF Local, Saving
  <2>2. slot' = [slot EXCEPT ![o] = [slot[o] EXCEPT !.pc = "saving_result", !.call = result]]
    BY DEF TypeOK
  <2> QED
    BY <2>1, <2>2, MovedType
<1> HIDE DEF r
<1>5. state' = [state EXCEPT !.receipts[t] = r]
  BY DEF r
<1>6. /\ state' \in State /\ state'.receipts = [state.receipts EXCEPT ![t] = r]
      /\ state'.turns = state.turns /\ state'.exists = state.exists
      /\ state'.requests = state.requests /\ state'.unfinished = state.unfinished
  <2> HIDE DEF t
  <2> QED
    BY ONLY <1>2, <1>3, <1>5, ReceiptChanges
<1> QED
  BY <1>1, <1>4, <1>6 DEF r

LEMMA RefusesDoes ==
  ASSUME TypeOK, NEW o \in Slots, slot[o].pc = "saving_receipt", Refuses(o)
  PROVE  /\ slot' \in [Slots -> Local] /\ state' \in State
         /\ state'.receipts = [state.receipts EXCEPT ![slot[o].turn] =
                     [state.receipts[slot[o].turn] EXCEPT !.status = "rejected"]]
         /\ state'.turns = state.turns /\ state'.exists = state.exists
         /\ state'.requests = state.requests /\ state'.unfinished = state.unfinished
<1> DEFINE t == slot[o].turn
           r == [state.receipts[t] EXCEPT !.status = "rejected"]
<1>1. t \in Turn /\ state.receipts[t] \in Receipt /\ state \in State
  BY SlotType DEF TypeOK
<1>2. r \in Receipt
  BY <1>1 DEF Receipt, ReceiptStatus
<1>3. slot' \in [Slots -> Local]
  BY PcType DEF TypeOK, Local, Saving, Refuses
<1> HIDE DEF r
<1>4. state' = [state EXCEPT !.receipts[t] = r]
  BY DEF r, Refuses
<1>5. /\ state' \in State /\ state'.receipts = [state.receipts EXCEPT ![t] = r]
      /\ state'.turns = state.turns /\ state'.exists = state.exists
      /\ state'.requests = state.requests /\ state'.unfinished = state.unfinished
  BY <1>1, <1>2, <1>4, ReceiptChanges
<1> QED
  BY <1>3, <1>5 DEF r

LEMMA BeginTurnTypes == ASSUME TypeOK, NEW o \in Slots, BeginTurn(o) PROVE TypeOK'
<1>1. /\ Written(o, "saving_receipt") /\ slot[o].pc = "saving_receipt" /\ disk' \in State
      /\ writing' \in [by : Slots \cup {None}, what : State] /\ writing'.by = None
  BY Writer DEF BeginTurn
<1>2. slot[o].turn \in Turn /\ state \in State /\ calls \in 0..MaxCalls
  BY SlotType DEF TypeOK
<1>3. pending' \in [Turn -> BOOLEAN]
  BY <1>2 DEF BeginTurn, TypeOK
<1>4. slot' \in [Slots -> Local] /\ state' \in State /\ calls' \in 0..MaxCalls
  <2>1. CASE MakesLoop(o)
    BY <2>1, <1>1, MakesLoopDoes
  <2>2. CASE Calling(o)
    BY <2>2, <1>2, CallProviderDoes DEF Calling
  <2>3. CASE Finds(o)
    <3>1. PICK i \in DOMAIN state.turns :
            /\ state' = [state EXCEPT !.receipts[slot[o].turn] =
                   [state.receipts[slot[o].turn] EXCEPT !.status = "completed",
                                                        !.result = state.turns[i].result]]
            /\ slot' = [slot EXCEPT ![o].pc = "saving_result", ![o].call = state.turns[i].result]
            /\ calls' = calls
      BY <2>3 DEF Finds
    <3> QED
      BY <3>1, <1>1, <1>2, FindsDoes
  <2>4. CASE Refuses(o)
    BY <2>4, <1>1, <1>2, RefusesDoes DEF Refuses
  <2> QED
    BY <2>1, <2>2, <2>3, <2>4, WaysOn
<1> QED
  BY <1>1, <1>3, <1>4 DEF BeginTurn, TypeOK

LEMMA BeginLoopTypes == ASSUME TypeOK, NEW o \in Slots, BeginLoop(o) PROVE TypeOK'
<1>1. /\ disk' \in State /\ writing' \in [by : Slots \cup {None}, what : State] /\ writing'.by = None
  BY Writer DEF BeginLoop
<1>2. slot' \in [Slots -> Local] /\ calls' \in 0..MaxCalls
  BY CallProviderDoes DEF BeginLoop
<1> QED
  BY <1>1, <1>2 DEF BeginLoop, TypeOK

LEMMA AppendedType ==
  ASSUME NEW s \in State, NEW e \in TurnRecord
  PROVE  /\ Append(s.turns, e) \in Seq(TurnRecord)
         /\ Len(Append(s.turns, e)) = Len(s.turns) + 1
         /\ DOMAIN Append(s.turns, e) = 1..(Len(s.turns) + 1)
         /\ Append(s.turns, e)[Len(s.turns) + 1] = e
         /\ \A i \in DOMAIN s.turns : Append(s.turns, e)[i] = s.turns[i]
BY StateType

(* A response, of use or not, settles the record the operation holds.         *)
LEMMA ProviderAnswersDoes ==
  ASSUME TypeOK, SlotsFit, NEW o \in Slots, ProviderAnswers(o)
  PROVE  /\ TypeOK'
         /\ slot[o].pc = "calling" /\ slot' = [slot EXCEPT ![o].pc = "saving_result"]
         /\ slot[o].call \in Calls /\ slot[o].turn <= Len(state.turns)
         /\ state'.turns = Append(state.turns, [turn |-> slot[o].turn, result |-> slot[o].call])
         /\ [turn |-> slot[o].turn, result |-> slot[o].call] \in TurnRecord
         /\ state'.receipts = [state.receipts EXCEPT ![slot[o].turn] =
                                 Settled(o, "completed", slot[o].call)]
         /\ state'.exists = state.exists /\ state'.requests = state.requests + slot[o].tries
         /\ state'.unfinished = state.unfinished
<1> DEFINE t == slot[o].turn
           e == [turn |-> t, result |-> slot[o].call]
           r == Settled(o, "completed", slot[o].call)
<1>1. slot[o].pc = "calling" /\ slot[o].call \in Calls /\ t <= Len(state.turns)
  BY DEF ProviderAnswers, SlotsFit, SlotFits
<1>2. t \in Turn /\ slot[o].call \in 0..MaxCalls /\ slot[o].tries \in Nat /\ state \in State
  BY SlotType DEF TypeOK
<1>3. e \in TurnRecord /\ r \in Receipt
  BY <1>1, <1>2, SettledType DEF TurnRecord
<1> HIDE DEF e, r
<1>4. state' = [state EXCEPT !.turns = Append(state.turns, e), !.receipts[t] = r,
                             !.requests = state.requests + slot[o].tries]
  BY DEF ProviderAnswers, e, r
<1>5. Append(state.turns, e) \in Seq(TurnRecord)
  BY <1>2, <1>3, AppendedType
<1>6. /\ state' \in State
      /\ state'.turns = Append(state.turns, e)
      /\ state'.receipts = [state.receipts EXCEPT ![t] = r]
      /\ state'.exists = state.exists /\ state'.requests = state.requests + slot[o].tries
      /\ state'.unfinished = state.unfinished
  <2> HIDE DEF t
  <2>1. state.requests + slot[o].tries \in Nat
    BY <1>2, StateType
  <2>2. state.receipts \in [Turn -> Receipt]
    BY <1>2, StateType
  <2>3. [state.receipts EXCEPT ![t] = r] \in [Turn -> Receipt]
    BY <2>2, <1>2, <1>3
  <2> QED
    BY <2>1, <2>2, <2>3, <1>2, <1>4, <1>5 DEF State
<1>7. slot' = [slot EXCEPT ![o].pc = "saving_result"]
  BY DEF ProviderAnswers, AfterResponse
<1>8. slot' \in [Slots -> Local]
  BY <1>7, PcType DEF TypeOK, Local, Saving
<1>9. \A p \in Slots : slot[p].pc \in Saving => slot'[p].pc = slot[p].pc
  BY <1>1, <1>7 DEF TypeOK, Saving
<1>10. writing'.by # None => slot'[writing'.by].pc \in Saving
  BY <1>9, WriterStays DEF ProviderAnswers
<1>11. TypeOK'
  BY <1>6, <1>8, <1>10 DEF TypeOK, ProviderAnswers
<1> QED
  BY <1>1, <1>3, <1>6, <1>7, <1>11 DEF e, r

LEMMA ProviderFailsDoes ==
  ASSUME TypeOK, NEW o \in Slots, ProviderFails(o)
  PROVE  /\ TypeOK'
         /\ slot[o].pc = "calling" /\ slot' = [slot EXCEPT ![o].pc = "saving_failure"]
         /\ state'.turns = state.turns
         /\ state'.receipts = [state.receipts EXCEPT ![slot[o].turn] = Settled(o, "retryable", 0)]
         /\ state'.exists = state.exists /\ state'.requests = state.requests + slot[o].tries
         /\ state'.unfinished = state.unfinished
<1> DEFINE t == slot[o].turn
           r == Settled(o, "retryable", 0)
<1>2. t \in Turn /\ 0 \in 0..MaxCalls /\ slot[o].tries \in Nat /\ state \in State
  BY SlotType, BoundsType DEF TypeOK
<1>3. r \in Receipt
  BY <1>2, SettledType
<1> HIDE DEF r
<1>4. state' = [state EXCEPT !.receipts[t] = r, !.requests = state.requests + slot[o].tries]
  BY DEF ProviderFails, r
<1>6. /\ state' \in State
      /\ state'.turns = state.turns
      /\ state'.receipts = [state.receipts EXCEPT ![t] = r]
      /\ state'.exists = state.exists /\ state'.requests = state.requests + slot[o].tries
      /\ state'.unfinished = state.unfinished
  <2> HIDE DEF t
  <2>1. state.requests + slot[o].tries \in Nat
    BY <1>2, StateType
  <2>2. state.receipts \in [Turn -> Receipt]
    BY <1>2, StateType
  <2>3. [state.receipts EXCEPT ![t] = r] \in [Turn -> Receipt]
    BY <2>2, <1>2, <1>3
  <2> QED
    BY <2>1, <2>2, <2>3, <1>2, <1>4 DEF State
<1>7. slot' = [slot EXCEPT ![o].pc = "saving_failure"] /\ slot[o].pc = "calling"
  BY DEF ProviderFails
<1>8. slot' \in [Slots -> Local]
  BY <1>7, PcType DEF TypeOK, Local, Saving
<1>9. \A p \in Slots : slot[p].pc \in Saving => slot'[p].pc = slot[p].pc
  BY <1>7 DEF TypeOK, Saving
<1>10. writing'.by # None => slot'[writing'.by].pc \in Saving
  BY <1>9, WriterStays DEF ProviderFails
<1>11. TypeOK'
  BY <1>6, <1>8, <1>10 DEF TypeOK, ProviderFails
<1> QED
  BY <1>6, <1>7, <1>11 DEF r

LEMMA EndTypes ==
  ASSUME TypeOK, NEW o \in Slots, ResultSaved(o) \/ Answer(o) \/ FailureSaved(o)
  PROVE  TypeOK'
<1>1. slot' \in [Slots -> Local]
  <2>1. CASE ResultSaved(o)
    BY <2>1, PcType DEF ResultSaved, TypeOK, Local
  <2>2. CASE Answer(o) \/ FailureSaved(o)
    <3>1. slot' = [slot EXCEPT ![o] = Idle]
      BY <2>2 DEF Answer, FailureSaved
    <3> QED
      BY <3>1, IdleType, MovedType
  <2> QED
    BY <2>1, <2>2
<1>2. slot[o].turn \in Turn /\ slot[o].call \in 0..MaxCalls
  BY SlotType
<1>3. CASE ResultSaved(o)
  BY <1>1, <1>3, Writer DEF ResultSaved, TypeOK
<1>4. CASE FailureSaved(o)
  <2>1. pending' \in [Turn -> BOOLEAN]
    BY <1>2, <1>4 DEF FailureSaved, TypeOK
  <2> QED
    BY <2>1, <1>1, <1>4, Writer DEF FailureSaved, TypeOK
<1>5. CASE Answer(o)
  <2>1. /\ pending' \in [Turn -> BOOLEAN]
        /\ told' \in [Turn -> SUBSET (0..MaxCalls)] /\ delivered' \in [Turn -> SUBSET (0..MaxCalls)]
    BY <1>2, <1>5 DEF Answer, TypeOK
  <2>2. \A p \in Slots : slot[p].pc \in Saving => slot'[p].pc = slot[p].pc
    BY <1>5 DEF Answer, TypeOK, Saving
  <2>3. writing'.by # None => slot'[writing'.by].pc \in Saving
    BY <2>2, <1>5, WriterStays DEF Answer
  <2> QED
    BY <2>1, <2>3, <1>1, <1>5 DEF Answer, TypeOK
<1> QED
  BY <1>3, <1>4, <1>5

LEMMA CrashTypes == ASSUME TypeOK, Crash PROVE TypeOK' /\ writing'.by = None /\ writing'.what = FreshState
<1>1. slot' \in [Slots -> Local]
  BY IdleType DEF Crash
<1>2. writing' \in [by : Slots \cup {None}, what : State] /\ writing'.by = None
      /\ writing'.what = FreshState
  BY FreshStateType DEF Crash, NoWrite
<1> QED
  BY <1>1, <1>2 DEF Crash, TypeOK

-----------------------------------------------------------------------------
(* Transcripts that follow each other.                                        *)

LEMMA FollowsSelf == ASSUME NEW s PROVE Follows(s, s)
BY DEF Follows

LEMMA FollowsThrough ==
  ASSUME NEW s1, NEW s2, NEW s3, Follows(s2, s1), Follows(s3, s2)
  PROVE  Follows(s3, s1)
BY DEF Follows

LEMMA FollowsHas ==
  ASSUME NEW new, NEW old, Follows(new, old)
  PROVE  /\ \A t, result : Has(old, t, result) => Has(new, t, result)
         /\ Doubled(old) => Doubled(new)
BY DEF Follows, Has, Doubled

LEMMA FollowsLonger ==
  ASSUME NEW new \in State, NEW old \in State, Follows(new, old)
  PROVE  Len(old.turns) <= Len(new.turns)
<1>1. /\ Len(old.turns) \in Nat /\ DOMAIN old.turns = 1..Len(old.turns)
      /\ Len(new.turns) \in Nat /\ DOMAIN new.turns = 1..Len(new.turns)
  BY StateType
<1>2. CASE Len(old.turns) = 0
  BY <1>1, <1>2
<1>3. CASE Len(old.turns) > 0
  <2>1. Len(old.turns) \in DOMAIN new.turns
    BY <1>1, <1>3 DEF Follows
  <2> QED
    BY <1>1, <2>1
<1> QED
  BY <1>1, <1>2, <1>3

LEMMA SameTurns ==
  ASSUME NEW new, NEW old, new.turns = old.turns
  PROVE  /\ Follows(new, old)
         /\ \A t, result : Has(new, t, result) <=> Has(old, t, result)
         /\ Doubled(new) <=> Doubled(old)
         /\ InOrder(new) <=> InOrder(old)
BY DEF Follows, Has, Doubled, InOrder

(* What is read of a state object besides its turns.                          *)
LEMMA SoundStays ==
  ASSUME NEW s, NEW r, Sound(s), r.turns = s.turns, s.exists => r.exists,
         \A t \in Turn \ {0} : Refused(r, t) =>
           \/ Refused(s, t) /\ r.receipts[t].callId = s.receipts[t].callId
           \/ Doubled(s) \/ ~Has(s, t - 1, r.receipts[t].callId)
  PROVE  Sound(r)
<1>1. /\ \A t, result : Has(r, t, result) <=> Has(s, t, result)
      /\ Doubled(r) <=> Doubled(s)
      /\ InOrder(r) <=> InOrder(s)
  BY SameTurns
<1>2. (Doubled(r) \/ InOrder(r)) /\ (Len(r.turns) > 0 => r.exists)
  BY <1>1 DEF Sound
<1>3. ASSUME NEW t \in Turn \ {0}, Refused(r, t)
      PROVE  Doubled(r) \/ ~Has(r, t - 1, r.receipts[t].callId)
  <2>1. CASE Refused(s, t) /\ r.receipts[t].callId = s.receipts[t].callId
    <3>1. Doubled(s) \/ ~Has(s, t - 1, s.receipts[t].callId)
      BY <2>1 DEF Sound, RefusedRightly
    <3> QED
      BY <3>1, <2>1, <1>1
  <2>2. CASE Doubled(s) \/ ~Has(s, t - 1, r.receipts[t].callId)
    BY <2>2, <1>1
  <2> QED
    BY <1>3, <2>1, <2>2
<1>4. \A t \in Turn \ {0} : RefusedRightly(r, t)
  BY <1>3 DEF RefusedRightly
<1> QED
  BY <1>2, <1>4 DEF Sound

LEMMA FreshStateSound == Sound(FreshState)
<1>1. FreshState.turns = <<>> /\ \A t \in Turn : ~Refused(FreshState, t)
  BY DEF FreshState, NoReceipt, Refused
<1>2. InOrder(FreshState) /\ Len(FreshState.turns) = 0
  BY <1>1 DEF InOrder
<1> QED
  BY <1>1, <1>2 DEF Sound, RefusedRightly

-----------------------------------------------------------------------------
(* Kinds of steps, by what they do to the file.                               *)
RecordsStay ==
  /\ state.exists => state'.exists
  /\ \A t \in Turn : state.receipts[t].status # "none" =>
       state.receipts'[t].status # "none" /\ state.receipts'[t].callId = state.receipts[t].callId
Others(o) == \A p \in Slots \ {o} : slot'[p] = slot[p]
Story == SlotsFit /\ WritesFollow /\ AllSound /\ AnswersAreKept

LEMMA OtherFits ==
  ASSUME Inv, TypeOK', NEW p \in Slots, slot'[p] = slot[p], RecordsStay,
         Follows(state', state), Follows(disk', disk)
  PROVE  SlotFits(p)'
<1>1. SlotFits(p) /\ slot[p].turn \in Turn /\ slot[p].turn \in Nat
  BY SlotType, TurnType DEF Inv, SlotsFit
<1>2. Len(state.turns) <= Len(state'.turns) /\ Len(state.turns) \in Nat /\ Len(state'.turns) \in Nat
  BY FollowsLonger, StateType DEF Inv, TypeOK
<1>3. /\ Has(state, slot[p].turn, slot[p].call) => Has(state', slot[p].turn, slot[p].call)
      /\ Has(disk, slot[p].turn, slot[p].call) => Has(disk', slot[p].turn, slot[p].call)
  BY FollowsHas
<1>4. slot[p].turn <= Len(state.turns) => slot[p].turn <= Len(state'.turns)
  BY <1>1, <1>2
<1>5. Active(p) => /\ state'.receipts[slot[p].turn].status # "none"
                   /\ state'.receipts[slot[p].turn].callId = slot[p].callId
  BY <1>1 DEF RecordsStay, SlotFits
<1> QED
  BY <1>1, <1>3, <1>4, <1>5 DEF SlotFits, RecordsStay, Active, Has

LEMMA KeptLonger ==
  ASSUME AnswersAreKept, Follows(state', state), Follows(disk', disk), delivered' = delivered
  PROVE  AnswersAreKept'
BY FollowsHas DEF AnswersAreKept, Has

LEMMA QuietStep ==
  ASSUME Inv, TypeOK', NEW o \in Slots, Others(o), slot[o].pc \notin Saving,
         disk' = disk, writing' = writing, Follows(state', state), RecordsStay,
         SlotFits(o)', Sound(state')
  PROVE  SlotsFit' /\ WritesFollow' /\ AllSound'
<1>1. SlotsFit'
  BY FollowsSelf, OtherFits DEF Others, SlotsFit
<1>2. WritesFollow'
  <2>1. Follows(state', disk)
    BY FollowsThrough DEF Inv, WritesFollow
  <2>2. CASE writing.by = None
    BY <2>1, <2>2 DEF WritesFollow
  <2>3. CASE writing.by # None
    <3>1. writing.by \in Slots /\ slot'[writing.by] = slot[writing.by]
      BY <2>3 DEF Inv, TypeOK, Others
    <3>2. Follows(state', writing.what) /\ Follows(writing.what, disk)
      BY <2>3, FollowsThrough DEF Inv, WritesFollow
    <3> QED
      BY <2>1, <3>1, <3>2 DEF Inv, WritesFollow
  <2> QED
    BY <2>2, <2>3
<1>3. AllSound'
  BY DEF Inv, AllSound
<1> QED
  BY <1>1, <1>2, <1>3

(* The file an operation waited for is there.                                 *)
LEMMA WrittenFile ==
  ASSUME Inv, NEW o \in Slots, NEW pc, Written(o, pc)
  PROVE  /\ Follows(disk', disk) /\ Follows(state, disk')
         /\ Sound(disk')
         /\ pc = "saving_result" => Has(disk', slot[o].turn, slot[o].call)
<1>1. /\ disk' = writing.what /\ writing.by = o /\ writing.by # None /\ slot[o].pc = pc
  BY Writer DEF Inv
<1> QED
  BY <1>1 DEF Inv, WritesFollow, AllSound

LEMMA WrittenStep ==
  ASSUME Inv, TypeOK', NEW o \in Slots, NEW pc, Written(o, pc), Others(o),
         state'.turns = state.turns, RecordsStay, delivered' = delivered,
         SlotFits(o)', Sound(state')
  PROVE  Story'
<1>1. /\ writing' = NoWrite /\ writing'.by = None
  BY Writer DEF Inv
<1>2. Follows(disk', disk) /\ Follows(state, disk') /\ Sound(disk')
  BY WrittenFile
<1>3. Follows(state', state) /\ Follows(state', disk')
  BY <1>2, SameTurns, FollowsThrough
<1>4. SlotsFit'
  BY <1>2, <1>3, OtherFits DEF Others, SlotsFit
<1>5. WritesFollow'
  BY <1>1, <1>3 DEF WritesFollow
<1>6. AllSound'
  BY <1>1, <1>2, FreshStateSound DEF AllSound, NoWrite
<1>7. AnswersAreKept'
  BY <1>2, <1>3, KeptLonger DEF Inv
<1> QED
  BY <1>4, <1>5, <1>6, <1>7 DEF Story

-----------------------------------------------------------------------------
(* Every action keeps the story.                                              *)

LEMMA ReceiveKeeps ==
  ASSUME Inv, NEW o \in Slots, NEW t \in Turn, NEW callId \in CallIds(t), Receive(o, t, callId)
  PROVE  Story'
<1>1. TypeOK /\ TypeOK' /\ t \in Turn /\ state.receipts[t] \in Receipt
      /\ state.receipts \in [Turn -> Receipt]
  BY ReceiveDoes DEF Inv, TypeOK, State
<1>2. /\ slot[o].pc = "idle" /\ slot'[o].turn = t /\ slot'[o].callId = callId
      /\ slot'[o].tries = 0 /\ Others(o)
      /\ state'.turns = state.turns /\ state'.exists = state.exists
      /\ slot'[o].pc \in {"saving_receipt", "logging"}
  BY ReceiveDoes DEF Inv, Others
<1>3. /\ RecordsStay
      /\ state'.receipts[t].status # "none" /\ state'.receipts[t].callId = callId
      /\ \A u \in Turn : Refused(state', u) => Refused(state, u)
           /\ state'.receipts[u].callId = state.receipts[u].callId
  <2>1. CASE state.receipts[t].status = "none"
    <3>1. state'.receipts = [state.receipts EXCEPT ![t] = InProgress(callId, state.receipts[t])]
      BY <1>1, <2>1, ReceiveDoes
    <3> QED
      BY <3>1, <1>1, <1>2, <2>1 DEF RecordsStay, InProgress, Refused
  <2>2. CASE state.receipts[t].status # "none"
    <3>1. state'.receipts = state.receipts /\ state.receipts[t].callId = callId
      BY <1>1, <2>2, ReceiveDoes
    <3> QED
      BY <3>1, <1>2, <2>2 DEF RecordsStay, Refused
  <2> QED
    BY <2>1, <2>2
<1>4. SlotFits(o)'
  BY <1>2, <1>3 DEF SlotFits, Active, Begun
<1>5. Sound(state')
  BY <1>2, <1>3, SoundStays DEF Inv, AllSound
<1>6. Follows(state', state) /\ disk' = disk /\ writing' = writing /\ delivered' = delivered
  BY <1>2, SameTurns DEF Receive
<1>7. SlotsFit' /\ WritesFollow' /\ AllSound'
  BY <1>1, <1>2, <1>3, <1>4, <1>5, <1>6, QuietStep DEF Saving
<1>8. AnswersAreKept'
  BY <1>6, FollowsSelf, KeptLonger DEF Inv
<1> QED
  BY <1>7, <1>8 DEF Story

LEMMA LoggedKeeps == ASSUME Inv, NEW o \in Slots, Logged(o) PROVE Story'
<1> DEFINE t == slot[o].turn
<1>1. TypeOK /\ TypeOK' /\ t \in Turn /\ SlotFits(o) /\ state.receipts \in [Turn -> Receipt]
  BY LoggedDoes, SlotType DEF Inv, SlotsFit, TypeOK, State
<1>2. /\ slot[o].pc = "logging" /\ slot'[o] = [slot[o] EXCEPT !.pc = "saving_receipt"] /\ Others(o)
      /\ state'.turns = state.turns /\ state'.exists = state.exists
      /\ state'.receipts = [state.receipts EXCEPT ![t] = InProgress(slot[o].callId, state.receipts[t])]
  BY <1>1, LoggedDoes DEF Others, TypeOK
<1>3. slot'[o].pc = "saving_receipt" /\ slot'[o].turn = t /\ slot'[o].callId = slot[o].callId
      /\ slot'[o].tries = slot[o].tries
  BY <1>1, <1>2, SlotType
<1>4. /\ state.receipts[t].status # "none" /\ state.receipts[t].callId = slot[o].callId
      /\ slot[o].tries = 0
  BY <1>1, <1>2 DEF SlotFits, Active, Unsettled
<1>5. /\ RecordsStay
      /\ state'.receipts[t].status # "none" /\ state'.receipts[t].callId = slot[o].callId
      /\ \A u \in Turn : Refused(state', u) => Refused(state, u)
           /\ state'.receipts[u].callId = state.receipts[u].callId
  BY <1>1, <1>2, <1>4 DEF RecordsStay, InProgress, Refused
<1>6. SlotFits(o)'
  BY <1>3, <1>4, <1>5 DEF SlotFits, Active, Begun
<1>7. Sound(state')
  BY <1>2, <1>5, SoundStays DEF Inv, AllSound
<1>8. Follows(state', state) /\ disk' = disk /\ writing' = writing /\ delivered' = delivered
  BY <1>2, SameTurns DEF Logged
<1>9. SlotsFit' /\ WritesFollow' /\ AllSound'
  BY <1>1, <1>2, <1>5, <1>6, <1>7, <1>8, QuietStep DEF Saving
<1>10. AnswersAreKept'
  BY <1>8, FollowsSelf, KeptLonger DEF Inv
<1> QED
  BY <1>9, <1>10 DEF Story

LEMMA ReplayReceiptKeeps == ASSUME Inv, NEW t \in Turn, ReplayReceipt(t) PROVE Story'
BY ReplayReceiptDoes
   DEF Inv, Story, SlotsFit, SlotFits, WritesFollow, AllSound, AnswersAreKept, Active, Sound, Has,
       Follows, Doubled, InOrder, RefusedRightly, Refused

LEMMA StartWriteKeeps == ASSUME Inv, NEW o \in Slots, StartWrite(o) PROVE Story'
<1>1. /\ state' = state /\ disk' = disk /\ slot' = slot /\ delivered' = delivered
      /\ writing'.by = o /\ writing'.what = state
  BY StartWriteDoes DEF Inv
<1>2. SlotsFit' /\ AnswersAreKept'
  BY <1>1 DEF Inv, SlotsFit, SlotFits, AnswersAreKept, Active, Has
<1>3. Follows(state, disk) /\ Follows(state, state)
  BY FollowsSelf DEF Inv, WritesFollow
<1>4. slot[o].pc = "saving_result" => Has(state, slot[o].turn, slot[o].call)
  BY DEF Inv, SlotsFit, SlotFits
<1>5. WritesFollow'
  BY <1>1, <1>3, <1>4 DEF WritesFollow
<1>6. AllSound'
  BY <1>1 DEF Inv, AllSound
<1> QED
  BY <1>2, <1>5, <1>6 DEF Story


LEMMA RepeatRequestKeeps == ASSUME Inv, NEW o \in Slots, RepeatRequest(o) PROVE Story'
<1> DEFINE t == slot[o].turn
<1>1. TypeOK /\ TypeOK' /\ SlotFits(o)
  BY RepeatRequestDoes DEF Inv, SlotsFit
<1>2. /\ slot[o].pc = "calling" /\ slot'[o].pc = "calling"
      /\ slot'[o].turn = t /\ slot'[o].callId = slot[o].callId
      /\ slot[o].tries < MaxProviderAttempts /\ slot'[o].tries = slot[o].tries + 1
      /\ slot'[o].call \in Calls /\ Others(o)
      /\ state' = state /\ disk' = disk /\ writing' = writing /\ delivered' = delivered
  BY <1>1, RepeatRequestDoes DEF Others
<1>3. slot'[o].tries <= MaxProviderAttempts
  <2>1. slot[o].tries \in Nat /\ MaxProviderAttempts \in Nat
    BY <1>1, BoundsType, SlotType
  <2> QED
    BY <2>1, <1>2
<1>4. SlotFits(o)'
  BY <1>1, <1>2, <1>3 DEF SlotFits, Active, Unsettled, Begun
<1>5. Sound(state') /\ RecordsStay /\ Follows(state', state) /\ Follows(disk', disk)
  BY <1>2, FollowsSelf DEF Inv, AllSound, RecordsStay, Sound, RefusedRightly, Refused, InOrder,
     Doubled, Has
<1>6. SlotsFit' /\ WritesFollow' /\ AllSound'
  BY <1>1, <1>2, <1>4, <1>5, QuietStep DEF Saving
<1>7. AnswersAreKept'
  BY <1>2, <1>5, KeptLonger DEF Inv
<1> QED
  BY <1>6, <1>7 DEF Story

(* The turn is one more entry; it is there twice if it is not the next one.   *)
LEMMA AppendedSound ==
  ASSUME NEW s \in State, NEW r \in State, Sound(s), NEW t \in Turn, NEW result \in Calls,
         t <= Len(s.turns), r.turns = Append(s.turns, [turn |-> t, result |-> result]),
         s.exists => r.exists, Len(s.turns) = 0 => r.exists,
         \A u \in Turn \ {0} : Refused(r, u) =>
           Refused(s, u) /\ r.receipts[u].callId = s.receipts[u].callId,
         \A u \in Turn : s.receipts[u].callId # result
  PROVE  Sound(r) /\ Follows(r, s) /\ Has(r, t, result)
<1> DEFINE e == [turn |-> t, result |-> result]
           n == Len(s.turns)
<1>1. e \in TurnRecord /\ n \in Nat /\ t \in Nat
  BY StateType, TurnType DEF TurnRecord
<1>2. /\ Len(r.turns) = n + 1 /\ DOMAIN r.turns = 1..(n + 1) /\ r.turns[n + 1] = e
      /\ DOMAIN s.turns = 1..n
      /\ \A i \in DOMAIN s.turns : r.turns[i] = s.turns[i]
  <2> HIDE DEF e
  <2>1. r.turns = Append(s.turns, e)
    BY DEF e
  <2> QED
    BY <2>1, <1>1, AppendedType, StateType
<1>3. Follows(r, s)
  BY <1>1, <1>2 DEF Follows
<1>4. Has(r, t, result)
  BY <1>1, <1>2 DEF Has
<1>5. Doubled(s) => Doubled(r)
  BY <1>3, FollowsHas
<1>6. Doubled(r) \/ InOrder(r)
  <2>1. CASE Doubled(s)
    BY <2>1, <1>5
  <2>2. CASE InOrder(s) /\ t = n
    BY <2>2, <1>1, <1>2 DEF InOrder
  <2>3. CASE InOrder(s) /\ t # n
    <3>1. t + 1 \in DOMAIN s.turns /\ t + 1 # n + 1 /\ s.turns[t + 1].turn = t
      BY <2>3, <1>1, <1>2 DEF InOrder
    <3>2. t + 1 \in DOMAIN r.turns /\ n + 1 \in DOMAIN r.turns /\ r.turns[t + 1].turn = t
          /\ r.turns[n + 1].turn = t
      BY <3>1, <1>1, <1>2
    <3> QED
      BY <3>1, <3>2 DEF Doubled
  <2> QED
    BY <2>1, <2>2, <2>3 DEF Sound
<1>7. Len(r.turns) > 0 => r.exists
  BY <1>1 DEF Sound
<1>8. ASSUME NEW u \in Turn \ {0}, Refused(r, u)
      PROVE  Doubled(r) \/ ~Has(r, u - 1, r.receipts[u].callId)
  <2>1. Doubled(s) \/ ~Has(s, u - 1, r.receipts[u].callId)
    BY <1>8 DEF Sound, RefusedRightly
  <2>2. r.receipts[u].callId # result
    BY <1>8
  <2>3. ~Has(s, u - 1, r.receipts[u].callId) => ~Has(r, u - 1, r.receipts[u].callId)
    BY <1>1, <1>2, <2>2 DEF Has
  <2> QED
    BY <2>1, <2>3, <1>5
<1> QED
  BY <1>3, <1>4, <1>6, <1>7, <1>8 DEF Sound, RefusedRightly

LEMMA ProviderAnswersKeeps == ASSUME Inv, NEW o \in Slots, ProviderAnswers(o) PROVE Story'
<1> DEFINE t == slot[o].turn
           result == slot[o].call
           r == Settled(o, "completed", result)
<1>1. TypeOK /\ TypeOK' /\ t \in Turn /\ SlotFits(o) /\ state.receipts \in [Turn -> Receipt]
      /\ state \in State /\ state' \in State
  BY ProviderAnswersDoes, SlotType DEF Inv, SlotsFit, TypeOK, State
<1>2. /\ slot[o].pc = "calling" /\ slot' = [slot EXCEPT ![o].pc = "saving_result"]
      /\ result \in Calls /\ t <= Len(state.turns)
      /\ state'.turns = Append(state.turns, [turn |-> t, result |-> result])
      /\ state'.receipts = [state.receipts EXCEPT ![t] = r]
      /\ state'.exists = state.exists
  BY ProviderAnswersDoes DEF Inv
<1>3. /\ slot'[o].pc = "saving_result" /\ slot'[o].turn = t /\ slot'[o].callId = slot[o].callId
      /\ slot'[o].call = result /\ slot'[o].tries = slot[o].tries /\ Others(o)
  BY <1>1, <1>2, SlotType DEF TypeOK, Others
<1>4. /\ state.receipts[t].status # "none" /\ state.receipts[t].callId = slot[o].callId
  BY <1>1, <1>2 DEF SlotFits, Active
<1>5. r.callId = state.receipts[t].callId /\ r.status \in {"completed", state.receipts[t].status}
  BY <1>1, <1>2, SettledType, SlotType
<1> HIDE DEF r
<1>6. /\ RecordsStay
      /\ state'.receipts[t].status # "none" /\ state'.receipts[t].callId = slot[o].callId
      /\ \A u \in Turn : Refused(state', u) => Refused(state, u)
           /\ state'.receipts[u].callId = state.receipts[u].callId
  <2>1. \A u \in Turn : state'.receipts[u] = IF u = t THEN r ELSE state.receipts[u]
    BY <1>1, <1>2
  <2> QED
    BY <2>1, <1>1, <1>2, <1>4, <1>5 DEF RecordsStay, Refused
<1>7. \A u \in Turn : state.receipts[u].callId # result
  BY <1>2 DEF Inv, OpenIsNew, Known, Names
<1>8. state.exists
  BY <1>1, <1>2 DEF SlotFits, Begun
<1>9. Sound(state') /\ Follows(state', state) /\ Has(state', t, result)
  <2> HIDE DEF t, result
  <2> QED
    BY <1>1, <1>2, <1>6, <1>7, <1>8, AppendedSound DEF Inv, AllSound
<1>10. SlotFits(o)'
  BY <1>1, <1>3, <1>6, <1>9 DEF SlotFits, Active, Unsettled, Begun, Has
<1>11. disk' = disk /\ writing' = writing /\ delivered' = delivered
  BY DEF ProviderAnswers
<1>12. SlotsFit' /\ WritesFollow' /\ AllSound'
  BY <1>1, <1>2, <1>3, <1>6, <1>9, <1>10, <1>11, QuietStep DEF Saving
<1>13. AnswersAreKept'
  BY <1>9, <1>11, FollowsSelf, KeptLonger DEF Inv
<1> QED
  BY <1>12, <1>13 DEF Story

LEMMA ProviderFailsKeeps == ASSUME Inv, NEW o \in Slots, ProviderFails(o) PROVE Story'
<1> DEFINE t == slot[o].turn
           r == Settled(o, "retryable", 0)
<1>1. TypeOK /\ TypeOK' /\ t \in Turn /\ SlotFits(o) /\ state.receipts \in [Turn -> Receipt]
      /\ 0 \in 0..MaxCalls
  <2>1. TypeOK /\ TypeOK' /\ SlotFits(o)
    BY ProviderFailsDoes DEF Inv, SlotsFit
  <2>2. 0 \in 0..MaxCalls
    BY BoundsType
  <2> QED
    BY <2>1, <2>2, SlotType DEF TypeOK, State
<1>2. /\ slot[o].pc = "calling" /\ slot' = [slot EXCEPT ![o].pc = "saving_failure"]
      /\ state'.turns = state.turns
      /\ state'.receipts = [state.receipts EXCEPT ![t] = r]
      /\ state'.exists = state.exists
  BY ProviderFailsDoes DEF Inv
<1>3. /\ slot'[o].pc = "saving_failure" /\ slot'[o].turn = t /\ slot'[o].callId = slot[o].callId
      /\ Others(o)
  BY <1>1, <1>2, SlotType DEF TypeOK, Others
<1>4. /\ state.receipts[t].status # "none" /\ state.receipts[t].callId = slot[o].callId
  BY <1>1, <1>2 DEF SlotFits, Active
<1>5. r.callId = state.receipts[t].callId /\ r.status \in {"retryable", state.receipts[t].status}
  BY <1>1, <1>2, SettledType, SlotType
<1> HIDE DEF r
<1>6. /\ RecordsStay
      /\ state'.receipts[t].status # "none" /\ state'.receipts[t].callId = slot[o].callId
      /\ \A u \in Turn : Refused(state', u) => Refused(state, u)
           /\ state'.receipts[u].callId = state.receipts[u].callId
  <2>1. \A u \in Turn : state'.receipts[u] = IF u = t THEN r ELSE state.receipts[u]
    BY <1>1, <1>2
  <2> QED
    BY <2>1, <1>1, <1>2, <1>4, <1>5 DEF RecordsStay, Refused
<1>7. SlotFits(o)'
  BY <1>3, <1>6 DEF SlotFits, Active, Unsettled, Begun
<1>8. Sound(state')
  BY <1>2, <1>6, SoundStays DEF Inv, AllSound
<1>9. Follows(state', state) /\ disk' = disk /\ writing' = writing /\ delivered' = delivered
  BY <1>2, SameTurns DEF ProviderFails
<1>10. SlotsFit' /\ WritesFollow' /\ AllSound'
  BY <1>1, <1>2, <1>3, <1>6, <1>7, <1>8, <1>9, QuietStep DEF Saving
<1>11. AnswersAreKept'
  BY <1>9, FollowsSelf, KeptLonger DEF Inv
<1> QED
  BY <1>10, <1>11 DEF Story

(* The receipt is on disk; each way on keeps the story.                       *)
LEMMA MakesLoopKeeps ==
  ASSUME Inv, NEW o \in Slots, BeginTurn(o), MakesLoop(o)
  PROVE  Story'
<1>1. TypeOK /\ TypeOK' /\ SlotFits(o) /\ Written(o, "saving_receipt") /\ slot[o].pc = "saving_receipt"
      /\ delivered' = delivered
  BY BeginTurnTypes, WaysOn, Writer DEF Inv, SlotsFit
<1>2. /\ state'.receipts = state.receipts /\ state'.turns = state.turns /\ state'.exists
  BY <1>1, MakesLoopDoes
<1>3. slot[o].turn = 0 /\ slot' = [slot EXCEPT ![o].pc = "saving_transcript"]
  BY DEF MakesLoop
<1>4. /\ slot'[o].pc = "saving_transcript" /\ slot'[o].turn = slot[o].turn
      /\ slot'[o].callId = slot[o].callId /\ slot'[o].tries = slot[o].tries /\ Others(o)
  BY <1>1, <1>3, SlotType DEF TypeOK, Others
<1>5. SlotFits(o)'
  BY <1>1, <1>2, <1>3, <1>4 DEF SlotFits, Active, Unsettled, Begun
<1>6. RecordsStay
  BY <1>2 DEF RecordsStay
<1>7. Sound(state')
  BY <1>2, SoundStays DEF Inv, AllSound, Refused
<1> QED
  BY <1>1, <1>2, <1>4, <1>5, <1>6, <1>7, WrittenStep

(* A request that may continue has all the turns before it.                   *)
LEMMA MayCall ==
  ASSUME Inv, NEW o \in Slots, slot[o].turn = 0 \/ Continues(slot[o].turn, slot[o].callId)
  PROVE  slot[o].turn <= Len(state.turns)
BY SlotType, TurnType, StateType DEF Continues, Inv, TypeOK

LEMMA CallKeeps ==
  ASSUME Inv, TypeOK', NEW o \in Slots, NEW pc \in Saving, Written(o, pc), CallProvider(o),
         slot[o].turn <= Len(state.turns), state.exists, state' = state, delivered' = delivered
  PROVE  Story'
<1>1. TypeOK /\ SlotFits(o) /\ slot[o].pc = pc
  BY Writer DEF Inv, SlotsFit
<1>2. /\ slot'[o].pc = "calling" /\ slot'[o].turn = slot[o].turn
      /\ slot'[o].callId = slot[o].callId /\ slot'[o].tries = 1 /\ slot'[o].call \in Calls
      /\ Others(o)
  BY <1>1, CallProviderDoes DEF Others
<1>3. 1 <= MaxProviderAttempts
  BY BoundsType
<1>4. Active(o)
  BY <1>1 DEF Active, Saving
<1>5. SlotFits(o)'
  BY <1>1, <1>2, <1>3, <1>4 DEF SlotFits, Active, Unsettled, Begun
<1>6. Sound(state') /\ RecordsStay
  BY DEF Inv, AllSound, RecordsStay
<1> QED
  BY <1>1, <1>2, <1>5, <1>6, WrittenStep

LEMMA FindsKeeps ==
  ASSUME Inv, NEW o \in Slots, BeginTurn(o), Finds(o)
  PROVE  Story'
<1> DEFINE t == slot[o].turn
<1>1. TypeOK /\ TypeOK' /\ SlotFits(o) /\ Written(o, "saving_receipt") /\ slot[o].pc = "saving_receipt"
      /\ delivered' = delivered /\ t \in Turn /\ state \in State
      /\ state.receipts[t] \in Receipt /\ state.receipts \in [Turn -> Receipt]
  BY BeginTurnTypes, WaysOn, Writer, SlotType DEF Inv, SlotsFit, TypeOK, State
<1>2. PICK i \in DOMAIN state.turns :
        /\ state.turns[i].turn = t
        /\ state' = [state EXCEPT !.receipts[t] =
               [state.receipts[t] EXCEPT !.status = "completed", !.result = state.turns[i].result]]
        /\ slot' = [slot EXCEPT ![o].pc = "saving_result", ![o].call = state.turns[i].result]
        /\ calls' = calls
  BY DEF Finds
<1> DEFINE result == state.turns[i].result
           r == [state.receipts[t] EXCEPT !.status = "completed", !.result = result]
<1>3. /\ state'.receipts = [state.receipts EXCEPT ![t] = r]
      /\ state'.turns = state.turns /\ state'.exists = state.exists
  BY <1>1, <1>2, FindsDoes
<1>4. Has(state, t, result)
  <2>1. state.turns[i] \in TurnRecord
    BY <1>1, StateType
  <2>2. state.turns[i] = [turn |-> t, result |-> result]
    BY <2>1, <1>2 DEF TurnRecord
  <2> QED
    BY <2>2 DEF Has
<1>5. /\ slot'[o].pc = "saving_result" /\ slot'[o].turn = t /\ slot'[o].callId = slot[o].callId
      /\ slot'[o].call = result /\ Others(o)
  BY <1>1, <1>2, SlotType DEF TypeOK, Others
<1>6. /\ state.receipts[t].status # "none" /\ state.receipts[t].callId = slot[o].callId
  BY <1>1 DEF SlotFits, Active
<1>7. /\ RecordsStay
      /\ state'.receipts[t].status # "none" /\ state'.receipts[t].callId = slot[o].callId
      /\ \A u \in Turn : Refused(state', u) => Refused(state, u)
           /\ state'.receipts[u].callId = state.receipts[u].callId
  <2>1. r.status = "completed" /\ r.callId = state.receipts[t].callId
    BY <1>1 DEF Receipt
  <2> HIDE DEF r
  <2>2. \A u \in Turn : state'.receipts[u] = IF u = t THEN r ELSE state.receipts[u]
    BY <1>1, <1>3
  <2> QED
    BY <2>1, <2>2, <1>1, <1>3, <1>6 DEF RecordsStay, Refused
<1> HIDE DEF result, r
<1>8. Has(state', t, result)
  BY <1>3, <1>4, SameTurns
<1>9. SlotFits(o)'
  BY <1>5, <1>7, <1>8 DEF SlotFits, Active, Unsettled, Begun, Has
<1>10. Sound(state')
  BY <1>3, <1>7, SoundStays DEF Inv, AllSound
<1> QED
  BY <1>1, <1>3, <1>5, <1>7, <1>9, <1>10, WrittenStep

(* A refused continuation names an answer the transcript lacks, or one of a   *)
(* transcript in which some turn is there twice.                              *)
LEMMA RefusesKeeps ==
  ASSUME Inv, NEW o \in Slots, BeginTurn(o), Refuses(o)
  PROVE  Story'
<1> DEFINE t == slot[o].turn
           r == [state.receipts[t] EXCEPT !.status = "rejected"]
<1>1. TypeOK /\ TypeOK' /\ SlotFits(o) /\ Written(o, "saving_receipt") /\ slot[o].pc = "saving_receipt"
      /\ delivered' = delivered /\ t \in Turn /\ state \in State
      /\ state.receipts[t] \in Receipt /\ state.receipts \in [Turn -> Receipt]
  BY BeginTurnTypes, WaysOn, Writer, SlotType DEF Inv, SlotsFit, TypeOK, State
<1>2. /\ t # 0 /\ ~Continues(t, slot[o].callId)
      /\ state.exists /\ Len(state.turns) # t => PriorTurn(t) = {}
      /\ slot' = [slot EXCEPT ![o].pc = "saving_failure"]
  BY DEF Refuses
<1>3. /\ state'.receipts = [state.receipts EXCEPT ![t] = r]
      /\ state'.turns = state.turns /\ state'.exists = state.exists
  BY <1>1, RefusesDoes
<1>4. /\ slot'[o].pc = "saving_failure" /\ slot'[o].turn = t /\ slot'[o].callId = slot[o].callId
      /\ Others(o)
  BY <1>1, <1>2, SlotType DEF TypeOK, Others
<1>5. /\ state.receipts[t].status # "none" /\ state.receipts[t].callId = slot[o].callId
  BY <1>1 DEF SlotFits, Active
<1>6. /\ r.status = "rejected" /\ r.callId = state.receipts[t].callId
  BY <1>1 DEF Receipt
<1> HIDE DEF r
<1>7. \A u \in Turn : state'.receipts[u] = IF u = t THEN r ELSE state.receipts[u]
  BY <1>1, <1>3
<1>8. RecordsStay
  BY <1>3, <1>5, <1>6, <1>7 DEF RecordsStay
<1>9. SlotFits(o)'
  BY <1>1, <1>4, <1>5, <1>6, <1>7 DEF SlotFits, Active, Unsettled, Begun
<1>10. Doubled(state) \/ ~Has(state, t - 1, slot[o].callId)
  <2> SUFFICES ASSUME ~Doubled(state), Has(state, t - 1, slot[o].callId) PROVE FALSE
    OBVIOUS
  <2>1. InOrder(state) /\ (Len(state.turns) > 0 => state.exists)
    BY DEF Inv, AllSound, Sound
  <2>2. PICK i \in DOMAIN state.turns :
          state.turns[i].turn = t - 1 /\ state.turns[i].result = slot[o].callId
    BY DEF Has
  <2>3. t \in Nat /\ Len(state.turns) \in Nat /\ DOMAIN state.turns = 1..Len(state.turns)
    BY <1>1, TurnType, StateType
  <2>4. i = t
    BY <2>1, <2>2, <2>3 DEF InOrder
  <2>5. t <= Len(state.turns) /\ state.exists /\ state.turns[t].result = slot[o].callId
    BY <2>1, <2>2, <2>3, <2>4
  <2>6. CASE Len(state.turns) = t
    BY <2>5, <2>6, <1>2 DEF Continues
  <2>7. CASE Len(state.turns) # t
    <3>1. t + 1 \in DOMAIN state.turns
      BY <2>3, <2>5, <2>7
    <3>2. state.turns[t + 1].turn = t
      <4>1. state.turns[t + 1].turn = (t + 1) - 1
        BY <3>1, <2>1 DEF InOrder
      <4> QED
        BY <4>1, <2>3
    <3> QED
      BY <3>1, <3>2, <2>5, <2>7, <1>2 DEF PriorTurn
  <2> QED
    BY <2>6, <2>7
<1>11. Sound(state')
  <2>1. ASSUME NEW u \in Turn \ {0}, Refused(state', u)
        PROVE  \/ Refused(state, u) /\ state'.receipts[u].callId = state.receipts[u].callId
               \/ Doubled(state) \/ ~Has(state, u - 1, state'.receipts[u].callId)
    <3>1. CASE u = t
      BY <3>1, <1>5, <1>6, <1>7, <1>10
    <3>2. CASE u # t
      BY <2>1, <3>2, <1>7 DEF Refused
    <3> QED
      BY <3>1, <3>2
  <2> QED
    BY <2>1, <1>3, SoundStays DEF Inv, AllSound
<1> QED
  BY <1>1, <1>3, <1>4, <1>8, <1>9, <1>11, WrittenStep

LEMMA BeginTurnKeeps == ASSUME Inv, NEW o \in Slots, BeginTurn(o) PROVE Story'
<1>1. /\ Written(o, "saving_receipt") /\ delivered' = delivered /\ TypeOK' /\ "saving_receipt" \in Saving
      /\ MakesLoop(o) \/ Calling(o) \/ Finds(o) \/ Refuses(o)
  BY WaysOn, BeginTurnTypes DEF Inv, Saving
<1>2. CASE Calling(o)
  <2>1. state' = state /\ CallProvider(o) /\ state.exists /\ slot[o].turn <= Len(state.turns)
    BY <1>2, MayCall DEF Calling
  <2> QED
    BY <2>1, <1>1, CallKeeps
<1> QED
  BY <1>1, <1>2, MakesLoopKeeps, FindsKeeps, RefusesKeeps

LEMMA BeginLoopKeeps == ASSUME Inv, NEW o \in Slots, BeginLoop(o) PROVE Story'
<1>1. /\ Written(o, "saving_transcript") /\ delivered' = delivered /\ TypeOK' /\ state' = state
      /\ CallProvider(o) /\ "saving_transcript" \in Saving
  BY BeginLoopTypes DEF Inv, Saving, BeginLoop
<1>2. slot[o].pc = "saving_transcript" /\ slot[o].turn = 0 /\ state.exists
  BY <1>1, Writer DEF Inv, SlotsFit, SlotFits, Begun
<1> QED
  BY <1>1, <1>2, MayCall, CallKeeps

(* The operation ends.                                                        *)
LEMMA ResultSavedKeeps == ASSUME Inv, NEW o \in Slots, ResultSaved(o) PROVE Story'
<1>1. TypeOK /\ TypeOK' /\ SlotFits(o) /\ Written(o, "saving_result") /\ slot[o].pc = "saving_result"
      /\ delivered' = delivered /\ state' = state
  BY EndTypes, Writer DEF Inv, SlotsFit, ResultSaved
<1>2. slot' = [slot EXCEPT ![o].pc = "answering"]
  BY DEF ResultSaved
<1>3. /\ slot'[o].pc = "answering" /\ slot'[o].turn = slot[o].turn
      /\ slot'[o].callId = slot[o].callId /\ slot'[o].call = slot[o].call /\ Others(o)
  BY <1>1, <1>2, SlotType DEF TypeOK, Others
<1>4. Has(disk', slot[o].turn, slot[o].call)
  BY <1>1, WrittenFile
<1>5. SlotFits(o)'
  BY <1>1, <1>3, <1>4 DEF SlotFits, Active, Unsettled, Begun, Has
<1>6. Sound(state') /\ RecordsStay
  BY <1>1 DEF Inv, AllSound, RecordsStay
<1> QED
  BY <1>1, <1>3, <1>5, <1>6, WrittenStep

LEMMA IdleFits == ASSUME NEW o \in Slots, slot'[o] = Idle PROVE SlotFits(o)'
BY IdleType DEF SlotFits, Active, Unsettled, Begun

LEMMA FailureSavedKeeps == ASSUME Inv, NEW o \in Slots, FailureSaved(o) PROVE Story'
<1>1. TypeOK /\ TypeOK' /\ Written(o, "saving_failure") /\ delivered' = delivered /\ state' = state
      /\ slot' = [slot EXCEPT ![o] = Idle]
  BY EndTypes DEF Inv, FailureSaved
<1>2. slot'[o] = Idle /\ Others(o)
  BY <1>1 DEF TypeOK, Others
<1>3. Sound(state') /\ RecordsStay
  BY <1>1 DEF Inv, AllSound, RecordsStay
<1> QED
  BY <1>1, <1>2, <1>3, IdleFits, WrittenStep

(* What an operation ends with is in the file, and so in the memory.          *)
LEMMA AnswerKeeps == ASSUME Inv, NEW o \in Slots, Answer(o) PROVE Story'
<1> DEFINE t == slot[o].turn
           result == slot[o].call
<1>1. TypeOK /\ TypeOK' /\ slot[o].pc = "answering" /\ state' = state /\ disk' = disk
      /\ writing' = writing /\ slot' = [slot EXCEPT ![o] = Idle]
      /\ delivered' = [delivered EXCEPT ![t] = delivered[t] \cup {result}]
      /\ delivered \in [Turn -> SUBSET (0..MaxCalls)]
  BY EndTypes DEF Inv, Answer, TypeOK
<1>2. slot'[o] = Idle /\ Others(o)
  BY <1>1 DEF TypeOK, Others
<1>3. Sound(state') /\ RecordsStay /\ Follows(state', state)
  BY <1>1, FollowsSelf DEF Inv, AllSound, RecordsStay
<1>4. SlotsFit' /\ WritesFollow' /\ AllSound'
  BY <1>1, <1>2, <1>3, IdleFits, QuietStep DEF Saving
<1>5. Has(disk, t, result) /\ Has(state, t, result)
  BY <1>1, FollowsHas DEF Inv, SlotsFit, SlotFits, WritesFollow
<1> HIDE DEF t, result
<1>6. ASSUME NEW u \in Turn, NEW r \in delivered'[u]
      PROVE  Has(state, u, r) /\ Has(disk, u, r)
  <2>1. r \in delivered[u] \/ (u = t /\ r = result)
    BY <1>1, <1>6
  <2> QED
    BY <2>1, <1>5 DEF Inv, AnswersAreKept
<1>7. AnswersAreKept'
  BY <1>1, <1>6 DEF AnswersAreKept, Has
<1> QED
  BY <1>4, <1>7 DEF Story

(* After a crash the memory is the file, which had every answer.              *)
LEMMA CrashKeeps == ASSUME Inv, Crash PROVE Story'
<1>1. /\ state' = disk /\ disk' = disk /\ delivered' = delivered
      /\ writing'.by = None /\ writing'.what = FreshState
      /\ slot' = [o \in Slots |-> Idle]
  BY CrashTypes DEF Inv, Crash
<1>2. SlotsFit'
  BY <1>1, IdleFits DEF SlotsFit
<1>3. WritesFollow'
  BY <1>1, FollowsSelf DEF WritesFollow
<1>4. AllSound'
  BY <1>1, FreshStateSound DEF Inv, AllSound
<1>5. AnswersAreKept'
  BY <1>1 DEF Inv, AnswersAreKept, Has
<1> QED
  BY <1>2, <1>3, <1>4, <1>5 DEF Story

-----------------------------------------------------------------------------
(* The numbers of responses.                                                  *)
LEMMA NamesIsSame ==
  ASSUME NEW s, NEW r, s.receipts = r.receipts, s.turns = r.turns, NEW n
  PROVE  Names(s, n) <=> Names(r, n)
BY DEF Names

LEMMA FreshStateNames == \A n : Names(FreshState, n) => n = 0
BY DEF Names, FreshState, NoReceipt

(* What becomes known is known already, or the number of a response that is   *)
(* done; the number of a new request is new.                                  *)
LEMMA NumbersKeep ==
  ASSUME Inv, TypeOK', NEW o \in Slots, Others(o), calls' \in {calls, calls + 1},
         \A n \in 0..MaxCalls : Known(n)' => Known(n) \/ n = 0 \/ n = slot[o].call,
         \A n \in 0..MaxCalls : Names(disk', n) \/ Names(writing'.what, n) =>
           n = 0 \/ Names(disk, n) \/ Names(writing.what, n) \/ Names(state, n),
         \/ slot'[o].pc = "calling" /\ slot'[o].call = calls + 1 /\ calls' = calls + 1
         \/ slot'[o].pc # "calling" /\ (slot'[o].call \in {0, slot[o].call} \/ Known(slot'[o].call)),
         slot[o].pc = "calling" \/ \A n \in 0..MaxCalls : Known(n)' => Known(n) \/ n = 0
  PROVE  KnownIsPast' /\ OpenIsNew'
<1>1. calls \in Nat /\ calls' \in Nat /\ calls <= calls' /\ calls + 1 > calls
  BY BoundsType DEF Inv, TypeOK
<1>2. \A p \in Slots : slot[p].call \in 0..MaxCalls /\ slot'[p].call \in 0..MaxCalls
                       /\ slot[p].call \in Nat
  BY BoundsType DEF Inv, TypeOK, Local
<1>3. /\ \A n \in 0..MaxCalls : Known(n) \/ Names(disk, n) \/ Names(writing.what, n) => n <= calls
      /\ \A p \in Slots : slot[p].call <= calls
  BY DEF Inv, KnownIsPast
<1>4. ASSUME NEW n \in 0..MaxCalls, Known(n)' \/ Names(disk', n) \/ Names(writing'.what, n)
      PROVE  n <= calls
  <2>1. n = 0 \/ n = slot[o].call \/ Known(n) \/ Names(disk, n) \/ Names(writing.what, n)
    BY <1>4 DEF Known
  <2> QED
    BY <2>1, <1>1, <1>3
<1>5. \A n \in 0..MaxCalls : n <= calls => n <= calls'
  BY <1>1, BoundsType
<1>6. ASSUME NEW p \in Slots PROVE slot'[p].call <= calls'
  <2>1. CASE p # o
    BY <2>1, <1>1, <1>2, <1>3 DEF Others
  <2>2. CASE p = o
    BY <2>2, <1>1, <1>2, <1>3
  <2> QED
    BY <2>1, <2>2
<1>7. KnownIsPast'
  BY <1>4, <1>5, <1>6 DEF KnownIsPast, Names
<1>8. ASSUME NEW p \in Slots, slot'[p].pc = "calling"
      PROVE  /\ \A n \in 0..MaxCalls : n = slot'[p].call => ~Known(n)'
             /\ \A q \in Slots \ {p} : slot'[q].call # slot'[p].call
  <2>1. CASE p = o
    <3>1. slot'[o].call = calls + 1
      BY <1>8, <2>1
    <3>2. \A n \in 0..MaxCalls : n = slot'[o].call => ~Known(n)'
      BY <3>1, <1>1, <1>2, <1>4
    <3>3. \A q \in Slots \ {o} : slot'[q].call <= calls /\ slot'[q].call \in Nat
      BY <1>2, <1>3 DEF Others
    <3> QED
      BY <2>1, <3>1, <3>2, <3>3, <1>1
  <2>2. CASE p # o
    <3>1. slot'[p] = slot[p] /\ slot[p].pc = "calling"
      BY <1>8, <2>2 DEF Others
    <3>2. ~Known(slot[p].call) /\ \A q \in Slots \ {p} : slot[q].call # slot[p].call
      BY <3>1 DEF Inv, OpenIsNew
    <3>3. slot[p].call \in Calls
      BY <3>1 DEF Inv, SlotsFit, SlotFits
    <3>4. slot[p].call # 0 /\ slot[p].call # calls + 1
      BY <3>3, <1>1, <1>2, <1>3 DEF Calls
    <3>5. \A n \in 0..MaxCalls : n = slot[p].call => ~Known(n)'
      BY <2>2, <3>2, <3>4
    <3>6. slot'[o].call # slot[p].call
      BY <2>2, <3>2, <3>4
    <3> QED
      BY <2>2, <3>1, <3>2, <3>5, <3>6 DEF Others
  <2> QED
    BY <2>1, <2>2
<1>9. OpenIsNew'
  <2>1. ASSUME NEW p \in Slots, slot'[p].pc = "calling" PROVE ~Known(slot[p].call)'
    <3>1. PICK n \in 0..MaxCalls : n = slot'[p].call
      BY <1>2
    <3>2. ~Known(n)'
      BY <2>1, <3>1, <1>8
    <3> QED
      BY <3>1, <3>2
  <2> QED
    BY <1>8, <2>1 DEF OpenIsNew
<1> QED
  BY <1>7, <1>9

LEMMA KnownAfter ==
  ASSUME NEW o \in Slots, Others(o), told' = told, NEW n, Known(n)'
  PROVE  Names(state', n) \/ Known(n) \/ n = slot'[o].callId
BY DEF Others, Known, Names

LEMMA FileNames ==
  ASSUME Inv, NEW o \in Slots, \/ disk' = disk /\ writing' = writing
                               \/ \E pc \in Saving : Written(o, pc)
  PROVE  \A n \in 0..MaxCalls : Names(disk', n) \/ Names(writing'.what, n) =>
           n = 0 \/ Names(disk, n) \/ Names(writing.what, n) \/ Names(state, n)
<1>1. CASE disk' = disk /\ writing' = writing
  BY <1>1
<1>2. CASE \E pc \in Saving : Written(o, pc)
  <2>1. disk' = writing.what /\ writing'.what = FreshState
    BY <1>2 DEF Written, NoWrite
  <2> QED
    BY <2>1, FreshStateNames
<1> QED
  BY <1>1, <1>2

LEMMA ReceiptNames ==
  ASSUME NEW s \in State, NEW r \in State, NEW t \in Turn, NEW receipt \in Receipt, r.turns = s.turns,
         r.receipts = [s.receipts EXCEPT ![t] = receipt], NEW n, Names(r, n)
  PROVE  Names(s, n) \/ n = receipt.callId \/ n = receipt.result
<1>1. \A u \in Turn : r.receipts[u] = IF u = t THEN receipt ELSE s.receipts[u]
  BY StateType
<1> QED
  BY <1>1 DEF Names

LEMMA ReceiveNumbers ==
  ASSUME Inv, NEW o \in Slots, NEW t \in Turn, NEW callId \in CallIds(t), Receive(o, t, callId)
  PROVE  KnownIsPast' /\ OpenIsNew'
<1>1. TypeOK /\ TypeOK' /\ state \in State /\ state' \in State /\ state.receipts[t] \in Receipt
      /\ callId \in 0..MaxCalls
  BY ReceiveDoes, CallIdType DEF Inv, TypeOK, State
<1>2. /\ slot[o].pc = "idle" /\ slot'[o].callId = callId /\ slot'[o].call = 0
      /\ slot'[o].pc # "calling" /\ Others(o) /\ state'.turns = state.turns
  BY <1>1, ReceiveDoes DEF Others
<1>3. disk' = disk /\ writing' = writing /\ told' = told /\ calls' = calls
  BY DEF Receive
<1>4. callId = 0 \/ Known(callId)
  BY TurnType DEF CallIds, Known
<1>5. ASSUME NEW n \in 0..MaxCalls, Names(state', n) PROVE Known(n) \/ n = 0 \/ n = callId
  <2>1. CASE state'.receipts = state.receipts
    BY <2>1, <1>2, <1>5, NamesIsSame DEF Known
  <2>2. CASE state'.receipts = [state.receipts EXCEPT ![t] = InProgress(callId, state.receipts[t])]
    <3>1. InProgress(callId, state.receipts[t]) \in Receipt
      BY <1>1, InProgressType
    <3>2. Names(state, n) \/ n = callId \/ n = 0
      <4>1. /\ InProgress(callId, state.receipts[t]).callId = callId
            /\ InProgress(callId, state.receipts[t]).result = 0
        BY DEF InProgress
      <4> QED
        BY <4>1, <3>1, <2>2, <1>1, <1>2, <1>5, ReceiptNames
    <3> QED
      BY <3>2 DEF Known
  <2> QED
    BY <2>1, <2>2, <1>1, ReceiveDoes
<1>6. \A n \in 0..MaxCalls : Known(n)' => Known(n) \/ n = 0
  BY <1>2, <1>3, <1>4, <1>5, KnownAfter
<1> QED
  BY <1>1, <1>2, <1>3, <1>6, FileNames, NumbersKeep

LEMMA LoggedNumbers ==
  ASSUME Inv, NEW o \in Slots, Logged(o)
  PROVE  KnownIsPast' /\ OpenIsNew'
<1> DEFINE t == slot[o].turn
           r == InProgress(slot[o].callId, state.receipts[t])
<1>1. TypeOK /\ TypeOK' /\ state \in State /\ state' \in State /\ t \in Turn /\ r \in Receipt
      /\ r.callId = slot[o].callId /\ r.result = 0
  BY LoggedDoes, SlotType, InProgressType DEF Inv, TypeOK, InProgress
<1>2. /\ slot[o].pc = "logging" /\ slot' = [slot EXCEPT ![o].pc = "saving_receipt"]
      /\ state'.turns = state.turns /\ state'.receipts = [state.receipts EXCEPT ![t] = r]
  BY <1>1, LoggedDoes
<1>3. disk' = disk /\ writing' = writing /\ told' = told /\ calls' = calls
  BY DEF Logged
<1>4. slot'[o].callId = slot[o].callId /\ slot'[o].call = slot[o].call /\ slot'[o].pc # "calling"
      /\ Others(o)
  BY <1>1, <1>2, SlotType DEF TypeOK, Others
<1>5. Known(slot[o].callId)
  BY DEF Known
<1> HIDE DEF r, t
<1>6. \A n \in 0..MaxCalls : Names(state', n) => Known(n) \/ n = 0
  <2>1. \A n : Names(state, n) => Known(n)
    BY DEF Known
  <2> QED
    BY <2>1, <1>1, <1>2, <1>5, ReceiptNames
<1>7. \A n \in 0..MaxCalls : Known(n)' => Known(n) \/ n = 0
  BY <1>3, <1>4, <1>5, <1>6, KnownAfter
<1> QED
  BY <1>1, <1>3, <1>4, <1>7, FileNames, NumbersKeep

LEMMA ReplayReceiptNumbers ==
  ASSUME Inv, NEW t \in Turn, ReplayReceipt(t)
  PROVE  KnownIsPast' /\ OpenIsNew'
<1>1. /\ TypeOK /\ state' = state /\ disk' = disk /\ writing' = writing /\ slot' = slot
      /\ calls' = calls /\ told' = [told EXCEPT ![t] = @ \cup {state.receipts[t].result}]
  BY ReplayReceiptDoes DEF Inv
<1>2. Known(state.receipts[t].result)
  BY DEF Known, Names
<1>3. \A u \in Turn : told'[u] \subseteq told[u] \cup {state.receipts[t].result}
  BY <1>1 DEF TypeOK
<1>4. \A n : Known(n)' => Known(n)
  BY <1>1, <1>2, <1>3 DEF Known, Names
<1> QED
  BY <1>1, <1>4 DEF Inv, KnownIsPast, OpenIsNew, Names

LEMMA StartWriteNumbers ==
  ASSUME Inv, NEW o \in Slots, StartWrite(o)
  PROVE  KnownIsPast' /\ OpenIsNew'
<1>1. /\ TypeOK' /\ state' = state /\ disk' = disk /\ slot' = slot /\ calls' = calls
      /\ told' = told /\ slot[o].pc \in Saving /\ writing'.what = state
  BY StartWriteDoes DEF Inv
<1>2. \A n : Known(n)' => Known(n)
  BY <1>1 DEF Known, Names
<1> QED
  BY <1>1, <1>2, NumbersKeep DEF Others, Saving

LEMMA CallNumbers ==
  ASSUME Inv, TypeOK', NEW o \in Slots, Others(o), state' = state, told' = told, calls' = calls + 1,
         slot'[o].callId = slot[o].callId, slot'[o].pc = "calling", slot'[o].call = calls + 1,
         \/ disk' = disk /\ writing' = writing
         \/ \E pc \in Saving : Written(o, pc)
  PROVE  KnownIsPast' /\ OpenIsNew'
<1>1. \A n \in 0..MaxCalls : Known(n)' => Known(n)
  BY KnownAfter DEF Known, Names
<1> QED
  BY <1>1, FileNames, NumbersKeep

LEMMA RepeatRequestNumbers ==
  ASSUME Inv, NEW o \in Slots, RepeatRequest(o)
  PROVE  KnownIsPast' /\ OpenIsNew'
BY RepeatRequestDoes, CallNumbers DEF Inv, Others

LEMMA BeginTurnNumbers ==
  ASSUME Inv, NEW o \in Slots, BeginTurn(o)
  PROVE  KnownIsPast' /\ OpenIsNew'
<1> DEFINE t == slot[o].turn
<1>1. /\ TypeOK /\ TypeOK' /\ Written(o, "saving_receipt") /\ told' = told
      /\ slot[o].pc = "saving_receipt" /\ "saving_receipt" \in Saving
      /\ t \in Turn /\ state \in State /\ state' \in State /\ state.receipts[t] \in Receipt
  BY WaysOn, BeginTurnTypes, Writer, SlotType DEF Inv, Saving, TypeOK
<1>2. Known(slot[o].callId) /\ \A n : Names(state, n) => Known(n)
  BY DEF Known
<1>3. CASE MakesLoop(o)
  <2>1. slot'[o].callId = slot[o].callId /\ slot'[o].call = slot[o].call
        /\ slot'[o].pc = "saving_transcript" /\ Others(o) /\ calls' = calls
    BY <1>1, <1>3, SlotType DEF MakesLoop, TypeOK, Others
  <2>2. state'.receipts = state.receipts /\ state'.turns = state.turns
    BY <1>1, <1>3, MakesLoopDoes
  <2>3. \A n \in 0..MaxCalls : Known(n)' => Known(n)
    BY <1>1, <1>2, <2>1, <2>2, NamesIsSame, KnownAfter
  <2> QED
    BY <1>1, <2>1, <2>3, FileNames, NumbersKeep
<1>4. CASE Calling(o)
  <2>1. state' = state /\ CallProvider(o)
    BY <1>4 DEF Calling
  <2>2. /\ slot'[o].callId = slot[o].callId /\ slot'[o].call = calls + 1
        /\ slot'[o].pc = "calling" /\ Others(o) /\ calls' = calls + 1
    BY <1>1, <2>1, CallProviderDoes DEF Others
  <2> QED
    BY <1>1, <2>1, <2>2, CallNumbers
<1>5. CASE Finds(o)
  <2>1. PICK i \in DOMAIN state.turns :
          /\ state.turns[i].turn = t
          /\ state' = [state EXCEPT !.receipts[t] =
                 [state.receipts[t] EXCEPT !.status = "completed", !.result = state.turns[i].result]]
          /\ slot' = [slot EXCEPT ![o].pc = "saving_result", ![o].call = state.turns[i].result]
          /\ calls' = calls
    BY <1>5 DEF Finds
  <2> DEFINE result == state.turns[i].result
             r == [state.receipts[t] EXCEPT !.status = "completed", !.result = result]
  <2>2. slot'[o].callId = slot[o].callId /\ slot'[o].call = result
        /\ slot'[o].pc = "saving_result" /\ Others(o) /\ calls' = calls
    BY <1>1, <2>1, SlotType DEF TypeOK, Others
  <2>3. state'.receipts = [state.receipts EXCEPT ![t] = r] /\ state'.turns = state.turns
    BY <1>1, <2>1, FindsDoes
  <2>4. Known(result)
    BY DEF Known, Names
  <2>5. r \in Receipt /\ r.callId = state.receipts[t].callId /\ r.result = result
    <3>1. result \in Calls
      BY <1>1, <2>1, FindsDoes
    <3>2. result \in 0..MaxCalls
      BY <3>1, BoundsType DEF Calls
    <3> HIDE DEF result
    <3> QED
      BY <3>2, <1>1 DEF Receipt, ReceiptStatus
  <2>6. Known(r.callId)
    BY <1>1, <2>5 DEF Known, Names
  <2> HIDE DEF result, r, t
  <2>7. \A n \in 0..MaxCalls : Known(n)' => Known(n)
    BY <1>1, <1>2, <2>2, <2>3, <2>4, <2>5, <2>6, ReceiptNames, KnownAfter
  <2> QED
    BY <1>1, <2>2, <2>4, <2>7, FileNames, NumbersKeep
<1>6. CASE Refuses(o)
  <2> DEFINE r == [state.receipts[t] EXCEPT !.status = "rejected"]
  <2>1. slot'[o].callId = slot[o].callId /\ slot'[o].call = slot[o].call
        /\ slot'[o].pc = "saving_failure" /\ Others(o) /\ calls' = calls
    BY <1>1, <1>6, SlotType DEF Refuses, TypeOK, Others
  <2>2. state'.receipts = [state.receipts EXCEPT ![t] = r] /\ state'.turns = state.turns
    BY <1>1, <1>6, RefusesDoes
  <2>3. r \in Receipt /\ r.callId = state.receipts[t].callId /\ r.result = state.receipts[t].result
    BY <1>1 DEF Receipt, ReceiptStatus
  <2>4. Known(r.callId) /\ Known(r.result)
    BY <1>1, <2>3 DEF Known, Names
  <2> HIDE DEF r, t
  <2>5. \A n \in 0..MaxCalls : Known(n)' => Known(n)
    BY <1>1, <1>2, <2>1, <2>2, <2>3, <2>4, ReceiptNames, KnownAfter
  <2> QED
    BY <1>1, <2>1, <2>5, FileNames, NumbersKeep
<1> QED
  BY <1>3, <1>4, <1>5, <1>6, WaysOn DEF Inv

LEMMA BeginLoopNumbers ==
  ASSUME Inv, NEW o \in Slots, BeginLoop(o)
  PROVE  KnownIsPast' /\ OpenIsNew'
<1>1. /\ Written(o, "saving_transcript") /\ TypeOK' /\ state' = state /\ told' = told
      /\ CallProvider(o) /\ "saving_transcript" \in Saving
  BY BeginLoopTypes DEF Inv, Saving, BeginLoop
<1>2. /\ slot'[o].callId = slot[o].callId /\ slot'[o].call = calls + 1
      /\ slot'[o].pc = "calling" /\ Others(o) /\ calls' = calls + 1
  BY <1>1, CallProviderDoes DEF Inv, Others
<1> QED
  BY <1>1, <1>2, CallNumbers

LEMMA ProviderAnswersNumbers ==
  ASSUME Inv, NEW o \in Slots, ProviderAnswers(o)
  PROVE  KnownIsPast' /\ OpenIsNew'
<1> DEFINE t == slot[o].turn
           result == slot[o].call
           e == [turn |-> t, result |-> result]
           r == Settled(o, "completed", result)
<1>1. TypeOK /\ TypeOK' /\ t \in Turn /\ state \in State /\ state' \in State
  BY ProviderAnswersDoes, SlotType DEF Inv, TypeOK
<1>2. /\ slot[o].pc = "calling" /\ slot' = [slot EXCEPT ![o].pc = "saving_result"]
      /\ e \in TurnRecord /\ state'.turns = Append(state.turns, e)
      /\ state'.receipts = [state.receipts EXCEPT ![t] = r]
      /\ result \in 0..MaxCalls
  BY <1>1, ProviderAnswersDoes, SlotType DEF Inv
<1>3. r.callId = state.receipts[t].callId /\ r.result \in {result, state.receipts[t].result}
  BY <1>1, <1>2, SettledType
<1>4. slot'[o].callId = slot[o].callId /\ slot'[o].call = slot[o].call
      /\ slot'[o].pc = "saving_result" /\ Others(o)
  BY <1>1, <1>2, SlotType DEF TypeOK, Others
<1>5. Known(slot[o].callId)
  BY DEF Known
<1>6. disk' = disk /\ writing' = writing /\ told' = told /\ calls' = calls
  BY DEF ProviderAnswers
<1>7. e.result = result
  OBVIOUS
<1>8. \A u \in Turn : state'.receipts[u] = IF u = t THEN r ELSE state.receipts[u]
  BY <1>1, <1>2, StateType
<1>9. \A i \in DOMAIN state'.turns : \/ i \in DOMAIN state.turns /\ state'.turns[i] = state.turns[i]
                                     \/ state'.turns[i] = e
  <2> HIDE DEF e
  <2> QED
    BY <1>1, <1>2, AppendedType, StateType
<1>10. ASSUME NEW n, Names(state', n) PROVE Known(n) \/ n = result
  <2> HIDE DEF e, r, result, t
  <2>1. CASE \E u \in Turn : state'.receipts[u].callId = n \/ state'.receipts[u].result = n
    BY <2>1, <1>1, <1>3, <1>8 DEF Known, Names
  <2>2. CASE \E i \in DOMAIN state'.turns : state'.turns[i].result = n
    BY <2>2, <1>7, <1>9 DEF Known, Names
  <2> QED
    BY <1>10, <2>1, <2>2 DEF Names
<1>11. \A n \in 0..MaxCalls : Known(n)' => Known(n) \/ n = slot[o].call
  BY <1>4, <1>5, <1>6, <1>10, KnownAfter
<1> QED
  BY <1>1, <1>2, <1>4, <1>6, <1>11, FileNames, NumbersKeep

LEMMA ProviderFailsNumbers ==
  ASSUME Inv, NEW o \in Slots, ProviderFails(o)
  PROVE  KnownIsPast' /\ OpenIsNew'
<1> DEFINE t == slot[o].turn
           r == Settled(o, "retryable", 0)
<1>1. TypeOK /\ TypeOK' /\ t \in Turn /\ state \in State /\ state' \in State
      /\ state.receipts[t] \in Receipt /\ 0 \in 0..MaxCalls
  <2>1. TypeOK /\ TypeOK'
    BY ProviderFailsDoes DEF Inv
  <2>2. 0 \in 0..MaxCalls
    BY BoundsType
  <2> QED
    BY <2>1, <2>2, SlotType DEF TypeOK
<1>2. /\ slot[o].pc = "calling" /\ slot' = [slot EXCEPT ![o].pc = "saving_failure"]
      /\ state'.turns = state.turns /\ state'.receipts = [state.receipts EXCEPT ![t] = r]
  BY <1>1, ProviderFailsDoes
<1>3. /\ r \in Receipt
      /\ r.callId = state.receipts[t].callId /\ r.result \in {0, state.receipts[t].result}
  BY <1>1, SettledType
<1>4. slot'[o].callId = slot[o].callId /\ slot'[o].call = slot[o].call
      /\ slot'[o].pc = "saving_failure" /\ Others(o)
  BY <1>1, <1>2, SlotType DEF TypeOK, Others
<1>5. disk' = disk /\ writing' = writing /\ told' = told /\ calls' = calls
  BY DEF ProviderFails
<1>6. /\ Known(slot[o].callId) /\ \A n : Names(state, n) => Known(n)
      /\ Known(r.callId) /\ (r.result = 0 \/ Known(r.result))
  BY <1>1, <1>3 DEF Known, Names
<1> HIDE DEF r, t
<1>7. \A n \in 0..MaxCalls : Known(n)' => Known(n) \/ n = 0
  BY <1>1, <1>2, <1>3, <1>4, <1>5, <1>6, ReceiptNames, KnownAfter
<1> QED
  BY <1>1, <1>4, <1>5, <1>7, FileNames, NumbersKeep

LEMMA EndNumbers ==
  ASSUME Inv, NEW o \in Slots, ResultSaved(o) \/ Answer(o) \/ FailureSaved(o)
  PROVE  KnownIsPast' /\ OpenIsNew'
<1>1. TypeOK /\ TypeOK' /\ state' = state /\ calls' = calls /\ Others(o)
  BY EndTypes DEF Inv, ResultSaved, Answer, FailureSaved, Others, TypeOK
<1>2. /\ slot'[o].callId \in {0, slot[o].callId} /\ slot'[o].call \in {0, slot[o].call}
      /\ slot'[o].pc # "calling" /\ slot[o].pc # "calling"
  <2>1. CASE ResultSaved(o)
    BY <2>1, <1>1, SlotType DEF ResultSaved, Written, TypeOK
  <2>2. CASE Answer(o) \/ FailureSaved(o)
    <3>1. slot'[o] = Idle
      BY <2>2, <1>1 DEF Answer, FailureSaved, TypeOK
    <3>2. slot[o].pc # "calling"
      BY <2>2 DEF Answer, FailureSaved, Written
    <3> QED
      BY <3>1, <3>2, IdleType
  <2> QED
    BY <2>1, <2>2
<1>3. \/ disk' = disk /\ writing' = writing
      \/ \E pc \in Saving : Written(o, pc)
  BY DEF ResultSaved, Answer, FailureSaved, Saving
<1>4. Known(slot[o].callId)
  BY DEF Known
<1>5. \A n \in 0..MaxCalls : Known(n)' => Known(n) \/ n = 0
  <2>1. CASE told' = told
    <3>1. \A n : Names(state', n) => Known(n)
      BY <1>1 DEF Known, Names
    <3> QED
      BY <2>1, <3>1, <1>1, <1>2, <1>4, KnownAfter
  <2>2. CASE Answer(o)
    <3>1. Has(state, slot[o].turn, slot[o].call)
      BY <2>2, FollowsHas DEF Answer, Inv, SlotsFit, SlotFits, WritesFollow
    <3>2. Known(slot[o].call)
      BY <3>1 DEF Has, Known, Names
    <3>3. \A u \in Turn : told'[u] \subseteq told[u] \cup {slot[o].call}
      BY <2>2, <1>1 DEF Answer, TypeOK
    <3> QED
      BY <3>2, <3>3, <1>1, <1>2, <1>4 DEF Known, Names, Others
  <2> QED
    BY <2>1, <2>2 DEF ResultSaved, FailureSaved
<1> QED
  BY <1>1, <1>2, <1>3, <1>5, FileNames, NumbersKeep

LEMMA CrashNumbers == ASSUME Inv, Crash PROVE KnownIsPast' /\ OpenIsNew'
<1>1. /\ state' = disk /\ disk' = disk /\ told' = told /\ calls' = calls /\ calls \in Nat
      /\ writing'.what = FreshState
      /\ slot' = [o \in Slots |-> Idle]
  BY CrashTypes, BoundsType DEF Inv, Crash, TypeOK
<1>2. \A n \in 0..MaxCalls : Known(n)' => Names(disk, n) \/ Known(n) \/ n = 0
  BY <1>1, IdleType DEF Known, Names
<1>3. KnownIsPast'
  <2>1. 0 <= calls
    BY <1>1
  <2>2. ASSUME NEW n \in 0..MaxCalls, Known(n)' \/ Names(disk', n) \/ Names(writing'.what, n)
        PROVE  n <= calls
    <3>1. Known(n) \/ Names(disk, n) \/ n = 0
      BY <1>1, <1>2, <2>2, FreshStateNames
    <3> QED
      BY <2>1, <3>1 DEF Inv, KnownIsPast
  <2>3. \A o \in Slots : slot'[o].call <= calls
    BY <1>1, <2>1, IdleType
  <2> QED
    BY <1>1, <2>2, <2>3 DEF KnownIsPast, Names
<1>4. OpenIsNew'
  BY <1>1, IdleType DEF OpenIsNew
<1> QED
  BY <1>3, <1>4

-----------------------------------------------------------------------------
(* The account.  A request whose receipt stands for it still has attempts to  *)
(* make; the file has room for those of the requests that went on from it,    *)
(* and so has the write in progress, with all the attempts of the request     *)
(* that waits for it to call the provider.                                    *)
Own(q, pcs) == IF q.pc \in pcs THEN MaxProviderAttempts - q.tries ELSE 0
Reserve(pcs) == SumFunctionOnSet([o \in Slots |-> Own(slot[o], pcs)], Slots)
Waits(pc) == IF pc = "saving_receipt" THEN MaxProviderAttempts ELSE 0
Account ==
  /\ calls + Reserve(Unsettled) <= Covered(state)
  /\ calls + Reserve(Begun) <= Covered(disk)
  /\ writing.by # None =>
       calls + Reserve(Begun) + Waits(slot[writing.by].pc) <= Covered(writing.what)

LEMMA Products ==
  ASSUME NEW a \in Nat, NEW m \in Nat
  PROVE  a * m \in Nat /\ (a + 1) * m = a * m + m
OBVIOUS

LEMMA UnfinishedType ==
  ASSUME NEW s \in State
  PROVE  IsFiniteSet(Unfinished(s)) /\ Cardinality(Unfinished(s)) \in Nat
<1>1. Unfinished(s) \subseteq Turn
  BY DEF Unfinished
<1> QED
  BY <1>1, BoundsType, FS_Subset, FS_CardinalityType

LEMMA CoveredType == ASSUME NEW s \in State PROVE Covered(s) \in Nat
<1> DEFINE a == s.unfinished + Cardinality(Unfinished(s))
<1>1. a \in Nat /\ s.requests \in Nat /\ MaxProviderAttempts \in Nat
  BY UnfinishedType, StateType, BoundsType
<1>2. Covered(s) = s.requests + a * MaxProviderAttempts
  BY DEF Covered
<1> HIDE DEF a
<1> QED
  BY <1>1, <1>2, Products

LEMMA SameCovered ==
  ASSUME NEW s, NEW r, r.receipts = s.receipts, r.requests = s.requests, r.unfinished = s.unfinished
  PROVE  Covered(r) = Covered(s)
BY DEF Covered, Unfinished

(* A retry that is counted makes room for its attempts.                       *)
LEMMA RetryCovered ==
  ASSUME NEW s \in State, NEW r \in State, r.receipts = s.receipts, r.requests = s.requests,
         r.unfinished = s.unfinished + 1
  PROVE  Covered(r) = Covered(s) + MaxProviderAttempts
<1> DEFINE c == Cardinality(Unfinished(s))
           a == s.unfinished + c
<1>1. c \in Nat /\ s.unfinished \in Nat /\ s.requests \in Nat /\ MaxProviderAttempts \in Nat
  BY UnfinishedType, StateType, BoundsType
<1>2. Covered(s) = s.requests + a * MaxProviderAttempts
  BY DEF Covered
<1>3. Covered(r) = s.requests + ((s.unfinished + 1) + c) * MaxProviderAttempts
  BY DEF Covered, Unfinished
<1> HIDE DEF c
<1>4. (s.unfinished + 1) + c = a + 1 /\ a \in Nat
  BY <1>1
<1> HIDE DEF a
<1>5. (a + 1) * MaxProviderAttempts = a * MaxProviderAttempts + MaxProviderAttempts
      /\ a * MaxProviderAttempts \in Nat
  BY <1>1, <1>4, Products
<1> QED
  BY <1>1, <1>2, <1>3, <1>4, <1>5

(* A receipt that is in progress makes room for one operation's attempts.     *)
LEMMA ReceiptCovered ==
  ASSUME NEW s \in State, NEW r \in State, NEW t \in Turn, NEW receipt \in Receipt,
         r.receipts = [s.receipts EXCEPT ![t] = receipt],
         NEW k \in Nat, r.requests = s.requests + k, r.unfinished = s.unfinished
  PROVE  /\ s.receipts[t].status # "in_progress" /\ receipt.status = "in_progress" =>
              Covered(r) = Covered(s) + k + MaxProviderAttempts
         /\ s.receipts[t].status = "in_progress" /\ receipt.status # "in_progress" =>
              Covered(r) + MaxProviderAttempts = Covered(s) + k
         /\ (s.receipts[t].status = "in_progress" <=> receipt.status = "in_progress") =>
              Covered(r) = Covered(s) + k
<1> DEFINE c == Cardinality(Unfinished(s))
           d == Cardinality(Unfinished(r))
           a == s.unfinished + c
           m == MaxProviderAttempts
<1>1. /\ c \in Nat /\ d \in Nat /\ s.unfinished \in Nat /\ s.requests \in Nat /\ m \in Nat
      /\ IsFiniteSet(Unfinished(s)) /\ IsFiniteSet(Unfinished(r))
  BY UnfinishedType, StateType, BoundsType
<1>2. Covered(s) = s.requests + (s.unfinished + c) * m
  BY DEF Covered
<1>3. Covered(r) = s.requests + k + (s.unfinished + d) * m
  BY DEF Covered
<1>4. \A u \in Turn : r.receipts[u] = IF u = t THEN receipt ELSE s.receipts[u]
  BY StateType
<1>5. CASE s.receipts[t].status # "in_progress" /\ receipt.status = "in_progress"
  <2>1. Unfinished(r) = Unfinished(s) \cup {t} /\ t \notin Unfinished(s)
    BY <1>4, <1>5 DEF Unfinished
  <2>2. d = c + 1
    BY <1>1, <2>1, FS_AddElement
  <2> HIDE DEF c, d, m
  <2>3. s.unfinished + d = (s.unfinished + c) + 1 /\ s.unfinished + c \in Nat
    BY <1>1, <2>2
  <2>4. (s.unfinished + d) * m = (s.unfinished + c) * m + m /\ (s.unfinished + c) * m \in Nat
    BY <1>1, <2>3, Products
  <2>5. Covered(r) = Covered(s) + k + m
    BY <1>1, <1>2, <1>3, <2>4
  <2> QED
    BY <1>5, <2>5 DEF m
<1>6. CASE s.receipts[t].status = "in_progress" /\ receipt.status # "in_progress"
  <2>1. Unfinished(r) = Unfinished(s) \ {t} /\ t \in Unfinished(s)
    BY <1>4, <1>6 DEF Unfinished
  <2>2. d = c - 1
    BY <1>1, <2>1, FS_RemoveElement
  <2> HIDE DEF c, d, m
  <2>3. s.unfinished + c = (s.unfinished + d) + 1 /\ s.unfinished + d \in Nat
    BY <1>1, <2>2
  <2>4. (s.unfinished + c) * m = (s.unfinished + d) * m + m /\ (s.unfinished + d) * m \in Nat
    BY <1>1, <2>3, Products
  <2>5. Covered(r) + m = Covered(s) + k
    BY <1>1, <1>2, <1>3, <2>4
  <2> QED
    BY <1>6, <2>5 DEF m
<1>7. CASE s.receipts[t].status = "in_progress" <=> receipt.status = "in_progress"
  <2>1. Unfinished(r) = Unfinished(s)
    BY <1>4, <1>7 DEF Unfinished
  <2>2. s.unfinished + c \in Nat /\ d = c
    BY <1>1, <2>1
  <2> HIDE DEF c, d, m
  <2>3. (s.unfinished + c) * m \in Nat
    BY <1>1, <2>2, Products
  <2>4. Covered(r) = Covered(s) + k
    BY <1>1, <1>2, <1>3, <2>2, <2>3
  <2> QED
    BY <1>7, <2>4
<1> QED
  BY <1>5, <1>6, <1>7

-----------------------------------------------------------------------------
(* The reserve moves by what one request's part moves by.                     *)
LEMMA OwnType ==
  ASSUME TypeOK, SlotsFit, NEW o \in Slots, NEW pcs \in {Unsettled, Begun}
  PROVE  Own(slot[o], pcs) \in Nat
<1>1. slot[o].tries \in Nat /\ MaxProviderAttempts \in Nat
  BY SlotType, BoundsType
<1>2. slot[o].pc \in pcs => slot[o].tries <= MaxProviderAttempts
  BY <1>1 DEF SlotsFit, SlotFits, Unsettled, Begun
<1> QED
  BY <1>1, <1>2 DEF Own

LEMMA ReserveType ==
  ASSUME TypeOK, SlotsFit, NEW pcs \in {Unsettled, Begun}
  PROVE  Reserve(pcs) \in Nat
<1> DEFINE f == [o \in Slots |-> Own(slot[o], pcs)]
<1>1. \A o \in Slots : f[o] \in Nat
  BY OwnType
<1> HIDE DEF f
<1>2. SumFunctionOnSet(f, Slots) \in Nat
  BY <1>1, BoundsType, SumIsNatural
<1> QED
  BY <1>2 DEF Reserve, f

LEMMA ReserveMoves ==
  ASSUME TypeOK, SlotsFit, TypeOK', SlotsFit', NEW o \in Slots, Others(o),
         NEW pcs \in {Unsettled, Begun}
  PROVE  /\ Reserve(pcs)' + Own(slot[o], pcs) = Reserve(pcs) + Own(slot'[o], pcs)
         /\ Reserve(pcs) \in Nat /\ Reserve(pcs)' \in Nat
         /\ Own(slot[o], pcs) \in Nat /\ Own(slot'[o], pcs) \in Nat
<1> DEFINE f == [p \in Slots |-> Own(slot[p], pcs)]
           g == [p \in Slots |-> Own(slot'[p], pcs)]
<1>1. \A p \in Slots : f[p] \in Nat /\ g[p] \in Nat
  <2>1. \A p \in Slots : Own(slot[p], pcs) \in Nat
    BY OwnType
  <2>2. \A p \in Slots : Own(slot'[p], pcs) \in Nat
    <3>1. ASSUME NEW p \in Slots PROVE slot'[p].tries \in Nat /\ MaxProviderAttempts \in Nat
          /\ (slot'[p].pc \in pcs => slot'[p].tries <= MaxProviderAttempts)
      BY BoundsType DEF SlotsFit, SlotFits, Unsettled, Begun, TypeOK, Local
    <3> QED
      BY <3>1 DEF Own
  <2> QED
    BY <2>1, <2>2
<1>2. \A p \in Slots \ {o} : f[p] = g[p]
  BY DEF Others
<1>3. f[o] = Own(slot[o], pcs) /\ g[o] = Own(slot'[o], pcs)
  OBVIOUS
<1>4. Reserve(pcs) = SumFunctionOnSet(f, Slots) /\ Reserve(pcs)' = SumFunctionOnSet(g, Slots)
  BY DEF Reserve, Own
<1> HIDE DEF f, g
<1>5. SumFunctionOnSet(g, Slots) + f[o] = SumFunctionOnSet(f, Slots) + g[o]
  BY <1>1, <1>2, BoundsType, SumMoves
<1>6. SumFunctionOnSet(f, Slots) \in Nat /\ SumFunctionOnSet(g, Slots) \in Nat
  BY <1>1, BoundsType, SumIsNatural
<1> QED
  BY <1>1, <1>3, <1>4, <1>5, <1>6

(* The room that a write needs is in the memory it takes.                     *)
LEMMA ReserveSplits ==
  ASSUME TypeOK, SlotsFit, NEW o \in Slots
  PROVE  Reserve(Begun) + Waits(slot[o].pc) <= Reserve(Unsettled)
<1> DEFINE f == [p \in Slots |-> Own(slot[p], Begun)]
           w == Waits(slot[o].pc)
           g == [p \in Slots |-> IF p = o THEN f[o] + w ELSE f[p]]
           h == [p \in Slots |-> Own(slot[p], Unsettled)]
<1>1. \A p \in Slots : f[p] \in Nat /\ h[p] \in Nat
  BY OwnType
<1>2. w \in Nat
  BY BoundsType DEF Waits
<1>3. \A p \in Slots : g[p] \in Nat
  BY <1>1, <1>2
<1>4. f[o] + w <= h[o]
  <2>1. CASE slot[o].pc = "saving_receipt"
    <3>1. slot[o].tries = 0 /\ MaxProviderAttempts \in Nat
      BY <2>1, BoundsType DEF SlotsFit, SlotFits, Unsettled
    <3>2. f[o] = 0 /\ w = MaxProviderAttempts /\ h[o] = MaxProviderAttempts - 0
      BY <2>1, <3>1 DEF Own, Waits, Unsettled, Begun
    <3> QED
      BY <3>1, <3>2
  <2>2. CASE slot[o].pc # "saving_receipt"
    <3>1. f[o] <= h[o]
      <4>1. CASE slot[o].pc \in Begun
        BY <4>1, <1>1 DEF Own, Begun, Unsettled
      <4>2. CASE slot[o].pc \notin Begun
        BY <4>2, <1>1 DEF Own
      <4> QED
        BY <4>1, <4>2
    <3>2. w = 0
      BY <2>2 DEF Waits
    <3> QED
      BY <3>1, <3>2, <1>1
  <2> QED
    BY <2>1, <2>2
<1>5. ASSUME NEW p \in Slots \ {o} PROVE f[p] <= h[p]
  <2>1. CASE slot[p].pc \in Begun
    BY <2>1, <1>1 DEF Own, Begun, Unsettled
  <2>2. CASE slot[p].pc \notin Begun
    BY <2>2, <1>1 DEF Own
  <2> QED
    BY <2>1, <2>2
<1>6. \A p \in Slots : g[p] <= h[p]
  BY <1>4, <1>5
<1>7. \A p \in Slots \ {o} : f[p] = g[p]
  OBVIOUS
<1>8. g[o] = f[o] + w
  OBVIOUS
<1>9. Reserve(Begun) = SumFunctionOnSet(f, Slots) /\ Reserve(Unsettled) = SumFunctionOnSet(h, Slots)
  BY DEF Reserve
<1> HIDE DEF f, g, h, w
<1>10. SumFunctionOnSet(g, Slots) + f[o] = SumFunctionOnSet(f, Slots) + g[o]
  BY <1>1, <1>3, <1>7, BoundsType, SumMoves
<1>11. SumFunctionOnSet(g, Slots) <= SumFunctionOnSet(h, Slots)
  BY <1>1, <1>3, <1>6, BoundsType, SumGrows
<1>12. /\ SumFunctionOnSet(f, Slots) \in Nat /\ SumFunctionOnSet(g, Slots) \in Nat
       /\ SumFunctionOnSet(h, Slots) \in Nat /\ f[o] \in Nat
  BY <1>1, <1>3, BoundsType, SumIsNatural
<1>13. SumFunctionOnSet(f, Slots) + w <= SumFunctionOnSet(h, Slots)
  BY <1>2, <1>8, <1>10, <1>11, <1>12
<1> QED
  BY <1>9, <1>13 DEF w

(* One request moves, and pays for what it calls.                             *)
Pays(o, pcs, more) == calls' + Own(slot'[o], pcs) <= calls + Own(slot[o], pcs) + more

LEMMA AccountMoves ==
  ASSUME TypeOK, SlotsFit, TypeOK', SlotsFit', Account, NEW o \in Slots, Others(o),
         calls' + Own(slot'[o], Unsettled) + Covered(state) <=
           calls + Own(slot[o], Unsettled) + Covered(state'),
         \/ disk' = disk /\ writing' = writing /\ slot[o].pc \notin Saving /\ Pays(o, Begun, 0)
         \/ \E pc \in Saving : Written(o, pc) /\ Pays(o, Begun, Waits(pc))
  PROVE  Account'
<1>1. /\ Reserve(Unsettled)' + Own(slot[o], Unsettled) = Reserve(Unsettled) + Own(slot'[o], Unsettled)
      /\ Reserve(Unsettled) \in Nat /\ Reserve(Unsettled)' \in Nat
      /\ Own(slot[o], Unsettled) \in Nat /\ Own(slot'[o], Unsettled) \in Nat
  BY ReserveMoves
<1>2. /\ Reserve(Begun)' + Own(slot[o], Begun) = Reserve(Begun) + Own(slot'[o], Begun)
      /\ Reserve(Begun) \in Nat /\ Reserve(Begun)' \in Nat
      /\ Own(slot[o], Begun) \in Nat /\ Own(slot'[o], Begun) \in Nat
  BY ReserveMoves
<1>3. calls \in Nat /\ calls' \in Nat /\ MaxProviderAttempts \in Nat
  BY BoundsType DEF TypeOK
<1>4. Covered(state) \in Nat /\ Covered(state') \in Nat /\ Covered(disk) \in Nat
      /\ Covered(writing.what) \in Nat
  BY CoveredType DEF TypeOK
<1>5. calls' + Reserve(Unsettled)' <= Covered(state')
  BY <1>1, <1>3, <1>4 DEF Account
<1>6. CASE disk' = disk /\ writing' = writing /\ slot[o].pc \notin Saving /\ Pays(o, Begun, 0)
  <2>1. calls' + Own(slot'[o], Begun) <= calls + Own(slot[o], Begun) + 0
    BY <1>6 DEF Pays
  <2>2. calls' + Reserve(Begun)' <= calls + Reserve(Begun)
    BY <2>1, <1>2, <1>3
  <2>3. calls' + Reserve(Begun)' <= Covered(disk)
    BY <2>2, <1>2, <1>3, <1>4 DEF Account
  <2>4. ASSUME writing.by # None
        PROVE  calls' + Reserve(Begun)' + Waits(slot'[writing.by].pc) <= Covered(writing.what)
    <3>1. writing.by \in Slots /\ slot'[writing.by] = slot[writing.by]
      BY <2>4, <1>6 DEF TypeOK, Others
    <3>2. Waits(slot[writing.by].pc) \in Nat
      BY <1>3 DEF Waits
    <3>3. calls + Reserve(Begun) + Waits(slot[writing.by].pc) <= Covered(writing.what)
      BY <2>4 DEF Account
    <3>4. calls' + Reserve(Begun)' + Waits(slot[writing.by].pc) <= Covered(writing.what)
      BY <2>2, <3>2, <3>3, <1>2, <1>3, <1>4
    <3> QED
      BY <3>1, <3>4
  <2> QED
    BY <1>5, <1>6, <2>3, <2>4 DEF Account, Covered, Unfinished, Waits
<1>7. CASE \E pc \in Saving : Written(o, pc) /\ Pays(o, Begun, Waits(pc))
  <2>1. PICK pc \in Saving : Written(o, pc) /\ Pays(o, Begun, Waits(pc))
    BY <1>7
  <2>2. /\ disk' = writing.what /\ writing.by = o /\ writing.by # None /\ slot[o].pc = pc
        /\ writing'.by = None
    BY <2>1, Writer
  <2>3. Waits(pc) \in Nat
    BY <1>3 DEF Waits
  <2>4. calls + Reserve(Begun) + Waits(pc) <= Covered(disk')
    BY <2>2 DEF Account
  <2>5. calls' + Own(slot'[o], Begun) <= calls + Own(slot[o], Begun) + Waits(pc)
    BY <2>1 DEF Pays
  <2>6. Covered(disk') \in Nat
    BY <2>2, <1>4
  <2>7. calls' + Reserve(Begun)' <= Covered(disk')
    BY <2>3, <2>4, <2>5, <2>6, <1>2, <1>3
  <2> QED
    BY <1>5, <2>2, <2>7 DEF Account, Covered, Unfinished
<1> QED
  BY <1>6, <1>7

(* Every action keeps the account.                                            *)
LEMMA SlotFacts ==
  ASSUME Inv, NEW o \in Slots
  PROVE  /\ TypeOK /\ SlotsFit /\ SlotFits(o) /\ calls \in Nat /\ MaxProviderAttempts \in Nat
         /\ slot[o].turn \in Turn /\ slot[o].tries \in Nat /\ state \in State
         /\ state.receipts[slot[o].turn] \in Receipt /\ Covered(state) \in Nat
         /\ slot[o].pc \in Unsettled => slot[o].tries <= MaxProviderAttempts
<1>1. TypeOK /\ SlotsFit /\ SlotFits(o) /\ calls \in Nat /\ MaxProviderAttempts \in Nat /\ state \in State
  BY BoundsType DEF Inv, SlotsFit, TypeOK
<1>2. slot[o].pc \in Unsettled => slot[o].tries <= MaxProviderAttempts
  BY <1>1, SlotType DEF SlotFits, Unsettled
<1> QED
  BY <1>1, <1>2, SlotType, CoveredType

LEMMA ReceiveAccount ==
  ASSUME Inv, Account, SlotsFit',
         NEW o \in Slots, NEW t \in Turn, NEW callId \in CallIds(t), Receive(o, t, callId)
  PROVE  Account'
<1>1. TypeOK /\ TypeOK' /\ SlotsFit /\ calls \in Nat /\ MaxProviderAttempts \in Nat
      /\ state \in State /\ state' \in State /\ state.receipts[t] \in Receipt
      /\ callId \in 0..MaxCalls /\ Covered(state) \in Nat /\ 0 \in Nat
  BY SlotFacts, ReceiveDoes, CallIdType DEF TypeOK, State, Inv
<1>2. /\ slot[o].pc = "idle" /\ slot'[o].tries = 0 /\ Others(o) /\ state'.requests = state.requests
      /\ slot'[o].pc \in {"saving_receipt", "logging"}
  BY <1>1, ReceiveDoes DEF Others
<1>3. disk' = disk /\ writing' = writing /\ calls' = calls
  BY DEF Receive
<1>4. /\ Own(slot[o], Unsettled) = 0 /\ Own(slot[o], Begun) = 0 /\ Own(slot'[o], Begun) = 0
      /\ Own(slot'[o], Unsettled) = MaxProviderAttempts - 0
  BY <1>2 DEF Own, Unsettled, Begun
<1>5. Covered(state') = Covered(state) + MaxProviderAttempts
  <2>1. CASE state.receipts[t].status = "none"
    <3>1. /\ state'.receipts = [state.receipts EXCEPT ![t] = InProgress(callId, state.receipts[t])]
          /\ state'.unfinished = state.unfinished
      BY <2>1, <1>1, ReceiveDoes
    <3>2. InProgress(callId, state.receipts[t]) \in Receipt
          /\ InProgress(callId, state.receipts[t]).status = "in_progress"
      BY <1>1, InProgressType DEF InProgress
    <3>3. state'.requests = state.requests + 0
      BY <1>1, <1>2, StateType
    <3>4. Covered(state') = Covered(state) + 0 + MaxProviderAttempts
      BY <3>1, <3>2, <3>3, <2>1, <1>1, ReceiptCovered
    <3> QED
      BY <3>4, <1>1
  <2>2. CASE state.receipts[t].status # "none"
    <3>1. state'.receipts = state.receipts /\ state'.unfinished = state.unfinished + 1
      BY <2>2, <1>1, ReceiveDoes
    <3> QED
      BY <3>1, <1>1, <1>2, RetryCovered
  <2> QED
    BY <2>1, <2>2
<1>6. calls' + Own(slot'[o], Unsettled) + Covered(state) <=
        calls + Own(slot[o], Unsettled) + Covered(state')
  BY <1>1, <1>3, <1>4, <1>5
<1>7. Pays(o, Begun, 0)
  BY <1>1, <1>3, <1>4 DEF Pays
<1> QED
  BY <1>1, <1>2, <1>3, <1>6, <1>7, AccountMoves DEF Saving

LEMMA LoggedAccount ==
  ASSUME Inv, Account, SlotsFit', NEW o \in Slots, Logged(o)
  PROVE  Account'
<1> DEFINE t == slot[o].turn
           r == InProgress(slot[o].callId, state.receipts[t])
<1>1. TypeOK /\ TypeOK' /\ SlotsFit /\ SlotFits(o) /\ calls \in Nat /\ MaxProviderAttempts \in Nat
      /\ state \in State /\ state' \in State /\ t \in Turn /\ state.receipts[t] \in Receipt
      /\ Covered(state) \in Nat /\ 0 \in Nat /\ r \in Receipt /\ r.status = "in_progress"
  BY SlotFacts, LoggedDoes, SlotType, InProgressType DEF TypeOK, InProgress
<1>2. /\ slot[o].pc = "logging" /\ slot' = [slot EXCEPT ![o].pc = "saving_receipt"]
      /\ state'.receipts = [state.receipts EXCEPT ![t] = r]
      /\ state'.requests = state.requests /\ state'.unfinished = state.unfinished
  BY <1>1, LoggedDoes
<1>3. slot'[o].pc = "saving_receipt" /\ slot'[o].tries = 0 /\ slot[o].tries = 0 /\ Others(o)
  BY <1>1, <1>2, SlotType DEF TypeOK, Others, SlotFits, Unsettled
<1>4. disk' = disk /\ writing' = writing /\ calls' = calls
  BY DEF Logged
<1>5. /\ Own(slot[o], Begun) = 0 /\ Own(slot'[o], Begun) = 0
      /\ Own(slot[o], Unsettled) = MaxProviderAttempts - 0
      /\ Own(slot'[o], Unsettled) = MaxProviderAttempts - 0
  BY <1>2, <1>3 DEF Own, Unsettled, Begun
<1> HIDE DEF r, t
<1>6. Covered(state) <= Covered(state')
  <2>1. state'.requests = state.requests + 0
    BY <1>1, <1>2, StateType
  <2>2. Covered(state') \in {Covered(state) + 0, Covered(state) + 0 + MaxProviderAttempts}
    BY <2>1, <1>1, <1>2, ReceiptCovered
  <2> QED
    BY <2>2, <1>1
<1>7. Covered(state') \in Nat
  BY <1>1, CoveredType
<1>8. calls' + Own(slot'[o], Unsettled) + Covered(state) <=
        calls + Own(slot[o], Unsettled) + Covered(state')
  BY <1>1, <1>4, <1>5, <1>6, <1>7
<1>9. Pays(o, Begun, 0)
  BY <1>1, <1>4, <1>5 DEF Pays
<1> QED
  BY <1>1, <1>2, <1>3, <1>4, <1>8, <1>9, AccountMoves DEF Saving

LEMMA ReplayReceiptAccount == ASSUME Inv, Account, NEW t \in Turn, ReplayReceipt(t) PROVE Account'
BY ReplayReceiptDoes DEF Inv, Account, Reserve, Own, Covered, Unfinished, Waits

LEMMA StartWriteAccount == ASSUME Inv, Account, NEW o \in Slots, StartWrite(o) PROVE Account'
<1>1. /\ TypeOK /\ SlotsFit /\ state' = state /\ disk' = disk /\ slot' = slot /\ calls' = calls
      /\ writing'.by = o /\ writing'.what = state
  BY StartWriteDoes DEF Inv
<1>2. /\ Reserve(Begun) + Waits(slot[o].pc) <= Reserve(Unsettled)
      /\ calls + Reserve(Unsettled) <= Covered(state)
  BY <1>1, ReserveSplits DEF Account
<1>3. calls \in Nat /\ Reserve(Begun) \in Nat /\ Reserve(Unsettled) \in Nat /\ Covered(state) \in Nat
      /\ Waits(slot[o].pc) \in Nat
  BY <1>1, SlotFacts, ReserveType, BoundsType DEF Waits
<1>4. calls + Reserve(Begun) + Waits(slot[o].pc) <= Covered(state)
  BY <1>2, <1>3
<1> QED
  BY <1>1, <1>4 DEF Account, Reserve, Own, Covered, Unfinished, Waits

LEMMA RepeatRequestAccount ==
  ASSUME Inv, Account, SlotsFit', NEW o \in Slots, RepeatRequest(o)
  PROVE  Account'
<1>1. TypeOK /\ TypeOK' /\ SlotsFit /\ calls \in Nat /\ MaxProviderAttempts \in Nat
      /\ slot[o].tries \in Nat /\ Covered(state) \in Nat
  BY SlotFacts, RepeatRequestDoes
<1>2. /\ state' = state /\ disk' = disk /\ writing' = writing /\ calls' = calls + 1
      /\ slot[o].pc = "calling" /\ slot'[o].pc = "calling"
      /\ slot[o].tries < MaxProviderAttempts /\ slot'[o].tries = slot[o].tries + 1 /\ Others(o)
  BY <1>1, RepeatRequestDoes DEF Others
<1>3. \A pcs \in {Unsettled, Begun} :
        /\ Own(slot[o], pcs) = MaxProviderAttempts - slot[o].tries
        /\ Own(slot'[o], pcs) = MaxProviderAttempts - (slot[o].tries + 1)
  BY <1>2 DEF Own, Unsettled, Begun
<1>4. Covered(state') = Covered(state)
  BY <1>2
<1>5. calls' + Own(slot'[o], Unsettled) + Covered(state) <=
        calls + Own(slot[o], Unsettled) + Covered(state')
  BY <1>1, <1>2, <1>3, <1>4
<1>6. Pays(o, Begun, 0)
  BY <1>1, <1>2, <1>3 DEF Pays
<1> QED
  BY <1>1, <1>2, <1>5, <1>6, AccountMoves DEF Saving

(* A request that calls the provider gives up one of its attempts.            *)
LEMMA CallAccount ==
  ASSUME Inv, Account, TypeOK', SlotsFit', NEW o \in Slots,
         NEW pc \in {"saving_receipt", "saving_transcript"}, Written(o, pc),
         CallProvider(o), state' = state
  PROVE  Account'
<1>1. TypeOK /\ SlotsFit /\ SlotFits(o) /\ calls \in Nat /\ MaxProviderAttempts \in Nat
      /\ slot[o].pc = pc /\ slot[o].tries = 0 /\ Covered(state) \in Nat
  BY SlotFacts, Writer DEF SlotFits, Unsettled
<1>2. /\ calls' = calls + 1 /\ slot'[o].pc = "calling" /\ slot'[o].tries = 1 /\ Others(o)
  BY <1>1, CallProviderDoes DEF Others
<1>3. /\ Own(slot[o], Unsettled) = MaxProviderAttempts - 0
      /\ Own(slot'[o], Unsettled) = MaxProviderAttempts - 1
      /\ Own(slot'[o], Begun) = MaxProviderAttempts - 1
  BY <1>1, <1>2 DEF Own, Unsettled, Begun
<1>4. Own(slot[o], Begun) + Waits(pc) = MaxProviderAttempts /\ Own(slot[o], Begun) \in Nat
      /\ Waits(pc) \in Nat
  <2>1. CASE pc = "saving_receipt"
    BY <2>1, <1>1 DEF Own, Waits, Begun
  <2>2. CASE pc = "saving_transcript"
    BY <2>2, <1>1 DEF Own, Waits, Begun
  <2> QED
    BY <2>1, <2>2
<1>5. Covered(state') = Covered(state)
  OBVIOUS
<1>6. calls' + Own(slot'[o], Unsettled) + Covered(state) <=
        calls + Own(slot[o], Unsettled) + Covered(state')
  BY <1>1, <1>2, <1>3, <1>5
<1>7. Pays(o, Begun, Waits(pc))
  BY <1>1, <1>2, <1>3, <1>4 DEF Pays
<1>8. pc \in Saving
  BY DEF Saving
<1> QED
  BY <1>1, <1>2, <1>6, <1>7, <1>8, AccountMoves

(* A request that settles gives up what its receipt stood for, and leaves the *)
(* rest of its attempts.                                                      *)
LEMMA SettlesAccount ==
  ASSUME Inv, Account, SlotsFit', TypeOK', NEW o \in Slots, Others(o), slot[o].pc \in Unsettled,
         slot'[o].pc \notin Unsettled, calls' = calls,
         Covered(state) + slot[o].tries <= Covered(state') + MaxProviderAttempts,
         \/ disk' = disk /\ writing' = writing /\ slot[o].pc \notin Saving
         \/ \E pc \in Saving : Written(o, pc)
  PROVE  Account'
<1>1. TypeOK /\ SlotsFit /\ calls \in Nat /\ MaxProviderAttempts \in Nat
      /\ slot[o].tries \in Nat /\ slot[o].tries <= MaxProviderAttempts /\ Covered(state) \in Nat
      /\ Covered(state') \in Nat /\ Own(slot[o], Begun) \in Nat
  BY SlotFacts, CoveredType, OwnType DEF TypeOK
<1>2. /\ Own(slot[o], Unsettled) = MaxProviderAttempts - slot[o].tries
      /\ Own(slot'[o], Unsettled) = 0 /\ Own(slot'[o], Begun) = 0
  BY DEF Own, Unsettled, Begun
<1>3. calls' + Own(slot'[o], Unsettled) + Covered(state) <=
        calls + Own(slot[o], Unsettled) + Covered(state')
  BY <1>1, <1>2
<1>4. \A pc \in Saving : Waits(pc) \in Nat
  BY <1>1 DEF Waits
<1>5. Pays(o, Begun, 0) /\ \A pc \in Saving : Pays(o, Begun, Waits(pc))
  BY <1>1, <1>2, <1>4 DEF Pays
<1> QED
  BY <1>1, <1>3, <1>5, AccountMoves

LEMMA SettledCovered ==
  ASSUME NEW s \in State, NEW r \in State, NEW t \in Turn, NEW receipt \in Receipt,
         r.receipts = [s.receipts EXCEPT ![t] = receipt],
         NEW k \in Nat, r.requests = s.requests + k, r.unfinished = s.unfinished
  PROVE  Covered(s) + k <= Covered(r) + MaxProviderAttempts
<1>1. Covered(s) \in Nat /\ Covered(r) \in Nat /\ MaxProviderAttempts \in Nat
  BY CoveredType, BoundsType
<1>2. \/ Covered(r) = Covered(s) + k + MaxProviderAttempts
      \/ Covered(r) + MaxProviderAttempts = Covered(s) + k
      \/ Covered(r) = Covered(s) + k
  BY ReceiptCovered
<1> QED
  BY <1>1, <1>2

LEMMA BeginTurnAccount ==
  ASSUME Inv, Account, SlotsFit', NEW o \in Slots, BeginTurn(o)
  PROVE  Account'
<1> DEFINE t == slot[o].turn
<1>1. /\ TypeOK /\ TypeOK' /\ SlotsFit /\ Written(o, "saving_receipt") /\ slot[o].pc = "saving_receipt"
      /\ "saving_receipt" \in Saving /\ t \in Turn /\ state \in State /\ state' \in State
      /\ state.receipts[t] \in Receipt /\ slot[o].tries = 0
      /\ calls \in Nat /\ MaxProviderAttempts \in Nat /\ Covered(state) \in Nat /\ 0 \in Nat
      /\ "saving_receipt" \in Unsettled
  BY WaysOn, BeginTurnTypes, Writer, SlotFacts DEF Saving, TypeOK, SlotFits, Unsettled
<1>2. CASE MakesLoop(o)
  <2>1. /\ state'.receipts = state.receipts /\ state'.requests = state.requests
        /\ state'.unfinished = state.unfinished
    BY <1>1, <1>2, MakesLoopDoes
  <2>2. Covered(state') = Covered(state)
    BY <2>1, SameCovered
  <2>3. slot'[o].pc = "saving_transcript" /\ slot'[o].tries = slot[o].tries /\ Others(o)
        /\ calls' = calls
    BY <1>1, <1>2, SlotType DEF MakesLoop, TypeOK, Others
  <2>4. /\ Own(slot[o], Unsettled) = MaxProviderAttempts - 0 /\ Own(slot[o], Begun) = 0
        /\ Own(slot'[o], Unsettled) = MaxProviderAttempts - 0
        /\ Own(slot'[o], Begun) = MaxProviderAttempts - 0
        /\ Waits("saving_receipt") = MaxProviderAttempts
    BY <1>1, <2>3 DEF Own, Unsettled, Begun, Waits
  <2>5. calls' + Own(slot'[o], Unsettled) + Covered(state) <=
          calls + Own(slot[o], Unsettled) + Covered(state')
    BY <1>1, <2>2, <2>3, <2>4
  <2>6. Pays(o, Begun, Waits("saving_receipt"))
    BY <1>1, <2>3, <2>4 DEF Pays
  <2> QED
    BY <1>1, <2>3, <2>5, <2>6, AccountMoves
<1>3. CASE Calling(o)
  BY <1>1, <1>3, CallAccount DEF Calling
<1>4. ASSUME NEW r \in Receipt, state'.receipts = [state.receipts EXCEPT ![t] = r],
             state'.requests = state.requests, state'.unfinished = state.unfinished,
             slot'[o].pc \in {"saving_result", "saving_failure"}, Others(o), calls' = calls
      PROVE  Account'
  <2>1. state'.requests = state.requests + 0
    BY <1>1, <1>4, StateType
  <2>2. Covered(state) + 0 <= Covered(state') + MaxProviderAttempts
    BY <2>1, <1>1, <1>4, SettledCovered
  <2>3. slot'[o].pc \notin Unsettled
    BY <1>4 DEF Unsettled
  <2> HIDE DEF t
  <2> QED
    BY <2>2, <2>3, <1>1, <1>4, SettlesAccount
<1>5. CASE Finds(o)
  <2>1. PICK i \in DOMAIN state.turns :
          /\ state' = [state EXCEPT !.receipts[t] =
                 [state.receipts[t] EXCEPT !.status = "completed", !.result = state.turns[i].result]]
          /\ slot' = [slot EXCEPT ![o].pc = "saving_result", ![o].call = state.turns[i].result]
          /\ calls' = calls
    BY <1>5 DEF Finds
  <2> DEFINE result == state.turns[i].result
             r == [state.receipts[t] EXCEPT !.status = "completed", !.result = result]
  <2>2. slot'[o].pc = "saving_result" /\ Others(o)
    BY <1>1, <2>1, SlotType DEF TypeOK, Others
  <2>3. /\ state'.receipts = [state.receipts EXCEPT ![t] = r]
        /\ state'.requests = state.requests /\ state'.unfinished = state.unfinished
        /\ result \in Calls
    BY <1>1, <2>1, FindsDoes
  <2>4. r \in Receipt
    <3>1. result \in 0..MaxCalls
      BY <2>3, BoundsType DEF Calls
    <3> HIDE DEF result
    <3> QED
      BY <3>1, <1>1 DEF Receipt, ReceiptStatus
  <2> HIDE DEF r, t
  <2> QED
    BY <2>1, <2>2, <2>3, <2>4, <1>4
<1>6. CASE Refuses(o)
  <2> DEFINE r == [state.receipts[t] EXCEPT !.status = "rejected"]
  <2>1. slot'[o].pc = "saving_failure" /\ Others(o) /\ calls' = calls
    BY <1>1, <1>6, SlotType DEF Refuses, TypeOK, Others
  <2>2. /\ state'.receipts = [state.receipts EXCEPT ![t] = r]
        /\ state'.requests = state.requests /\ state'.unfinished = state.unfinished
    BY <1>1, <1>6, RefusesDoes
  <2>3. r \in Receipt
    BY <1>1 DEF Receipt, ReceiptStatus
  <2> HIDE DEF r, t
  <2> QED
    BY <2>1, <2>2, <2>3, <1>4
<1> QED
  BY <1>2, <1>3, <1>5, <1>6, WaysOn DEF Inv

LEMMA BeginLoopAccount ==
  ASSUME Inv, Account, SlotsFit', NEW o \in Slots, BeginLoop(o)
  PROVE  Account'
<1>1. TypeOK' /\ Written(o, "saving_transcript") /\ CallProvider(o) /\ state' = state
  BY BeginLoopTypes DEF Inv, BeginLoop
<1> QED
  BY <1>1, CallAccount

LEMMA ProviderAnswersAccount ==
  ASSUME Inv, Account, SlotsFit', NEW o \in Slots, ProviderAnswers(o)
  PROVE  Account'
<1> DEFINE t == slot[o].turn
           r == Settled(o, "completed", slot[o].call)
<1>1. TypeOK /\ TypeOK' /\ t \in Turn /\ slot[o].tries \in Nat /\ slot[o].call \in 0..MaxCalls
      /\ state \in State /\ state' \in State
  BY ProviderAnswersDoes, SlotFacts, SlotType DEF TypeOK, Inv
<1>2. /\ slot[o].pc = "calling" /\ slot' = [slot EXCEPT ![o].pc = "saving_result"]
      /\ state'.receipts = [state.receipts EXCEPT ![t] = r]
      /\ state'.requests = state.requests + slot[o].tries /\ state'.unfinished = state.unfinished
  BY ProviderAnswersDoes DEF Inv
<1>3. r \in Receipt
  BY <1>1, SettledType
<1>4. slot'[o].pc = "saving_result" /\ Others(o)
  BY <1>1, <1>2 DEF TypeOK, Others
<1>5. disk' = disk /\ writing' = writing /\ calls' = calls
  BY DEF ProviderAnswers
<1> HIDE DEF r, t
<1>6. Covered(state) + slot[o].tries <= Covered(state') + MaxProviderAttempts
  BY <1>1, <1>2, <1>3, SettledCovered
<1>7. slot[o].pc \in Unsettled /\ slot'[o].pc \notin Unsettled /\ slot[o].pc \notin Saving
  BY <1>2, <1>4 DEF Unsettled, Saving
<1> QED
  BY <1>1, <1>4, <1>5, <1>6, <1>7, SettlesAccount

LEMMA ProviderFailsAccount ==
  ASSUME Inv, Account, SlotsFit', NEW o \in Slots, ProviderFails(o)
  PROVE  Account'
<1> DEFINE t == slot[o].turn
           r == Settled(o, "retryable", 0)
<1>1. TypeOK /\ TypeOK' /\ t \in Turn /\ slot[o].tries \in Nat
      /\ state \in State /\ state' \in State
  BY ProviderFailsDoes, SlotFacts DEF TypeOK, Inv
<1>2. /\ slot[o].pc = "calling" /\ slot' = [slot EXCEPT ![o].pc = "saving_failure"]
      /\ state'.receipts = [state.receipts EXCEPT ![t] = r]
      /\ state'.requests = state.requests + slot[o].tries /\ state'.unfinished = state.unfinished
  BY ProviderFailsDoes DEF Inv
<1>3. r \in Receipt
  <2>1. 0 \in 0..MaxCalls
    BY BoundsType
  <2> QED
    BY <2>1, <1>1, SettledType
<1>4. slot'[o].pc = "saving_failure" /\ Others(o)
  BY <1>1, <1>2 DEF TypeOK, Others
<1>5. disk' = disk /\ writing' = writing /\ calls' = calls
  BY DEF ProviderFails
<1> HIDE DEF r, t
<1>6. Covered(state) + slot[o].tries <= Covered(state') + MaxProviderAttempts
  BY <1>1, <1>2, <1>3, SettledCovered
<1>7. slot[o].pc \in Unsettled /\ slot'[o].pc \notin Unsettled /\ slot[o].pc \notin Saving
  BY <1>2, <1>4 DEF Unsettled, Saving
<1> QED
  BY <1>1, <1>4, <1>5, <1>6, <1>7, SettlesAccount

LEMMA EndAccount ==
  ASSUME Inv, Account, SlotsFit', NEW o \in Slots, ResultSaved(o) \/ Answer(o) \/ FailureSaved(o)
  PROVE  Account'
<1>1. TypeOK /\ TypeOK' /\ SlotsFit /\ state' = state /\ calls' = calls /\ Others(o)
      /\ calls \in Nat /\ MaxProviderAttempts \in Nat /\ Covered(state) \in Nat
  BY EndTypes, SlotFacts DEF Inv, ResultSaved, Answer, FailureSaved, Others, TypeOK
<1>2. slot[o].pc \notin Unsettled /\ slot'[o].pc \notin Unsettled
  <2>1. CASE ResultSaved(o)
    <3>1. slot'[o].pc = "answering" /\ slot[o].pc = "saving_result"
      BY <2>1, <1>1 DEF ResultSaved, Written, TypeOK
    <3> QED
      BY <3>1 DEF Unsettled
  <2>2. CASE Answer(o) \/ FailureSaved(o)
    <3>1. slot'[o] = Idle /\ slot[o].pc \in {"answering", "saving_failure"}
      BY <2>2, <1>1 DEF Answer, FailureSaved, Written, TypeOK
    <3> QED
      BY <3>1, IdleType DEF Unsettled
  <2> QED
    BY <2>1, <2>2
<1>3. /\ Own(slot[o], Unsettled) = 0 /\ Own(slot'[o], Unsettled) = 0
      /\ Own(slot[o], Begun) = 0 /\ Own(slot'[o], Begun) = 0
  BY <1>2 DEF Own, Unsettled, Begun
<1>4. Covered(state') = Covered(state) /\ \A pc \in Saving : Waits(pc) \in Nat
  BY <1>1 DEF Waits
<1>5. calls' + Own(slot'[o], Unsettled) + Covered(state) <=
        calls + Own(slot[o], Unsettled) + Covered(state')
  BY <1>1, <1>3, <1>4
<1>6. Pays(o, Begun, 0) /\ \A pc \in Saving : Pays(o, Begun, Waits(pc))
  BY <1>1, <1>3, <1>4 DEF Pays
<1>7. \/ disk' = disk /\ writing' = writing /\ slot[o].pc \notin Saving
      \/ \E pc \in Saving : Written(o, pc)
  BY DEF ResultSaved, Answer, FailureSaved, Saving
<1> QED
  BY <1>1, <1>5, <1>6, <1>7, AccountMoves

(* Nobody has attempts left after a crash, and the file had room for all that *)
(* were made.                                                                 *)
LEMMA NoReserve ==
  ASSUME \A o \in Slots : slot[o] = Idle
  PROVE  Reserve(Unsettled) = 0 /\ Reserve(Begun) = 0
<1>1. ASSUME NEW pcs \in {Unsettled, Begun} PROVE Reserve(pcs) = 0
  <2> DEFINE f == [o \in Slots |-> Own(slot[o], pcs)]
  <2>1. \A o \in Slots : f[o] = 0
    BY IdleType DEF Own, Unsettled, Begun
  <2> HIDE DEF f
  <2>2. SumFunctionOnSet(f, Slots) = 0
    BY <2>1, BoundsType, SumOfZeros
  <2> QED
    BY <2>2 DEF Reserve, f
<1> QED
  BY <1>1

LEMMA CrashAccount == ASSUME Inv, Account, Crash PROVE Account'
<1>1. /\ TypeOK /\ SlotsFit /\ state' = disk /\ disk' = disk /\ writing'.by = None /\ calls' = calls
      /\ \A o \in Slots : slot'[o] = Idle
  BY CrashTypes DEF Inv, Crash
<1>2. Reserve(Unsettled)' = 0 /\ Reserve(Begun)' = 0
  <2>1. ASSUME NEW pcs \in {Unsettled, Begun} PROVE Reserve(pcs)' = 0
    <3> DEFINE f == [o \in Slots |-> Own(slot'[o], pcs)]
    <3>1. \A o \in Slots : f[o] = 0
      BY <1>1, IdleType DEF Own, Unsettled, Begun
    <3>2. Reserve(pcs)' = SumFunctionOnSet(f, Slots)
      BY DEF Reserve, Own
    <3> HIDE DEF f
    <3>3. SumFunctionOnSet(f, Slots) = 0
      BY <3>1, BoundsType, SumOfZeros
    <3> QED
      BY <3>2, <3>3
  <2> QED
    BY <2>1
<1>3. calls \in Nat /\ Reserve(Begun) \in Nat /\ Covered(disk) \in Nat
  BY <1>1, ReserveType, BoundsType, CoveredType DEF TypeOK
<1>4. calls + 0 <= Covered(disk)
  BY <1>3 DEF Account
<1> QED
  BY <1>1, <1>2, <1>4 DEF Account, Covered, Unfinished

-----------------------------------------------------------------------------
(* The theorems.                                                              *)
IInv == Inv /\ Account

LEMMA Start == Init => IInv
<1> SUFFICES ASSUME Init PROVE IInv
  OBVIOUS
<1>1. /\ state = FreshState /\ disk = FreshState /\ writing.by = None /\ writing.what = FreshState
      /\ calls = 0 /\ slot = [o \in Slots |-> Idle]
      /\ delivered = [t \in Turn |-> {}] /\ told = [t \in Turn |-> {}]
  BY DEF Init, NoWrite
<1>2. TypeOK
  BY <1>1, FreshStateType, IdleType, BoundsType DEF Init, TypeOK, NoWrite
<1>3. SlotsFit
  BY <1>1, IdleType DEF SlotsFit, SlotFits, Active, Unsettled, Begun
<1>4. WritesFollow /\ AllSound /\ AnswersAreKept
  BY <1>1, FollowsSelf, FreshStateSound DEF WritesFollow, AllSound, AnswersAreKept
<1>5. KnownIsPast /\ OpenIsNew
  BY <1>1, IdleType, FreshStateNames DEF KnownIsPast, OpenIsNew, Known
<1>6. Account
  <2>1. Reserve(Unsettled) = 0 /\ Reserve(Begun) = 0
    BY <1>1, NoReserve
  <2>2. Covered(FreshState) \in Nat
    BY FreshStateType, CoveredType
  <2> QED
    BY <2>1, <2>2, <1>1 DEF Account
<1> QED
  BY <1>2, <1>3, <1>4, <1>5, <1>6 DEF IInv, Inv

LEMMA StoryIsInv ==
  ASSUME TypeOK', Story', KnownIsPast', OpenIsNew', Account' PROVE IInv'
BY DEF IInv, Inv, Story

LEMMA Kept == IInv /\ [Next]_vars => IInv'
<1> SUFFICES ASSUME IInv, [Next]_vars PROVE IInv'
  OBVIOUS
<1>0. Inv /\ Account /\ TypeOK
  BY DEF IInv, Inv
<1>1. ASSUME NEW o \in Slots, NEW t \in Turn, NEW callId \in CallIds(t), Receive(o, t, callId)
      PROVE  IInv'
  <2>1. TypeOK' /\ Story' /\ KnownIsPast' /\ OpenIsNew'
    BY <1>0, <1>1, ReceiveDoes, ReceiveKeeps, ReceiveNumbers
  <2>2. Account'
    BY <2>1, <1>0, <1>1, ReceiveAccount DEF Story
  <2> QED
    BY <2>1, <2>2, StoryIsInv
<1>2. ASSUME NEW t \in Turn, ReplayReceipt(t) PROVE IInv'
  BY <1>0, <1>2, ReplayReceiptDoes, ReplayReceiptKeeps, ReplayReceiptNumbers,
     ReplayReceiptAccount, StoryIsInv
<1>3. ASSUME NEW o \in Slots, Logged(o) PROVE IInv'
  <2>1. TypeOK' /\ Story' /\ KnownIsPast' /\ OpenIsNew'
    BY <1>0, <1>3, LoggedDoes, LoggedKeeps, LoggedNumbers
  <2>2. Account'
    BY <2>1, <1>0, <1>3, LoggedAccount DEF Story
  <2> QED
    BY <2>1, <2>2, StoryIsInv
<1>4. ASSUME NEW o \in Slots, StartWrite(o) PROVE IInv'
  BY <1>0, <1>4, StartWriteDoes, StartWriteKeeps, StartWriteNumbers, StartWriteAccount, StoryIsInv
<1>5. ASSUME NEW o \in Slots, BeginTurn(o) PROVE IInv'
  <2>1. TypeOK' /\ Story' /\ KnownIsPast' /\ OpenIsNew'
    BY <1>0, <1>5, BeginTurnTypes, BeginTurnKeeps, BeginTurnNumbers
  <2>2. Account'
    BY <2>1, <1>0, <1>5, BeginTurnAccount DEF Story
  <2> QED
    BY <2>1, <2>2, StoryIsInv
<1>6. ASSUME NEW o \in Slots, BeginLoop(o) PROVE IInv'
  <2>1. TypeOK' /\ Story' /\ KnownIsPast' /\ OpenIsNew'
    BY <1>0, <1>6, BeginLoopTypes, BeginLoopKeeps, BeginLoopNumbers
  <2>2. Account'
    BY <2>1, <1>0, <1>6, BeginLoopAccount DEF Story
  <2> QED
    BY <2>1, <2>2, StoryIsInv
<1>7. ASSUME NEW o \in Slots, RepeatRequest(o) PROVE IInv'
  <2>1. TypeOK' /\ Story' /\ KnownIsPast' /\ OpenIsNew'
    BY <1>0, <1>7, RepeatRequestDoes, RepeatRequestKeeps, RepeatRequestNumbers
  <2>2. Account'
    BY <2>1, <1>0, <1>7, RepeatRequestAccount DEF Story
  <2> QED
    BY <2>1, <2>2, StoryIsInv
<1>8. ASSUME NEW o \in Slots, ProviderAnswers(o) PROVE IInv'
  <2>1. TypeOK' /\ Story' /\ KnownIsPast' /\ OpenIsNew'
    BY <1>0, <1>8, ProviderAnswersDoes, ProviderAnswersKeeps, ProviderAnswersNumbers DEF Inv
  <2>2. Account'
    BY <2>1, <1>0, <1>8, ProviderAnswersAccount DEF Story
  <2> QED
    BY <2>1, <2>2, StoryIsInv
<1>9. ASSUME NEW o \in Slots, ProviderFails(o) PROVE IInv'
  <2>1. TypeOK' /\ Story' /\ KnownIsPast' /\ OpenIsNew'
    BY <1>0, <1>9, ProviderFailsDoes, ProviderFailsKeeps, ProviderFailsNumbers
  <2>2. Account'
    BY <2>1, <1>0, <1>9, ProviderFailsAccount DEF Story
  <2> QED
    BY <2>1, <2>2, StoryIsInv
<1>10. ASSUME NEW o \in Slots, ResultSaved(o) \/ Answer(o) \/ FailureSaved(o) PROVE IInv'
  <2>1. TypeOK' /\ Story' /\ KnownIsPast' /\ OpenIsNew'
    BY <1>0, <1>10, EndTypes, ResultSavedKeeps, AnswerKeeps, FailureSavedKeeps, EndNumbers
  <2>2. Account'
    BY <2>1, <1>0, <1>10, EndAccount DEF Story
  <2> QED
    BY <2>1, <2>2, StoryIsInv
<1>11. ASSUME Crash PROVE IInv'
  BY <1>0, <1>11, CrashTypes, CrashKeeps, CrashNumbers, CrashAccount, StoryIsInv
<1>12. ASSUME UNCHANGED vars PROVE IInv'
  <2>1. /\ state' = state /\ disk' = disk /\ writing' = writing /\ pending' = pending
        /\ slot' = slot /\ calls' = calls /\ delivered' = delivered /\ told' = told
        /\ crashes' = crashes
    BY <1>12 DEF vars
  <2>2. TypeOK' /\ SlotsFit' /\ WritesFollow'
    BY <2>1 DEF IInv, Inv, TypeOK, SlotsFit, SlotFits, Active, WritesFollow, Follows, Has
  <2>3. AllSound' /\ AnswersAreKept'
    BY <2>1 DEF IInv, Inv, AllSound, Sound, Doubled, InOrder, RefusedRightly, Refused, Has,
       AnswersAreKept
  <2>4. KnownIsPast' /\ OpenIsNew'
    BY <2>1 DEF IInv, Inv, KnownIsPast, Known, Names, OpenIsNew
  <2>5. Account'
    BY <2>1 DEF IInv, Account, Reserve, Own, Waits, Covered, Unfinished
  <2> QED
    BY <2>2, <2>3, <2>4, <2>5 DEF IInv, Inv
<1> QED
  BY <1>1, <1>2, <1>3, <1>4, <1>5, <1>6, <1>7, <1>8, <1>9, <1>10, <1>11, <1>12 DEF Next

LEMMA Invariant == Spec => []IInv
BY Start, Kept, PTL DEF Spec

(* Whatever the number of requests at once, of turns and crashes: a result    *)
(* that an operation ended with is never lost from the transcript, although   *)
(* duplicates run the same turn and replace its receipt at any await.         *)
THEOREM TurnsKeepTheirAnswers == Spec => []AnswersAreKept
<1>1. IInv => AnswersAreKept
  BY DEF IInv, Inv
<1> QED
  BY <1>1, Invariant, PTL

(* A cell that continues from a result an operation ended with is refused     *)
(* only if duplicates have put a turn into the transcript twice.              *)
THEOREM TurnsAreServed == Spec => []LegalTurnsAreServed
<1>1. IInv => LegalTurnsAreServed
  <2> SUFFICES ASSUME IInv, NEW t \in Turn \ {0}, Refused(state, t),
                      state.receipts[t].callId \in delivered[t - 1]
               PROVE  Doubled(state)
    BY DEF LegalTurnsAreServed
  <2>1. Has(state, t - 1, state.receipts[t].callId)
    BY TurnType DEF IInv, Inv, AnswersAreKept
  <2> QED
    BY <2>1 DEF IInv, Inv, AllSound, Sound, RefusedRightly
<1> QED
  BY <1>1, Invariant, PTL

(* Every request that went to the provider is within what the metrics stand   *)
(* for, a second operation's of the same action and a crash's included.       *)
THEOREM CostStaysAccounted == Spec => []CostIsAccounted
<1>1. IInv => CostIsAccounted
  <2> SUFFICES ASSUME IInv PROVE calls <= Covered(state)
    BY DEF CostIsAccounted
  <2>1. /\ calls + Reserve(Unsettled) <= Covered(state) /\ TypeOK /\ SlotsFit
    BY DEF IInv, Inv, Account
  <2>2. calls \in Nat /\ Reserve(Unsettled) \in Nat /\ Covered(state) \in Nat
    BY <2>1, ReserveType, BoundsType, CoveredType DEF TypeOK
  <2> QED
    BY <2>1, <2>2
<1> QED
  BY <1>1, Invariant, PTL
=============================================================================
