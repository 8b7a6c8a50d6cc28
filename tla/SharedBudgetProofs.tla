-------------------------- MODULE SharedBudgetProofs --------------------------
(***************************************************************************)
(* Proofs about SharedBudget, for every tree of runs, budget and word, and *)
(* about LiveBooks, for any runs, agents, places, lines and hours.         *)
(***************************************************************************)
EXTENDS SharedBudget, LiveBooks, Sums, SequenceTheorems

(* A run between calls owes nothing; a run with a call under way owes it. *)
Owing ==
    \A r \in Runs :
        /\ pc[r] = "idle" => due[r] = {}
        /\ pc[r] \in {"calling", "loading", "swapping"} => call[r] \in due[r]

IInv == TypeOK /\ Owing

LEMMA InitIInv == Init => IInv
  BY SharedAssumption DEF Init, IInv, TypeOK, Owing

LEMMA NextIInv == IInv /\ [Next]_vars => IInv'
<1>1. SUFFICES ASSUME IInv, [Next]_vars PROVE IInv'
  OBVIOUS
<1>2. TypeOK /\ Owing
  BY <1>1 DEF IInv
<1>3. ASSUME NEW r \in Runs, Check(r) PROVE IInv'
  BY <1>2, <1>3 DEF IInv, TypeOK, Owing, Check
<1>4. ASSUME NEW r \in Runs, Ask(r) PROVE IInv'
  BY <1>2, <1>4 DEF IInv, TypeOK, Owing, Ask
<1>5. ASSUME NEW r \in Runs, Answer(r) PROVE IInv'
  <2>1. Amounts \subseteq 0..PerCall
    BY SharedAssumption
  <2>2. QED
    BY <1>2, <1>5, <2>1 DEF IInv, TypeOK, Owing, Answer
<1>6. ASSUME NEW r \in Runs, Fail(r) PROVE IInv'
  <2>1. PICK rest \in {due[r] \ {call[r]}, {}} :
            /\ due' = [due EXCEPT ![r] = rest]
            /\ pc' = [pc EXCEPT ![r] = IF rest = {} THEN "idle" ELSE "ready"]
    BY <1>6 DEF Fail
  <2>2. rest \in SUBSET Calls
    BY <1>2, <2>1 DEF TypeOK
  <2>3. QED
    BY <1>2, <1>6, <2>1, <2>2 DEF IInv, TypeOK, Owing, Fail
<1>7. ASSUME NEW r \in Runs, LoadCounter(r) PROVE IInv'
  BY <1>2, <1>7 DEF IInv, TypeOK, Owing, LoadCounter
<1>8. ASSUME NEW r \in Runs, Swap(r) PROVE IInv'
  <2>1. current[r] \in Nat /\ amount[r] \in Nat /\ spent \in Nat
    BY <1>2, SharedAssumption DEF TypeOK
  <2>2. used' \in 0..MaxWord /\ spent' \in Nat
    BY <1>8, <2>1, SharedAssumption DEF Swap, Paid, Saturated
  <2>3. due[r] \ {call[r]} \in SUBSET Calls
    BY <1>2 DEF TypeOK
  <2>4. QED
    BY <1>2, <1>8, <2>2, <2>3 DEF IInv, TypeOK, Owing, Swap, Paid
<1>9. ASSUME NEW r \in Runs, Retry(r) PROVE IInv'
  BY <1>2, <1>9 DEF IInv, TypeOK, Owing, Retry
<1>10. ASSUME NEW r \in Runs, Cancel(r) PROVE IInv'
  BY <1>2, <1>10 DEF IInv, TypeOK, Owing, Cancel
<1>11. CASE UNCHANGED vars
  BY <1>2, <1>11 DEF vars, runVars, IInv, TypeOK, Owing
<1>12. QED
  BY <1>1, <1>3, <1>4, <1>5, <1>6, <1>7, <1>8, <1>9, <1>10, <1>11 DEF Next

(* The types are kept (TypeOK). *)
THEOREM TypeCorrect == Spec => []TypeOK
<1>1. IInv => TypeOK
  BY DEF IInv
<1>2. QED
  BY InitIInv, NextIInv, <1>1, PTL DEF Spec

-----------------------------------------------------------------------------
(* Refinement *)

LEMMA FiniteSlots == IsFiniteSet(Runs \X Calls)
  BY SharedAssumption, FS_Product

LEMMA InitRefines == Init => Abstract!Init
<1>1. Init => Outstanding = {}
  BY DEF Init, Outstanding
<1>2. QED
  BY <1>1, FS_EmptySet DEF Init, Abstract!Init

(* Admitting a run's calls, paying for one and giving up some are the      *)
(* atomic budget's steps; asking, answering, loading and retrying change   *)
(* nothing it can see.                                                     *)
LEMMA NextRefines == IInv /\ [Next]_vars => [Abstract!Next]_Abstract!budgetVars
<1>1. SUFFICES ASSUME IInv, [Next]_vars PROVE [Abstract!Next]_Abstract!budgetVars
  OBVIOUS
<1>2. TypeOK /\ Owing
  BY <1>1 DEF IInv
<1>3. ASSUME NEW r \in Runs, Check(r) PROVE Abstract!Next
  <2>1. due[r] = {} /\ due \in [Runs -> SUBSET Calls]
    BY <1>2, <1>3 DEF Owing, Check, TypeOK
  <2>2. Outstanding \subseteq Outstanding'
    BY <1>3, <2>1 DEF Outstanding, Check
  <2>3. Outstanding' \subseteq Runs \X Calls
    BY DEF Outstanding
  <2>4. /\ Cardinality(Outstanding) \in Nat /\ Cardinality(Outstanding') \in Nat
        /\ Cardinality(Outstanding) <= Cardinality(Outstanding')
        /\ Cardinality(Outstanding') <= Cardinality(Runs \X Calls)
        /\ Cardinality(Runs \X Calls) \in Nat
    BY <2>2, <2>3, FiniteSlots, FS_Subset, FS_CardinalityType
  <2> DEFINE n == Cardinality(Outstanding') - Cardinality(Outstanding)
  <2>5. n \in 0..Cardinality(Runs \X Calls)
    BY <2>4
  <2>6. Abstract!Admit(n)
    BY <1>3, <2>4 DEF Check, Abstract!Admit, Exhausted, Abstract!Exhausted
  <2>7. QED
    BY <2>5, <2>6 DEF Abstract!Next
<1>4. ASSUME NEW r \in Runs, Fail(r) \/ Cancel(r) PROVE Abstract!Next
  <2>1. Outstanding' \subseteq Outstanding
    BY <1>2, <1>4 DEF Fail, Cancel, TypeOK, Outstanding
  <2>2. Outstanding \subseteq Runs \X Calls
    BY DEF Outstanding
  <2>3. /\ Cardinality(Outstanding) \in Nat /\ Cardinality(Outstanding') \in Nat
        /\ Cardinality(Outstanding') <= Cardinality(Outstanding)
        /\ Cardinality(Outstanding) <= Cardinality(Runs \X Calls)
        /\ Cardinality(Runs \X Calls) \in Nat
    BY <2>1, <2>2, FiniteSlots, FS_Subset, FS_CardinalityType
  <2> DEFINE n == Cardinality(Outstanding) - Cardinality(Outstanding')
  <2>4. n \in 0..Cardinality(Runs \X Calls)
    BY <2>3
  <2>5. Abstract!Drop(n)
    BY <1>4, <2>3 DEF Fail, Cancel, Abstract!Drop
  <2>6. QED
    BY <2>4, <2>5 DEF Abstract!Next
<1>5. ASSUME NEW r \in Runs, Swap(r) PROVE Abstract!Next
  <2> DEFINE s == <<r, call[r]>>
  <2>1. call[r] \in due[r] /\ due \in [Runs -> SUBSET Calls]
    BY <1>2, <1>5 DEF Owing, Swap, TypeOK
  <2>2. s \in Outstanding /\ Outstanding \subseteq Runs \X Calls
    BY <2>1 DEF Outstanding
  <2>3. due' = [due EXCEPT ![r] = due[r] \ {call[r]}]
    BY <1>5 DEF Swap, Paid
  <2>4. Outstanding' = Outstanding \ {s}
    BY <2>1, <2>3 DEF Outstanding
  <2>5. IsFiniteSet(Outstanding)
    BY <2>2, FiniteSlots, FS_Subset
  <2>6. /\ Cardinality(Outstanding) \in Nat /\ Cardinality(Outstanding') \in Nat
        /\ Cardinality(Outstanding') = Cardinality(Outstanding) - 1
    BY <2>2, <2>4, <2>5, FS_RemoveElement, FS_CardinalityType
  <2>7. amount[r] \in 0..PerCall
    BY <1>2 DEF TypeOK
  <2>8. Abstract!Pay(amount[r])
    BY <1>5, <2>6 DEF Swap, Paid, Abstract!Pay, Saturated, Abstract!Saturated
  <2>9. QED
    BY <2>7, <2>8 DEF Abstract!Next
<1>6. ASSUME NEW r \in Runs, Ask(r) \/ Answer(r) \/ LoadCounter(r) \/ Retry(r)
      PROVE  UNCHANGED Abstract!budgetVars
  BY <1>6 DEF Ask, Answer, LoadCounter, Retry, Abstract!budgetVars, Outstanding
<1>7. CASE UNCHANGED vars
  BY <1>7 DEF vars, runVars, Abstract!budgetVars, Outstanding
<1>8. QED
  BY <1>1, <1>3, <1>4, <1>5, <1>6, <1>7 DEF Next

(* The compare-and-swap counter implements the atomic budget.              *)
THEOREM Refinement == Spec => ImplementsBudget
<1>1. Spec => []IInv
  BY InitIInv, NextIInv, PTL DEF Spec
<1>2. QED
  BY <1>1, InitRefines, NextRefines, PTL DEF Spec, ImplementsBudget, Abstract!Spec

-----------------------------------------------------------------------------
(* What the atomic budget promises *)

Slots == Cardinality(Runs \X Calls)
Open == Cardinality(Outstanding)

(* The most that n calls cost. *)
Cost(n) == PerCall * n

(* What is spent and what the open calls may still cost. *)
Committed ==
    IF MaxTokens = 0 THEN Open = 0 /\ spent = 0
    ELSE spent + Cost(Open) < MaxTokens + Cost(Slots)

BudgetInv ==
    /\ Open \in 0..Slots /\ spent \in Nat /\ used \in Nat
    /\ CounterExact /\ Committed

LEMMA CostIsNat == \A n \in Nat : Cost(n) \in Nat
  BY SharedAssumption DEF Cost

(* Fewer calls cost no more. *)
LEMMA FewerCostLess == \A m, n \in Nat : m <= n => Cost(m) <= Cost(n)
<1>1. SUFFICES ASSUME NEW m \in Nat, NEW n \in Nat, m <= n
               PROVE  Cost(m) <= Cost(n)
  OBVIOUS
<1>2. PICK d \in Nat : n = m + d
  <2>1. n - m \in Nat /\ n = m + (n - m)
    BY <1>1
  <2>2. QED
    BY <2>1
<1>3. /\ PerCall * n = PerCall * m + PerCall * d
      /\ PerCall * d \in Nat /\ PerCall * m \in Nat
  BY <1>2, SharedAssumption
<1>4. QED
  BY <1>3 DEF Cost

(* One call fewer costs one call's tokens less. *)
LEMMA OneCallCost == \A n \in Nat : Cost(n - 1) = Cost(n) - PerCall
  BY SharedAssumption DEF Cost

LEMMA SlotsType == Slots \in Nat
  BY FiniteSlots, FS_CardinalityType DEF Slots

LEMMA InitBudgetInv == Abstract!Init => BudgetInv
<1>1. Cost(0) = 0 /\ Cost(Slots) \in Nat
  BY SlotsType, CostIsNat, SharedAssumption DEF Cost
<1>2. QED
  BY <1>1, SlotsType, SharedAssumption
     DEF Abstract!Init, BudgetInv, Open, CounterExact, Abstract!CounterExact,
         Abstract!Saturated, Committed

(* Each step keeps the invariant: admission because nothing is overspent   *)
(* when it happens, payment because it frees the slot it spends.           *)
LEMMA NextBudgetInv == BudgetInv /\ [Abstract!Next]_Abstract!budgetVars => BudgetInv'
<1>1. SUFFICES ASSUME BudgetInv, [Abstract!Next]_Abstract!budgetVars PROVE BudgetInv'
  OBVIOUS
<1>2. /\ Slots \in Nat /\ Slots' = Slots
      /\ MaxTokens \in Nat /\ PerCall \in Nat /\ MaxWord \in Nat /\ MaxTokens <= MaxWord
  BY SlotsType, SharedAssumption DEF Slots
<1>3. /\ Open \in 0..Slots /\ spent \in Nat /\ used \in Nat
      /\ used = IF spent > MaxWord THEN MaxWord ELSE spent
  BY <1>1 DEF BudgetInv, CounterExact, Abstract!CounterExact, Abstract!Saturated
<1>4. Committed' <=> IF MaxTokens = 0 THEN Open' = 0 /\ spent' = 0
                     ELSE spent' + Cost(Open') < MaxTokens + Cost(Slots)
  BY DEF Committed, Cost, Slots
<1>5. ASSUME NEW n \in 0..Slots, Abstract!Admit(n) PROVE BudgetInv'
  <2>1. Open' \in 0..Slots /\ spent' = spent /\ used' = used
    BY <1>2, <1>3, <1>5 DEF Abstract!Admit, Open, Slots
  <2>2. used < MaxTokens
    BY <1>2, <1>3, <1>5 DEF Abstract!Admit, Abstract!Exhausted
  <2>3. spent = used
    BY <1>2, <1>3, <2>2
  <2>4. Cost(Open') <= Cost(Slots) /\ Cost(Open') \in Nat /\ Cost(Slots) \in Nat
    BY <1>2, <2>1, FewerCostLess, CostIsNat
  <2>5. Committed'
    BY <1>2, <1>3, <1>4, <2>1, <2>2, <2>3, <2>4
  <2>6. QED
    BY <1>1, <1>2, <1>3, <2>1, <2>5
       DEF BudgetInv, CounterExact, Abstract!CounterExact, Abstract!Saturated
<1>6. ASSUME NEW n \in 0..Slots, Abstract!Drop(n) PROVE BudgetInv'
  <2>1. Open' \in 0..Slots /\ Open' <= Open /\ spent' = spent /\ used' = used
    BY <1>2, <1>3, <1>6 DEF Abstract!Drop, Open
  <2>2. /\ Cost(Open') <= Cost(Open)
        /\ Cost(Open') \in Nat /\ Cost(Open) \in Nat /\ Cost(Slots) \in Nat
    BY <1>2, <1>3, <2>1, FewerCostLess, CostIsNat
  <2>3. Committed
    BY <1>1 DEF BudgetInv
  <2>4. Committed'
    BY <1>2, <1>3, <1>4, <2>1, <2>2, <2>3 DEF Committed
  <2>5. QED
    BY <1>1, <1>2, <1>3, <2>1, <2>4
       DEF BudgetInv, CounterExact, Abstract!CounterExact, Abstract!Saturated
<1>7. ASSUME NEW n \in 0..PerCall, Abstract!Pay(n) PROVE BudgetInv'
  <2>1. /\ Open > 0 /\ Open' = Open - 1 /\ spent' = spent + n
        /\ used' = IF used + n > MaxWord THEN MaxWord ELSE used + n
    BY <1>7 DEF Abstract!Pay, Open, Abstract!Saturated
  <2>2. n \in Nat /\ n <= PerCall
    BY <1>2
  <2>3. Open' \in 0..Slots /\ spent' \in Nat /\ used' \in Nat
    BY <1>2, <1>3, <2>1, <2>2
  <2>4. CounterExact'
    BY <1>2, <1>3, <2>1, <2>2 DEF CounterExact, Abstract!CounterExact, Abstract!Saturated
  <2>5. Cost(Open') = Cost(Open) - PerCall
    BY <1>2, <1>3, <2>1, OneCallCost
  <2>6. Cost(Open) \in Nat /\ Cost(Slots) \in Nat
    BY <1>2, <1>3, CostIsNat
  <2>7. Committed /\ MaxTokens # 0
    BY <1>1, <1>3, <2>1 DEF BudgetInv, Committed
  <2>8. Committed'
    BY <1>2, <1>3, <1>4, <2>1, <2>2, <2>5, <2>6, <2>7 DEF Committed
  <2>9. QED
    BY <1>2, <2>3, <2>4, <2>8 DEF BudgetInv
<1>8. CASE UNCHANGED Abstract!budgetVars
  <2>1. Open' = Open /\ spent' = spent /\ used' = used
    BY <1>8 DEF Abstract!budgetVars, Open
  <2>2. QED
    BY <1>1, <1>2, <2>1
       DEF BudgetInv, CounterExact, Abstract!CounterExact, Abstract!Saturated, Committed, Cost
<1>9. QED
  BY <1>1, <1>5, <1>6, <1>7, <1>8 DEF Abstract!Next, Slots

LEMMA BudgetInvBounds == BudgetInv => CounterExact /\ SpendBounded
<1>1. SUFFICES ASSUME BudgetInv PROVE SpendBounded
  BY DEF BudgetInv
<1>2. Cost(Open) \in Nat /\ Cost(Slots) \in Nat
  BY <1>1, SlotsType, CostIsNat DEF BudgetInv
<1>3. IF MaxTokens = 0 THEN spent = 0 ELSE spent < MaxTokens + Cost(Slots)
  BY <1>1, <1>2, SharedAssumption DEF BudgetInv, Committed
<1>4. QED
  BY <1>3 DEF SpendBounded, Abstract!SpendBounded, Cost, Slots

(* The atomic budget counts exactly what was spent, and its overshoot is   *)
(* bounded by the calls that can be open at once (SharedBudget::charge).   *)
THEOREM BudgetHolds == Abstract!Spec => [](CounterExact /\ SpendBounded)
<1>1. Abstract!Spec => []BudgetInv
  BY InitBudgetInv, NextBudgetInv, PTL DEF Abstract!Spec
<1>2. QED
  BY <1>1, BudgetInvBounds, PTL

(* So does its implementation: no charge is lost and the overshoot is      *)
(* bounded, however many runs race.                                        *)
THEOREM BudgetSafety == Spec => [](CounterExact /\ SpendBounded)
BY Refinement, BudgetHolds DEF ImplementsBudget

-----------------------------------------------------------------------------
(* LiveBooks *)

RunRecord ==
  [at : {"new", "steps", "call", "parked", "over"}, def : Agents, entry : Agents, as : Agents,
   by : {"caller", "watcher"}, tokens : Nat, stints : Nat, closing : Nat, finished : Nat,
   dropped : Nat, missed : BOOLEAN]

BooksTyped ==
  /\ run \in [RunIds -> RunRecord] /\ parked \subseteq RunIds
  /\ DOMAIN inFlight \subseteq RunIds /\ inFlight \in [DOMAIN inFlight -> Agents]
  /\ tally \in [Agents -> [runs : Nat, cancelled : Nat]]
  /\ IsFiniteSet(DOMAIN lines) /\ lines \in [DOMAIN lines -> Nat]
  /\ watch \in [digest : Scenes \cup {Quiet}, runs : Seq(Nat), asks : RunIds \cup {NoRun}]
  /\ scene \in Scenes /\ asked \in Seq(Nat) /\ now \in Nat

\* A run that has not begun has not ended, nor will it before it begins.
Unbegun ==
  \A r \in RunIds : run[r].at = "new" =>
    run[r].tokens = 0 /\ run[r].closing = 0 /\ run[r].finished = 0 /\ run[r].dropped = 0

BooksBase == BooksTyped /\ Unbegun /\ NothingStays

\* What is changed of one run.
LEMMA OneRun ==
  ASSUME run \in [RunIds -> RunRecord], NEW r \in RunIds, NEW x \in RunRecord,
         run' = [run EXCEPT ![r] = x]
  PROVE  run' \in [RunIds -> RunRecord] /\ run'[r] = x
         /\ \A q \in RunIds \ {r} : run'[q] = run[q]
  OBVIOUS

\* The book of the runs in flight, with one more or one less.
LEMMA BookStarts ==
  ASSUME BooksTyped, NEW r \in RunIds, NEW agent \in Agents, RunStarted(r, agent)
  PROVE  /\ DOMAIN inFlight' \subseteq DOMAIN inFlight \cup {r}
         /\ inFlight' \in [DOMAIN inFlight' -> Agents]
<1>1. CASE inFlight' = inFlight
  BY <1>1 DEF BooksTyped
<1>2. CASE inFlight' = Put(inFlight, r, agent)
  BY <1>2 DEF BooksTyped, Put
<1> QED  BY <1>1, <1>2 DEF RunStarted

LEMMA BookEnds ==
  ASSUME BooksTyped, NEW r \in RunIds,
         inFlight' = Restrict(inFlight, DOMAIN inFlight \ {r})
  PROVE  /\ DOMAIN inFlight' = DOMAIN inFlight \ {r}
         /\ inFlight' \in [DOMAIN inFlight' -> Agents]
  BY DEF BooksTyped, Restrict

\* A run that begins.
LEMMA BegunTyped ==
  ASSUME NEW agent \in Agents, NEW by \in {"caller", "watcher"}, NEW at \in {"new", "steps"},
         NEW missed \in BOOLEAN
  PROVE  /\ Begun(agent, by, at, missed) \in RunRecord
         /\ Begun(agent, by, at, missed).at = at /\ Begun(agent, by, at, missed).tokens = 0
         /\ Begun(agent, by, at, missed).closing = 0 /\ Begun(agent, by, at, missed).finished = 0
         /\ Begun(agent, by, at, missed).dropped = 0
  BY DEF Begun, RunRecord

LEMMA BooksBaseInit == BooksInit => BooksBase
<1> SUFFICES ASSUME BooksInit PROVE BooksBase
  OBVIOUS
<1> USE BooksAssumption DEF BooksInit
<1>1. run \in [RunIds -> RunRecord]
  BY BegunTyped
<1>2. DOMAIN inFlight = {} /\ DOMAIN lines = {} /\ IsFiniteSet({})
  BY FS_EmptySet
<1>3. /\ inFlight \in [DOMAIN inFlight -> Agents] /\ DOMAIN inFlight \subseteq RunIds
      /\ IsFiniteSet(DOMAIN lines) /\ lines \in [DOMAIN lines -> Nat]
  BY <1>2
<1>4. tally \in [Agents -> [runs : Nat, cancelled : Nat]]
  OBVIOUS
<1>5. /\ watch \in [digest : Scenes \cup {Quiet}, runs : Seq(Nat), asks : RunIds \cup {NoRun}]
      /\ asked \in Seq(Nat) /\ scene \in Scenes /\ now \in Nat
      /\ parked \subseteq RunIds
  OBVIOUS
<1>6. Unbegun /\ NothingStays
  BY <1>2, BegunTyped DEF Unbegun, NothingStays
<1> QED  BY <1>1, <1>3, <1>4, <1>5, <1>6 DEF BooksBase, BooksTyped

\* What the counts see of a step: the tokens and ends of runs, and what a run began as.
SameTokens(q) == run'[q].tokens = run[q].tokens
SameEnds(q) == run'[q].finished = run[q].finished /\ run'[q].dropped = run[q].dropped
SameEntry(q) == run'[q].entry = run[q].entry

LEMMA GoesCounts ==
  ASSUME run \in [RunIds -> RunRecord], Unbegun, NEW r \in RunIds, NEW by, NEW agent,
         Goes(r, by, agent)
  PROVE  /\ \A q \in RunIds : SameTokens(q) /\ SameEnds(q)
         /\ \A q \in RunIds \ {r} : SameEntry(q)
<1> DEFINE x == Begun(agent, by, "steps", Full)
<1>1. x.tokens = run[r].tokens /\ x.finished = run[r].finished /\ x.dropped = run[r].dropped
  BY DEF Begun, Unbegun, Goes
<1>2. run' = [run EXCEPT ![r] = x]
  BY DEF Goes
<1> HIDE DEF x
<1>3. run'[r] = x /\ \A q \in RunIds \ {r} : run'[q] = run[q]
  BY <1>2
<1> QED  BY <1>1, <1>3 DEF SameTokens, SameEnds, SameEntry

LEMMA QuietCounts ==
  ASSUME run \in [RunIds -> RunRecord], NEW r \in RunIds,
         \/ Drive(r) \/ Suspend(r) \/ Resume(r) \/ Lapse(r)
         \/ \E a \in Agents : Handoff(r, a)
  PROVE  \A q \in RunIds : SameEnds(q) /\ SameEntry(q) /\ SameTokens(q)
<1>1. CASE Drive(r)
  BY <1>1 DEF Drive, RunRecord, SameEnds, SameEntry, SameTokens
<1>2. CASE Suspend(r)
  <2>1. run' = [run EXCEPT ![r] = Stored(run[r])] /\ run[r] \in RunRecord
    BY <1>2 DEF Suspend
  <2>2. /\ Stored(run[r]).tokens = run[r].tokens /\ Stored(run[r]).finished = run[r].finished
        /\ Stored(run[r]).dropped = run[r].dropped /\ Stored(run[r]).entry = run[r].entry
    BY <2>1 DEF Stored, RunRecord
  <2> QED  BY <2>1, <2>2 DEF SameEnds, SameEntry, SameTokens
<1>3. CASE Resume(r)
  <2> DEFINE x == Resumed(run[r], r \in DOMAIN inFlight)
  <2>1. x.tokens = run[r].tokens /\ x.finished = run[r].finished /\ x.dropped = run[r].dropped
        /\ x.entry = run[r].entry
    BY DEF RunRecord, Resumed
  <2>2. run' = [run EXCEPT ![r] = x]
    BY <1>3 DEF Resume
  <2> HIDE DEF x
  <2>3. run'[r] = x /\ \A q \in RunIds \ {r} : run'[q] = run[q]
    BY <2>2
  <2> QED  BY <2>1, <2>3 DEF SameEnds, SameEntry, SameTokens
<1>4. CASE Lapse(r)
  BY <1>4 DEF Lapse, SameEnds, SameEntry, SameTokens
<1>5. CASE \E a \in Agents : Handoff(r, a)
  BY <1>5 DEF Handoff, RunRecord, SameEnds, SameEntry, SameTokens
<1> QED  BY <1>1, <1>2, <1>3, <1>4, <1>5

LEMMA ChargeCounts ==
  ASSUME run \in [RunIds -> RunRecord], NEW r \in RunIds, Charge(r)
  PROVE  /\ run'[r].tokens = run[r].tokens + 1
         /\ \A q \in RunIds : SameEnds(q) /\ SameEntry(q)
         /\ \A q \in RunIds \ {r} : SameTokens(q)
  BY DEF Charge, RunRecord, SameEnds, SameEntry, SameTokens

LEMMA EndCounts ==
  ASSUME run \in [RunIds -> RunRecord], NEW r \in RunIds, Finish(r) \/ Suspended(r)
  PROVE  /\ run'[r].finished = run[r].finished + 1
         /\ \A q \in RunIds : run'[q].dropped = run[q].dropped /\ SameEntry(q) /\ SameTokens(q)
         /\ \A q \in RunIds \ {r} : run'[q].finished = run[q].finished
<1>1. CASE Finish(r)
  <2> DEFINE x == [run[r] EXCEPT !.at = "over", !.finished = run[r].finished + 1]
  <2>1. x.tokens = run[r].tokens /\ x.finished = run[r].finished + 1 /\ x.dropped = run[r].dropped
        /\ x.entry = run[r].entry
    BY DEF RunRecord
  <2>2. run' = [run EXCEPT ![r] = x]
    BY <1>1 DEF Finish, RunRecord
  <2> HIDE DEF x
  <2>3. run'[r] = x /\ \A q \in RunIds \ {r} : run'[q] = run[q]
    BY <2>2
  <2> QED  BY <2>1, <2>3 DEF SameEntry, SameTokens
<1>2. CASE Suspended(r)
  <2>1. run' = [run EXCEPT ![r] = Recorded(run[r])] /\ run[r] \in RunRecord
    BY <1>2 DEF Suspended
  <2>2. /\ Recorded(run[r]).tokens = run[r].tokens /\ Recorded(run[r]).entry = run[r].entry
        /\ Recorded(run[r]).finished = run[r].finished + 1
        /\ Recorded(run[r]).dropped = run[r].dropped
    BY <2>1 DEF Recorded, RunRecord
  <2> QED  BY <2>1, <2>2 DEF SameEntry, SameTokens
<1> QED  BY <1>1, <1>2

LEMMA DropCounts ==
  ASSUME run \in [RunIds -> RunRecord], NEW r \in RunIds, Dropped(r)
  PROVE  /\ run'[r].dropped = run[r].dropped + 1
         /\ \A q \in RunIds : run'[q].finished = run[q].finished /\ SameEntry(q) /\ SameTokens(q)
         /\ \A q \in RunIds \ {r} : run'[q].dropped = run[q].dropped
<1> DEFINE x == [run[r] EXCEPT !.at = "over", !.dropped = run[r].dropped + 1]
<1>1. x.tokens = run[r].tokens /\ x.finished = run[r].finished /\ x.dropped = run[r].dropped + 1
      /\ x.entry = run[r].entry
  BY DEF RunRecord
<1>2. run' = [run EXCEPT ![r] = x]
  BY DEF Dropped, RunRecord
<1> HIDE DEF x
<1>3. run'[r] = x /\ \A q \in RunIds \ {r} : run'[q] = run[q]
  BY <1>2
<1> QED  BY <1>1, <1>3 DEF SameEntry, SameTokens

\* What the steps of a run write of it.
LEMMA RecordMoves ==
  ASSUME NEW x \in RunRecord
  PROVE  /\ \A a \in Agents :
              /\ [x EXCEPT !.def = a] \in RunRecord
              /\ [x EXCEPT !.def = a].at = x.at /\ [x EXCEPT !.def = a].closing = x.closing
         /\ [x EXCEPT !.at = "steps"] \in RunRecord
         /\ [x EXCEPT !.at = "steps"].at = "steps" /\ [x EXCEPT !.at = "steps"].closing = x.closing
  BY DEF RunRecord

\* What a suspension, its record and a resumption write of it.
LEMMA RecordWaits ==
  ASSUME NEW x \in RunRecord, NEW known \in BOOLEAN
  PROVE  /\ Stored(x) \in RunRecord
         /\ Stored(x).at = "parked" /\ Stored(x).closing > 0
         /\ x.closing > 0 => Recorded(x) \in RunRecord
         /\ Recorded(x).at = x.at
         /\ Resumed(x, known) \in RunRecord
         /\ Resumed(x, known).at = "call"
<1>1. /\ x.closing \in Nat /\ x.closing + 1 \in Nat /\ x.closing + 1 > 0
      /\ x.closing > 0 => x.closing - 1 \in Nat
  BY DEF RunRecord
<1>2. x.finished + 1 \in Nat /\ x.stints + 1 \in Nat /\ x.as \in Agents /\ x.def \in Agents
  BY DEF RunRecord
<1>3. Stored(x) \in RunRecord /\ Stored(x).at = "parked" /\ Stored(x).closing = x.closing + 1
  BY <1>1 DEF Stored, RunRecord
<1>4. Recorded(x).at = x.at
  BY DEF Recorded, RunRecord
<1>5. ASSUME NEW n \in Nat, NEW m \in Nat, NEW b \in BOOLEAN
      PROVE  [x EXCEPT !.closing = n, !.finished = m, !.missed = b] \in RunRecord
  BY DEF RunRecord
<1>6. (x.missed \/ x.at \in {"call", "steps"}) \in BOOLEAN
  OBVIOUS
<1>7. x.closing > 0 => Recorded(x) \in RunRecord
  BY <1>1, <1>2, <1>5, <1>6 DEF Recorded
<1>8. ASSUME NEW n \in Nat, NEW a \in Agents, NEW b \in BOOLEAN
      PROVE  /\ [x EXCEPT !.at = "call", !.stints = n, !.as = a, !.missed = b] \in RunRecord
             /\ [x EXCEPT !.at = "call", !.stints = n, !.as = a, !.missed = b].at = "call"
  BY DEF RunRecord
<1>9. (x.missed \/ (Full /\ ~known)) \in BOOLEAN /\ (IF Full THEN x.as ELSE x.def) \in Agents
  BY <1>2
<1>10. Resumed(x, known) \in RunRecord /\ Resumed(x, known).at = "call"
  <2> DEFINE n == x.stints + 1
             a == IF Full THEN x.as ELSE x.def
             b == x.missed \/ (Full /\ ~known)
  <2>1. Resumed(x, known) = [x EXCEPT !.at = "call", !.stints = n, !.as = a, !.missed = b]
    BY DEF Resumed
  <2>2. n \in Nat /\ a \in Agents /\ b \in BOOLEAN
    BY <1>2, <1>9
  <2> HIDE DEF n, a, b
  <2>3. /\ [x EXCEPT !.at = "call", !.stints = n, !.as = a, !.missed = b] \in RunRecord
        /\ [x EXCEPT !.at = "call", !.stints = n, !.as = a, !.missed = b].at = "call"
    BY <1>8, <2>2, Zenon
  <2> QED  BY <2>1, <2>3, Zenon
<1>11. Stored(x).closing > 0
  BY <1>1, <1>3
<1> QED  BY <1>3, <1>4, <1>7, <1>10, <1>11, Zenon

\* What an end writes of it.
LEMMA RecordEnds ==
  ASSUME NEW x \in RunRecord, NEW n \in Nat
  PROVE  /\ [x EXCEPT !.at = "over", !.finished = n] \in RunRecord
         /\ [x EXCEPT !.at = "over", !.dropped = n] \in RunRecord
         /\ [x EXCEPT !.at = "over", !.finished = n].at = "over"
         /\ [x EXCEPT !.at = "over", !.dropped = n].at = "over"
         /\ [x EXCEPT !.at = "over", !.finished = n].closing = x.closing
         /\ [x EXCEPT !.at = "over", !.dropped = n].closing = x.closing
<1>1. /\ [x EXCEPT !.at = "over", !.finished = n] \in RunRecord
      /\ [x EXCEPT !.at = "over", !.finished = n].at = "over"
      /\ [x EXCEPT !.at = "over", !.finished = n].closing = x.closing
  BY DEF RunRecord
<1>2. /\ [x EXCEPT !.at = "over", !.dropped = n] \in RunRecord
      /\ [x EXCEPT !.at = "over", !.dropped = n].at = "over"
      /\ [x EXCEPT !.at = "over", !.dropped = n].closing = x.closing
  BY DEF RunRecord
<1> QED  BY <1>1, <1>2

LEMMA GoesKeeps ==
  ASSUME BooksBase, NEW r \in RunIds, NEW by \in {"caller", "watcher"}, NEW agent \in Agents,
         Goes(r, by, agent)
  PROVE  /\ run' \in [RunIds -> RunRecord]
         /\ DOMAIN inFlight' \subseteq RunIds /\ inFlight' \in [DOMAIN inFlight' -> Agents]
         /\ Unbegun' /\ NothingStays'
<1> USE DEF BooksBase
<1> DEFINE x == Begun(agent, by, "steps", Full)
<1>1. run \in [RunIds -> RunRecord] /\ x \in RunRecord /\ x.at = "steps"
  <2>1. Full \in BOOLEAN
    BY DEF Full
  <2> QED  BY <2>1, BegunTyped DEF BooksTyped
<1>2. run' = [run EXCEPT ![r] = x]
  BY DEF Goes
<1> HIDE DEF x
<1>4. run' \in [RunIds -> RunRecord] /\ run'[r].at = "steps"
      /\ \A q \in RunIds \ {r} : run'[q] = run[q]
  BY <1>1, <1>2, OneRun
<1>5. /\ DOMAIN inFlight' \subseteq DOMAIN inFlight \cup {r}
      /\ inFlight' \in [DOMAIN inFlight' -> Agents]
  BY BookStarts DEF Goes
<1>6. DOMAIN inFlight \subseteq RunIds
  BY DEF BooksTyped
<1>7. Unbegun'
  BY <1>4 DEF Unbegun
<1>8. NothingStays'
  BY <1>4, <1>5, <1>6 DEF NothingStays
<1> QED  BY <1>4, <1>5, <1>6, <1>7, <1>8

LEMMA FinishCounts ==
  ASSUME BooksTyped, NEW r \in RunIds, RunFinished(r)
  PROVE  /\ DOMAIN inFlight' = DOMAIN inFlight \ {r}
         /\ inFlight' \in [DOMAIN inFlight' -> Agents]
         /\ tally' \in [Agents -> [runs : Nat, cancelled : Nat]]
<1>1. run[r].entry \in Agents
  BY DEF BooksTyped, RunRecord
<1>2. tally' \in [Agents -> [runs : Nat, cancelled : Nat]]
  <2> DEFINE e == run[r].entry
             x == [tally[e] EXCEPT !.runs = @ + 1]
  <2>1. tally[e] \in [runs : Nat, cancelled : Nat]
    BY <1>1 DEF BooksTyped
  <2>2. x \in [runs : Nat, cancelled : Nat]
    BY <2>1
  <2>3. tally' = [tally EXCEPT ![e] = x]
    BY DEF RunFinished
  <2> HIDE DEF x
  <2> QED  BY <2>2, <2>3 DEF BooksTyped
<1> QED  BY <1>2, BookEnds DEF RunFinished

LEMMA CancelCounts ==
  ASSUME BooksTyped, NEW r \in RunIds, RunCancelled(r)
  PROVE  /\ DOMAIN inFlight' = DOMAIN inFlight \ {r}
         /\ inFlight' \in [DOMAIN inFlight' -> Agents]
         /\ tally' \in [Agents -> [runs : Nat, cancelled : Nat]]
<1>1. CASE r \notin DOMAIN inFlight
  BY <1>1 DEF BooksTyped, RunCancelled
<1>2. CASE r \in DOMAIN inFlight
  <2>1. inFlight[r] \in Agents
    BY <1>2 DEF BooksTyped
  <2>2. tally' \in [Agents -> [runs : Nat, cancelled : Nat]]
    <3> DEFINE e == inFlight[r]
               x == [runs |-> tally[e].runs + 1, cancelled |-> tally[e].cancelled + 1]
    <3>1. tally[e] \in [runs : Nat, cancelled : Nat]
      BY <2>1 DEF BooksTyped
    <3>2. x \in [runs : Nat, cancelled : Nat]
      BY <3>1
    <3>3. tally' = [tally EXCEPT ![e] = x]
      BY <1>2, <2>1 DEF RunCancelled, BooksTyped
    <3> HIDE DEF x
    <3> QED  BY <3>2, <3>3 DEF BooksTyped
  <2> QED  BY <1>2, <2>2, BookEnds DEF RunCancelled
<1> QED  BY <1>1, <1>2

\* The watcher's fields, where an action may answer it.
LEMMA AnswerTyped ==
  ASSUME BooksTyped, NEW r \in RunIds, Answered(r) \/ UNCHANGED watch
  PROVE  watch' \in [digest : Scenes \cup {Quiet}, runs : Seq(Nat), asks : RunIds \cup {NoRun}]
         /\ watch'.runs = watch.runs
  BY DEF BooksTyped, Answered

\* Spend: a line more, or more on a line.
LEMMA LinesTyped ==
  ASSUME BooksTyped, NEW key, NEW cost \in Nat, LedgerCharge(key, cost)
  PROVE  IsFiniteSet(DOMAIN lines') /\ lines' \in [DOMAIN lines' -> Nat]
<1>1. PICK line : lines' = Put(lines, line, cost + (IF line \in DOMAIN lines THEN lines[line] ELSE 0))
  BY DEF LedgerCharge
<1>2. DOMAIN lines' = DOMAIN lines \cup {line}
  BY <1>1 DEF Put
<1>3. IsFiniteSet(DOMAIN lines')
  <2>1. IsFiniteSet(DOMAIN lines)
    BY DEF BooksTyped
  <2> QED  BY <1>2, <2>1, FS_AddElement
<1>4. lines' \in [DOMAIN lines' -> Nat]
  BY <1>1 DEF BooksTyped, Put
<1> QED  BY <1>3, <1>4

\* The runs of the last hour are the last of the runs there are.
LEMMA RecentShape ==
  ASSUME BooksTyped
  PROVE  \E k \in 1..(Len(watch.runs) + 1) :
           /\ Recent = SubSeq(watch.runs, k, Len(watch.runs))
           /\ \A j \in 1..(k - 1) : now - watch.runs[j] > Hour
<1> DEFINE n == Len(watch.runs)
           Late == {k \in 1..n : now - watch.runs[k] <= Hour}
<1>1. watch.runs \in Seq(Nat) /\ n \in Nat /\ now \in Nat /\ Hour \in Nat
      /\ \A k \in 1..n : watch.runs[k] \in Nat
  BY BooksAssumption DEF BooksTyped
<1>2. \E k \in 1..(n + 1) : HourFrom(k)
  <2>1. CASE Late = {}
    <3>1. \A j \in 1..((n + 1) - 1) : now - watch.runs[j] > Hour
      BY <1>1, <2>1
    <3>2. ~(n + 1 <= n) /\ n + 1 \in 1..(n + 1)
      BY <1>1
    <3>3. HourFrom(n + 1)
      BY <3>1, <3>2, Zenon DEF HourFrom
    <3> QED  BY <3>2, <3>3
  <2>2. CASE Late # {}
    <3>1. Late \in SUBSET Nat
      BY <1>1
    <3>2. PICK k \in Late : \A j \in Late : k <= j
      BY <2>2, <3>1, LeastOf
    <3>3. k \in 1..n /\ now - watch.runs[k] <= Hour
      BY <3>2
    <3>4. \A j \in 1..(k - 1) : j \in 1..n /\ ~(k <= j)
      BY <1>1, <3>3
    <3>5. \A j \in 1..(k - 1) : now - watch.runs[j] > Hour
      BY <1>1, <3>2, <3>4
    <3>6. HourFrom(k)
      BY <3>3, <3>5, Zenon DEF HourFrom
    <3>7. k \in 1..(n + 1)
      BY <1>1, <3>3
    <3> QED  BY <3>6, <3>7
  <2> QED  BY <2>1, <2>2
<1>3. Recent = SubSeq(watch.runs, CHOOSE k \in 1..(n + 1) : HourFrom(k), n)
  BY DEF Recent
<1>4. PICK k \in 1..(n + 1) : Recent = SubSeq(watch.runs, k, n) /\ HourFrom(k)
  BY <1>2, <1>3
<1> QED  BY <1>4 DEF HourFrom

LEMMA RecentTyped ==
  ASSUME BooksTyped
  PROVE  Recent \in Seq(Nat)
<1>1. PICK k \in 1..(Len(watch.runs) + 1) : Recent = SubSeq(watch.runs, k, Len(watch.runs))
  BY RecentShape
<1>2. watch.runs \in Seq(Nat)
  BY DEF BooksTyped
<1> QED  BY <1>1, <1>2, SubSeqProperties, SMTT(30)

LEMMA BooksBaseNext == BooksBase /\ [BooksNext]_booksVars => BooksBase'
<1> SUFFICES ASSUME BooksBase, [BooksNext]_booksVars PROVE BooksBase'
  OBVIOUS
<1> USE DEF BooksBase
<1>1. ASSUME NEW r \in RunIds, NEW a \in Agents, Start(r, a)
      PROVE  BooksBase'
  <2>1. /\ run' \in [RunIds -> RunRecord]
        /\ DOMAIN inFlight' \subseteq RunIds /\ inFlight' \in [DOMAIN inFlight' -> Agents]
        /\ Unbegun' /\ NothingStays'
    BY <1>1, GoesKeeps DEF Start
  <2> QED  BY <1>1, <2>1 DEF Start, BooksTyped
<1>2. ASSUME NEW r \in RunIds, Charge(r)
      PROVE  BooksBase'
  <2>1. run' \in [RunIds -> RunRecord] /\ run'[r].at = "steps"
        /\ \A q \in RunIds \ {r} : run'[q] = run[q]
    <3> DEFINE x == [run[r] EXCEPT !.tokens = @ + 1]
    <3>1. run \in [RunIds -> RunRecord] /\ run[r] \in RunRecord
      BY DEF BooksTyped
    <3>2. x \in RunRecord /\ x.at = "steps"
      BY <1>2, <3>1 DEF Charge, RunRecord
    <3>3. run' = [run EXCEPT ![r] = x]
      BY <1>2, <3>1 DEF Charge, RunRecord
    <3> HIDE DEF x
    <3> QED  BY <3>1, <3>2, <3>3
  <2>2. IsFiniteSet(DOMAIN lines') /\ lines' \in [DOMAIN lines' -> Nat]
    BY <1>2, LinesTyped DEF Charge
  <2>3. BooksTyped'
    BY <1>2, <2>1, <2>2 DEF Charge, BooksTyped
  <2>4. Unbegun'
    BY <1>2, <2>1 DEF Charge, Unbegun
  <2>5. NothingStays'
    BY <1>2, <2>1 DEF Charge, NothingStays, BooksTyped
  <2> QED  BY <2>3, <2>4, <2>5
<1>3. ASSUME NEW r \in RunIds, NEW a \in Agents, Handoff(r, a)
      PROVE  BooksBase'
  <2>1. run' \in [RunIds -> RunRecord] /\ run'[r].at = "steps"
        /\ \A q \in RunIds \ {r} : run'[q] = run[q]
    <3> DEFINE x == [run[r] EXCEPT !.def = a]
    <3>1. run \in [RunIds -> RunRecord] /\ run[r] \in RunRecord
      BY DEF BooksTyped
    <3>2. x \in RunRecord /\ x.at = "steps"
      BY <1>3, <3>1, RecordMoves DEF Handoff
    <3>3. run' = [run EXCEPT ![r] = x]
      BY <1>3 DEF Handoff
    <3> HIDE DEF x
    <3> QED  BY <3>1, <3>2, <3>3
  <2>2. BooksTyped'
    BY <1>3, <2>1 DEF Handoff, BooksTyped, books
  <2>3. Unbegun'
    BY <1>3, <2>1 DEF Handoff, Unbegun
  <2>4. NothingStays'
    BY <1>3, <2>1 DEF Handoff, NothingStays, BooksTyped, books
  <2> QED  BY <2>2, <2>3, <2>4
<1>4. ASSUME NEW r \in RunIds, Drive(r)
      PROVE  BooksBase'
  <2>1. run' \in [RunIds -> RunRecord] /\ run'[r].at = "steps"
        /\ \A q \in RunIds \ {r} : run'[q] = run[q]
    <3> DEFINE x == [run[r] EXCEPT !.at = "steps"]
    <3>1. run \in [RunIds -> RunRecord] /\ run[r] \in RunRecord
      BY DEF BooksTyped
    <3>2. x \in RunRecord /\ x.at = "steps"
      BY <3>1, RecordMoves
    <3>3. run' = [run EXCEPT ![r] = x]
      BY <1>4 DEF Drive
    <3> HIDE DEF x
    <3> QED  BY <3>1, <3>2, <3>3
  <2>2. BooksTyped'
    BY <1>4, <2>1 DEF Drive, BooksTyped, books
  <2>3. Unbegun'
    BY <1>4, <2>1 DEF Drive, Unbegun
  <2>4. NothingStays'
    BY <1>4, <2>1 DEF Drive, NothingStays, BooksTyped, books
  <2> QED  BY <2>2, <2>3, <2>4
<1>5. ASSUME NEW r \in RunIds, Finish(r)
      PROVE  BooksBase'
  <2>1. run' \in [RunIds -> RunRecord] /\ run'[r].at = "over" /\ run'[r].closing = run[r].closing
        /\ \A q \in RunIds \ {r} : run'[q] = run[q]
    <3> DEFINE x == [run[r] EXCEPT !.at = "over", !.finished = run[r].finished + 1]
    <3>1. run \in [RunIds -> RunRecord] /\ run[r] \in RunRecord
      BY DEF BooksTyped
    <3>2. run[r].finished + 1 \in Nat /\ run[r].dropped + 1 \in Nat
      BY <3>1 DEF RunRecord
    <3>4. x \in RunRecord /\ x.at = "over" /\ x.closing = run[r].closing
      BY <3>1, <3>2, RecordEnds
    <3>3. run' = [run EXCEPT ![r] = x]
      BY <1>5, <3>1 DEF Finish, RunRecord
    <3> HIDE DEF x
    <3> QED  BY <3>1, <3>3, <3>4
  <2>2. /\ DOMAIN inFlight' = DOMAIN inFlight \ {r}
        /\ inFlight' \in [DOMAIN inFlight' -> Agents]
        /\ tally' \in [Agents -> [runs : Nat, cancelled : Nat]]
    BY <1>5, FinishCounts DEF Finish
  <2>3. watch' \in [digest : Scenes \cup {Quiet}, runs : Seq(Nat), asks : RunIds \cup {NoRun}]
    BY <1>5, AnswerTyped DEF Finish
  <2>4. BooksTyped'
    BY <1>5, <2>1, <2>2, <2>3 DEF Finish, BooksTyped
  <2>5. Unbegun'
    BY <1>5, <2>1 DEF Finish, Unbegun
  <2>6. NothingStays'
    BY <1>5, <2>1, <2>2 DEF Finish, NothingStays, BooksTyped
  <2> QED  BY <2>4, <2>5, <2>6
<1>6. ASSUME NEW r \in RunIds, Suspend(r)
      PROVE  BooksBase'
  <2>1. run' \in [RunIds -> RunRecord] /\ run'[r].at = "parked" /\ run'[r].closing > 0
        /\ \A q \in RunIds \ {r} : run'[q] = run[q]
    <3>1. run \in [RunIds -> RunRecord] /\ run[r] \in RunRecord
      BY DEF BooksTyped
    <3>2. run' = [run EXCEPT ![r] = Stored(run[r])]
      BY <1>6 DEF Suspend
    <3> QED  BY <3>1, <3>2, RecordWaits
  <2>2. BooksTyped'
    BY <1>6, <2>1 DEF Suspend, BooksTyped, books
  <2>3. Unbegun'
    BY <1>6, <2>1 DEF Suspend, Unbegun
  <2>4. NothingStays'
    BY <1>6, <2>1 DEF Suspend, NothingStays, BooksTyped, books
  <2> QED  BY <2>2, <2>3, <2>4
<1>7. ASSUME NEW r \in RunIds, Suspended(r)
      PROVE  BooksBase'
  <2>1. run' \in [RunIds -> RunRecord] /\ run'[r].at = run[r].at
        /\ \A q \in RunIds \ {r} : run'[q] = run[q]
    <3>1. run \in [RunIds -> RunRecord] /\ run[r] \in RunRecord
      BY DEF BooksTyped
    <3>2. run' = [run EXCEPT ![r] = Recorded(run[r])] /\ run[r].closing > 0
      BY <1>7 DEF Suspended
    <3> QED  BY <3>1, <3>2, RecordWaits
  <2>2. /\ DOMAIN inFlight' = DOMAIN inFlight \ {r}
        /\ inFlight' \in [DOMAIN inFlight' -> Agents]
        /\ tally' \in [Agents -> [runs : Nat, cancelled : Nat]]
    BY <1>7, FinishCounts DEF Suspended
  <2>3. watch' \in [digest : Scenes \cup {Quiet}, runs : Seq(Nat), asks : RunIds \cup {NoRun}]
    BY <1>7, AnswerTyped DEF Suspended
  <2>4. BooksTyped'
    BY <1>7, <2>1, <2>2, <2>3 DEF Suspended, BooksTyped
  <2>5. Unbegun'
    BY <1>7, <2>1 DEF Suspended, Unbegun
  <2>6. NothingStays'
    BY <1>7, <2>1, <2>2 DEF Suspended, NothingStays, BooksTyped
  <2> QED  BY <2>4, <2>5, <2>6
<1>8. ASSUME NEW r \in RunIds, Dropped(r)
      PROVE  BooksBase'
  <2>1. run' \in [RunIds -> RunRecord] /\ run'[r].at = "over" /\ run'[r].closing = run[r].closing
        /\ \A q \in RunIds \ {r} : run'[q] = run[q]
    <3> DEFINE x == [run[r] EXCEPT !.at = "over", !.dropped = run[r].dropped + 1]
    <3>1. run \in [RunIds -> RunRecord] /\ run[r] \in RunRecord
      BY DEF BooksTyped
    <3>2. run[r].finished + 1 \in Nat /\ run[r].dropped + 1 \in Nat
      BY <3>1 DEF RunRecord
    <3>4. x \in RunRecord /\ x.at = "over" /\ x.closing = run[r].closing
      BY <3>1, <3>2, RecordEnds
    <3>3. run' = [run EXCEPT ![r] = x]
      BY <1>8, <3>1 DEF Dropped, RunRecord
    <3> HIDE DEF x
    <3> QED  BY <3>1, <3>3, <3>4
  <2>2. /\ DOMAIN inFlight' = DOMAIN inFlight \ {r}
        /\ inFlight' \in [DOMAIN inFlight' -> Agents]
        /\ tally' \in [Agents -> [runs : Nat, cancelled : Nat]]
    BY <1>8, CancelCounts DEF Dropped, Guard
  <2>3. BooksTyped'
    BY <1>8, <2>1, <2>2 DEF Dropped, BooksTyped
  <2>4. Unbegun'
    BY <1>8, <2>1 DEF Dropped, Unbegun
  <2>5. NothingStays'
    BY <1>8, <2>1, <2>2 DEF Dropped, NothingStays, BooksTyped
  <2> QED  BY <2>3, <2>4, <2>5
<1>9. ASSUME NEW r \in RunIds, Resume(r)
      PROVE  BooksBase'
  <2>1. run' \in [RunIds -> RunRecord] /\ run'[r].at = "call" /\ run[r].def \in Agents
        /\ \A q \in RunIds \ {r} : run'[q] = run[q]
    <3>1. run \in [RunIds -> RunRecord] /\ run[r] \in RunRecord
      BY DEF BooksTyped
    <3>2. run' = [run EXCEPT ![r] = Resumed(run[r], r \in DOMAIN inFlight)]
      BY <1>9 DEF Resume
    <3>3. run[r].def \in Agents
      BY <3>1 DEF RunRecord
    <3>4. (r \in DOMAIN inFlight) \in BOOLEAN
      OBVIOUS
    <3>5. /\ Resumed(run[r], r \in DOMAIN inFlight) \in RunRecord
          /\ Resumed(run[r], r \in DOMAIN inFlight).at = "call"
      BY <3>1, <3>4, RecordWaits, Zenon
    <3> QED  BY <3>1, <3>2, <3>3, <3>5
  <2>2. /\ DOMAIN inFlight' \subseteq DOMAIN inFlight \cup {r}
        /\ inFlight' \in [DOMAIN inFlight' -> Agents]
    BY <1>9, <2>1, BookStarts DEF Resume
  <2>3. BooksTyped'
    BY <1>9, <2>1, <2>2 DEF Resume, BooksTyped
  <2>4. Unbegun'
    BY <1>9, <2>1 DEF Resume, Unbegun
  <2>5. NothingStays'
    BY <1>9, <2>1, <2>2 DEF Resume, NothingStays, BooksTyped
  <2> QED  BY <2>3, <2>4, <2>5
<1>10. ASSUME NEW r \in RunIds, Lapse(r)
       PROVE  BooksBase'
  BY <1>10 DEF Lapse, BooksTyped, Unbegun, NothingStays, books
<1>11. CASE Device
  BY <1>11 DEF Device, Passes, Changes, BooksTyped, Unbegun, NothingStays, books
<1>12. ASSUME NEW r \in RunIds, Look(r)
       PROVE  BooksBase'
  <2>1. Recent \in Seq(Nat)
    BY RecentTyped
  <2>2. /\ watch' \in [digest : Scenes \cup {Quiet}, runs : Seq(Nat), asks : RunIds \cup {NoRun}]
        /\ asked' \in Seq(Nat)
    <3> DEFINE runs == Append(Recent, now)
    <3>1. now \in Nat /\ runs \in Seq(Nat) /\ asked' \in Seq(Nat)
      BY <1>12, <2>1, AppendProperties DEF Look, BooksTyped
    <3>2. \E asks \in RunIds \cup {NoRun} : watch' = [digest |-> scene, runs |-> runs, asks |-> asks]
      BY <1>12 DEF Look
    <3> HIDE DEF runs
    <3> QED  BY <3>1, <3>2 DEF BooksTyped
  <2>3. CASE Goes(r, "watcher", Watched)
    <3>1. /\ run' \in [RunIds -> RunRecord]
          /\ DOMAIN inFlight' \subseteq RunIds /\ inFlight' \in [DOMAIN inFlight' -> Agents]
          /\ Unbegun' /\ NothingStays'
      BY <1>12, <2>3, GoesKeeps, BooksAssumption DEF Look
    <3> QED  BY <1>12, <2>2, <3>1 DEF Look, BooksTyped
  <2>4. CASE UNCHANGED <<run, inFlight>>
    <3>1. Unbegun' /\ NothingStays'
      BY <1>12, <2>4 DEF Look, Unbegun, NothingStays
    <3> QED  BY <1>12, <2>2, <2>4, <3>1 DEF Look, BooksTyped
  <2> QED  BY <1>12, <2>3, <2>4 DEF Look
<1>13. CASE UNCHANGED booksVars
  BY <1>13 DEF booksVars, books, BooksTyped, Unbegun, NothingStays
<1> QED
  BY <1>1, <1>2, <1>3, <1>4, <1>5, <1>6, <1>7, <1>8, <1>9, <1>10, <1>11, <1>12, <1>13
  DEF BooksNext, Requests, Steps, Ends, Humans, Looks

-----------------------------------------------------------------------------
(* Every end of a run is counted once. *)

\* A run as the book and a human have it.  In the book it is under the agent
\* that the run has in as; without a place while it runs, it is known to have
\* missed one; and only a run that is over has gone.
HeldAsKnown(q) ==
  /\ q \in DOMAIN inFlight => inFlight[q] = run[q].as
  /\ run[q].at \in {"call", "steps"} => run[q].missed \/ q \in DOMAIN inFlight
  /\ run[q].at # "over" => run[q].dropped = 0
  /\ q \in parked => run[q].at = "parked"

BooksHeld == \A q \in RunIds : HeldAsKnown(q)

LEMMA HeldInit == BooksInit => BooksHeld
  BY BegunTyped, BooksAssumption DEF BooksInit, BooksHeld, HeldAsKnown, Begun

\* A step of one run leaves the others as they are held.
LEMMA OthersHeld ==
  ASSUME BooksHeld, NEW r \in RunIds, HeldAsKnown(r)',
         \A q \in RunIds \ {r} :
           /\ run'[q] = run[q]
           /\ q \in parked' <=> q \in parked
           /\ q \in DOMAIN inFlight' <=> q \in DOMAIN inFlight
           /\ q \in DOMAIN inFlight => inFlight'[q] = inFlight[q]
  PROVE  BooksHeld'
  BY DEF BooksHeld, HeldAsKnown

LEMMA BookRegisters ==
  ASSUME BooksTyped, NEW r \in RunIds, NEW agent \in Agents, RunStarted(r, agent)
  PROVE  /\ \A q \in RunIds \ {r} :
              /\ q \in DOMAIN inFlight' <=> q \in DOMAIN inFlight
              /\ q \in DOMAIN inFlight => inFlight'[q] = inFlight[q]
         /\ Full => inFlight' = inFlight
         /\ ~Full => r \in DOMAIN inFlight' /\ inFlight'[r] = agent
  BY DEF BooksTyped, RunStarted, Put

LEMMA BookRemoves ==
  ASSUME BooksTyped, NEW r \in RunIds,
         inFlight' = Restrict(inFlight, DOMAIN inFlight \ {r})
  PROVE  /\ \A q \in RunIds \ {r} :
              /\ q \in DOMAIN inFlight' <=> q \in DOMAIN inFlight
              /\ q \in DOMAIN inFlight => inFlight'[q] = inFlight[q]
         /\ r \notin DOMAIN inFlight'
  BY DEF BooksTyped, Restrict

\* What a step writes of the fields that matter here.
SameHeld(q) == run'[q].as = run[q].as /\ run'[q].missed = run[q].missed

LEMMA StepWrites ==
  ASSUME run \in [RunIds -> RunRecord], NEW r \in RunIds
  PROVE  /\ Charge(r) \/ (\E a \in Agents : Handoff(r, a)) =>
              /\ run[r].at = "steps" /\ run'[r].at = "steps"
              /\ SameHeld(r) /\ run'[r].dropped = run[r].dropped
              /\ \A q \in RunIds \ {r} : run'[q] = run[q]
         /\ Drive(r) =>
              /\ run[r].at = "call" /\ run'[r].at = "steps"
              /\ SameHeld(r) /\ run'[r].dropped = run[r].dropped
              /\ \A q \in RunIds \ {r} : run'[q] = run[q]
         /\ Finish(r) =>
              /\ run[r].at = "steps" /\ run'[r].at = "over" /\ SameHeld(r)
              /\ \A q \in RunIds \ {r} : run'[q] = run[q]
         /\ Dropped(r) =>
              /\ run[r].at \in {"call", "steps"} /\ run'[r].at = "over" /\ SameHeld(r)
              /\ \A q \in RunIds \ {r} : run'[q] = run[q]
<1>1. ASSUME Charge(r)
      PROVE  /\ run[r].at = "steps" /\ run'[r].at = "steps"
             /\ SameHeld(r) /\ run'[r].dropped = run[r].dropped
             /\ \A q \in RunIds \ {r} : run'[q] = run[q]
  BY <1>1 DEF Charge, SameHeld, RunRecord
<1>2. ASSUME NEW a \in Agents, Handoff(r, a)
      PROVE  /\ run[r].at = "steps" /\ run'[r].at = "steps"
             /\ SameHeld(r) /\ run'[r].dropped = run[r].dropped
             /\ \A q \in RunIds \ {r} : run'[q] = run[q]
  BY <1>2 DEF Handoff, SameHeld, RunRecord
<1>3. ASSUME Drive(r)
      PROVE  /\ run[r].at = "call" /\ run'[r].at = "steps"
             /\ SameHeld(r) /\ run'[r].dropped = run[r].dropped
             /\ \A q \in RunIds \ {r} : run'[q] = run[q]
  BY <1>3 DEF Drive, SameHeld, RunRecord
<1>4. ASSUME Finish(r)
      PROVE  /\ run[r].at = "steps" /\ run'[r].at = "over" /\ SameHeld(r)
             /\ \A q \in RunIds \ {r} : run'[q] = run[q]
  BY <1>4 DEF Finish, SameHeld, RunRecord
<1>5. ASSUME Dropped(r)
      PROVE  /\ run[r].at \in {"call", "steps"} /\ run'[r].at = "over" /\ SameHeld(r)
             /\ \A q \in RunIds \ {r} : run'[q] = run[q]
  BY <1>5 DEF Dropped, SameHeld, RunRecord
<1> QED  BY <1>1, <1>2, <1>3, <1>4, <1>5, Zenon

LEMMA SuspendWrites ==
  ASSUME run \in [RunIds -> RunRecord], NEW r \in RunIds, Suspend(r)
  PROVE  /\ run[r].at = "steps" /\ run'[r].at = "parked"
         /\ SameHeld(r) /\ run'[r].dropped = run[r].dropped
         /\ \A q \in RunIds \ {r} : run'[q] = run[q]
<1>1. run' = [run EXCEPT ![r] = Stored(run[r])] /\ run[r].at = "steps"
  BY DEF Suspend
<1>2. run'[r] = Stored(run[r]) /\ \A q \in RunIds \ {r} : run'[q] = run[q]
  BY <1>1
<1>3. /\ Stored(run[r]).at = "parked" /\ Stored(run[r]).as = run[r].as
      /\ Stored(run[r]).missed = run[r].missed /\ Stored(run[r]).dropped = run[r].dropped
  BY DEF Stored, RunRecord
<1> QED  BY <1>1, <1>2, <1>3 DEF SameHeld

LEMMA SuspendedWrites ==
  ASSUME run \in [RunIds -> RunRecord], NEW r \in RunIds, Suspended(r)
  PROVE  /\ run'[r].at = run[r].at /\ run'[r].as = run[r].as
         /\ run'[r].missed = (run[r].missed \/ run[r].at \in {"call", "steps"})
         /\ run'[r].dropped = run[r].dropped
         /\ \A q \in RunIds \ {r} : run'[q] = run[q]
<1>1. run' = [run EXCEPT ![r] = Recorded(run[r])]
  BY DEF Suspended
<1>2. run'[r] = Recorded(run[r]) /\ \A q \in RunIds \ {r} : run'[q] = run[q]
  BY <1>1
<1>3. /\ Recorded(run[r]).at = run[r].at /\ Recorded(run[r]).as = run[r].as
      /\ Recorded(run[r]).dropped = run[r].dropped
      /\ Recorded(run[r]).missed = (run[r].missed \/ run[r].at \in {"call", "steps"})
  BY DEF Recorded, RunRecord
<1> QED  BY <1>2, <1>3

LEMMA ResumeWrites ==
  ASSUME run \in [RunIds -> RunRecord], NEW r \in RunIds, Resume(r)
  PROVE  /\ run'[r].at = "call" /\ run'[r].as = IF Full THEN run[r].as ELSE run[r].def
         /\ run'[r].missed = (run[r].missed \/ (Full /\ r \notin DOMAIN inFlight))
         /\ run'[r].dropped = run[r].dropped
         /\ \A q \in RunIds \ {r} : run'[q] = run[q]
<1> DEFINE x == Resumed(run[r], r \in DOMAIN inFlight)
<1>1. run' = [run EXCEPT ![r] = x]
  BY DEF Resume
<1>2. /\ x.at = "call" /\ x.as = IF Full THEN run[r].as ELSE run[r].def
      /\ x.missed = (run[r].missed \/ (Full /\ r \notin DOMAIN inFlight))
      /\ x.dropped = run[r].dropped
  BY DEF Resumed, RunRecord
<1> HIDE DEF x
<1>3. run'[r] = x /\ \A q \in RunIds \ {r} : run'[q] = run[q]
  BY <1>1
<1> QED  BY <1>2, <1>3

LEMMA GoesHeld ==
  ASSUME BooksBase, BooksHeld, NEW r \in RunIds, NEW by, NEW agent \in Agents,
         Goes(r, by, agent), parked' = parked
  PROVE  BooksHeld'
<1>1. r \notin DOMAIN inFlight /\ r \notin parked
  <2>1. run[r].at = "new" /\ run[r].closing = 0
    BY DEF BooksBase, Unbegun, Goes
  <2>2. r \notin DOMAIN inFlight
    BY <2>1 DEF BooksBase, NothingStays
  <2>3. r \notin parked
    BY <2>1 DEF BooksHeld, HeldAsKnown
  <2> QED  BY <2>2, <2>3
<1>2. run' = [run EXCEPT ![r] = Begun(agent, by, "steps", Full)] /\ run \in [RunIds -> RunRecord]
  BY DEF Goes, BooksBase, BooksTyped
<1>3. run'[r] = Begun(agent, by, "steps", Full) /\ \A q \in RunIds \ {r} : run'[q] = run[q]
  BY <1>2
<1>4. run'[r].at = "steps" /\ run'[r].as = agent /\ run'[r].missed = Full /\ run'[r].dropped = 0
  BY <1>3 DEF Begun
<1>5. RunStarted(r, agent) /\ BooksTyped
  BY DEF Goes, BooksBase
<1>6. HeldAsKnown(r)'
  BY <1>1, <1>4, <1>5, BookRegisters DEF HeldAsKnown
<1>7. \A q \in RunIds \ {r} :
        /\ q \in DOMAIN inFlight' <=> q \in DOMAIN inFlight
        /\ q \in DOMAIN inFlight => inFlight'[q] = inFlight[q]
  BY <1>5, BookRegisters
<1> QED  BY <1>3, <1>6, <1>7, OthersHeld

LEMMA HeldNext == BooksBase /\ BooksHeld /\ [BooksNext]_booksVars => BooksHeld'
<1> SUFFICES ASSUME BooksBase, BooksHeld, [BooksNext]_booksVars PROVE BooksHeld'
  OBVIOUS
<1>1. BooksTyped /\ run \in [RunIds -> RunRecord]
  BY DEF BooksBase, BooksTyped
<1>2. ASSUME NEW r \in RunIds,
             Charge(r) \/ Drive(r) \/ Suspend(r) \/ \E a \in Agents : Handoff(r, a)
      PROVE  BooksHeld'
  <2>1. inFlight' = inFlight /\ \A q \in RunIds \ {r} : q \in parked' <=> q \in parked
    BY <1>2 DEF Charge, Drive, Suspend, Handoff, books
  <2>2. /\ SameHeld(r) /\ run'[r].dropped = run[r].dropped
        /\ \A q \in RunIds \ {r} : run'[q] = run[q]
        /\ run[r].at \in {"call", "steps"}
    BY <1>1, <1>2, StepWrites, SuspendWrites
  <2>3. (run'[r].at = "steps" /\ parked' = parked) \/ run'[r].at = "parked"
    BY <1>1, <1>2, StepWrites, SuspendWrites DEF Charge, Drive, Handoff
  <2>4. HeldAsKnown(r)
    BY DEF BooksHeld
  <2>5. HeldAsKnown(r)'
    BY <2>1, <2>2, <2>3, <2>4 DEF HeldAsKnown, SameHeld
  <2> QED  BY <2>1, <2>2, <2>5, OthersHeld
<1>3. ASSUME NEW r \in RunIds, Finish(r) \/ Suspended(r) \/ Dropped(r)
      PROVE  BooksHeld'
  <2>1. parked' = parked /\ HeldAsKnown(r)
    BY <1>3 DEF Finish, Suspended, Dropped, BooksHeld
  <2>2. /\ \A q \in RunIds \ {r} :
             /\ q \in DOMAIN inFlight' <=> q \in DOMAIN inFlight
             /\ q \in DOMAIN inFlight => inFlight'[q] = inFlight[q]
        /\ r \notin DOMAIN inFlight'
    <3>1. CASE inFlight' = Restrict(inFlight, DOMAIN inFlight \ {r})
      BY <1>1, <3>1, BookRemoves
    <3>2. CASE inFlight' = inFlight /\ r \notin DOMAIN inFlight
      BY <3>2
    <3> QED  BY <1>3, <3>1, <3>2 DEF Finish, Suspended, Dropped, Guard, RunFinished, RunCancelled
  <2>3. /\ \A q \in RunIds \ {r} : run'[q] = run[q]
        /\ \/ run'[r].at = "over" /\ run[r].at \in {"call", "steps"}
           \/ /\ run'[r].at = run[r].at /\ run'[r].dropped = run[r].dropped
              /\ run[r].at \in {"call", "steps"} => run'[r].missed
    BY <1>1, <1>3, StepWrites, SuspendedWrites
  <2>4. HeldAsKnown(r)'
    BY <2>1, <2>2, <2>3 DEF HeldAsKnown
  <2> QED  BY <2>1, <2>2, <2>3, <2>4, OthersHeld
<1>4. ASSUME NEW r \in RunIds, Resume(r)
      PROVE  BooksHeld'
  <2>1. /\ RunStarted(r, run[r].def) /\ r \in parked /\ parked' = parked \ {r}
        /\ run[r].def \in Agents /\ HeldAsKnown(r)
    BY <1>1, <1>4 DEF Resume, RunRecord, BooksHeld
  <2>2. run'[r].dropped = 0
    BY <1>1, <1>4, <2>1, ResumeWrites DEF HeldAsKnown
  <2>3. HeldAsKnown(r)'
    BY <1>1, <1>4, <2>1, <2>2, ResumeWrites, BookRegisters DEF HeldAsKnown
  <2>4. \A q \in RunIds \ {r} : run'[q] = run[q] /\ (q \in parked' <=> q \in parked)
    BY <1>1, <1>4, <2>1, ResumeWrites
  <2>5. \A q \in RunIds \ {r} :
          /\ q \in DOMAIN inFlight' <=> q \in DOMAIN inFlight
          /\ q \in DOMAIN inFlight => inFlight'[q] = inFlight[q]
    BY <1>1, <2>1, BookRegisters
  <2> QED  BY <2>3, <2>4, <2>5, OthersHeld
<1>5. ASSUME UNCHANGED <<run, inFlight>>, parked' \subseteq parked
      PROVE  BooksHeld'
  BY <1>5 DEF BooksHeld, HeldAsKnown
<1>6. CASE Requests
  BY <1>6, GoesHeld DEF Requests, Start
<1>7. CASE Looks
  BY <1>5, <1>7, GoesHeld, BooksAssumption DEF Looks, Look
<1>8. CASE Steps \/ Ends
  BY <1>2, <1>3, <1>8 DEF Steps, Ends
<1>9. CASE Humans
  BY <1>4, <1>5, <1>9 DEF Humans, Lapse, books
<1>10. CASE Device \/ UNCHANGED booksVars
  BY <1>5, <1>10 DEF Device, Passes, Changes, books, booksVars
<1> QED  BY <1>6, <1>7, <1>8, <1>9, <1>10 DEF BooksNext

\* How often each run that began as the agent a has stopped, how often each
\* that the book had under it has gone, and how often without missing a place.
Ended(runs, a) == [r \in RunIds |-> IF runs[r].entry = a THEN runs[r].finished ELSE 0]
Went(runs, a) == [r \in RunIds |-> IF runs[r].as = a THEN runs[r].dropped ELSE 0]
Known(runs, a) ==
  [r \in RunIds |-> IF runs[r].as = a /\ ~runs[r].missed THEN runs[r].dropped ELSE 0]

BooksTally ==
  \A a \in Agents :
    /\ tally[a].runs = tally[a].cancelled + SumFunction(Ended(run, a))
    /\ SumFunction(Known(run, a)) <= tally[a].cancelled
    /\ tally[a].cancelled <= SumFunction(Went(run, a))

LEMMA CountsTyped ==
  ASSUME NEW runs \in [RunIds -> RunRecord], NEW a
  PROVE  /\ Ended(runs, a) \in [RunIds -> Nat] /\ SumFunction(Ended(runs, a)) \in Nat
         /\ Went(runs, a) \in [RunIds -> Nat] /\ SumFunction(Went(runs, a)) \in Nat
         /\ Known(runs, a) \in [RunIds -> Nat] /\ SumFunction(Known(runs, a)) \in Nat
<1>1. \A r \in RunIds : runs[r].finished \in Nat /\ runs[r].dropped \in Nat
  BY DEF RunRecord
<1>2. /\ Ended(runs, a) \in [RunIds -> Nat] /\ Went(runs, a) \in [RunIds -> Nat]
      /\ Known(runs, a) \in [RunIds -> Nat]
  BY <1>1 DEF Ended, Went, Known
<1> QED  BY <1>2, SumType, BooksAssumption

\* One more end of one run.
LEMMA OneMoreEnd ==
  ASSUME NEW f \in [RunIds -> Nat], NEW g \in [RunIds -> Nat], NEW r \in RunIds,
         g[r] = f[r] + 1, \A q \in RunIds \ {r} : f[q] = g[q]
  PROVE  SumFunction(g) = SumFunction(f) + 1
<1>1. SumFunction(f) \in Nat /\ SumFunction(g) \in Nat /\ f[r] \in Nat
  BY SumType, BooksAssumption
<1>2. SumFunction(f) + g[r] = SumFunction(g) + f[r]
  BY SumChange, BooksAssumption
<1> QED  BY <1>1, <1>2

\* What the counts of a run that goes are kept by: it is under the same agent,
\* and has missed what it had, unless it has not gone.
SameGone(q) ==
  /\ run'[q].dropped = run[q].dropped
  /\ SameHeld(q) \/ run[q].dropped = 0

LEMMA GoneSame ==
  ASSUME \A q \in RunIds : SameGone(q), NEW a
  PROVE  Went(run', a) = Went(run, a) /\ Known(run', a) = Known(run, a)
  BY DEF SameGone, SameHeld, Went, Known

\* Most steps end nothing.
LEMMA TallySame ==
  ASSUME BooksTally, tally' = tally,
         \A q \in RunIds : /\ run'[q].finished = run[q].finished /\ SameGone(q)
                           /\ run'[q].entry = run[q].entry \/ run[q].finished = 0
  PROVE  BooksTally'
<1>1. ASSUME NEW a \in Agents
      PROVE  Ended(run', a) = Ended(run, a)
  BY DEF Ended
<1> QED  BY <1>1, GoneSame DEF BooksTally

\* A run ends, or is recorded as waiting.
LEMMA TallyFinish ==
  ASSUME BooksTyped, BooksTyped', BooksTally, NEW r \in RunIds, RunFinished(r),
         run'[r].finished = run[r].finished + 1,
         \A q \in RunIds : SameGone(q) /\ run'[q].entry = run[q].entry,
         \A q \in RunIds \ {r} : run'[q].finished = run[q].finished
  PROVE  BooksTally'
<1> DEFINE e == run[r].entry
<1>1. e \in Agents /\ run[r].finished \in Nat
      /\ run \in [RunIds -> RunRecord] /\ run' \in [RunIds -> RunRecord]
  BY DEF BooksTyped, RunRecord
<1>2. /\ tally'[e].runs = tally[e].runs + 1
      /\ \A a \in Agents \ {e} : tally'[a].runs = tally[a].runs
      /\ \A a \in Agents :
           /\ tally'[a].cancelled = tally[a].cancelled
           /\ tally[a].runs \in Nat /\ tally[a].cancelled \in Nat
  BY <1>1 DEF BooksTyped, RunFinished
<1>3. ASSUME NEW a \in Agents
      PROVE  /\ SumFunction(Known(run', a)) <= tally'[a].cancelled
             /\ tally'[a].cancelled <= SumFunction(Went(run', a))
  BY <1>2, GoneSame DEF BooksTally
<1>4. ASSUME NEW a \in Agents, a # e
      PROVE  Ended(run', a) = Ended(run, a)
  BY <1>4 DEF Ended
<1>5. SumFunction(Ended(run', e)) = SumFunction(Ended(run, e)) + 1
  <2>1. Ended(run, e) \in [RunIds -> Nat] /\ Ended(run', e) \in [RunIds -> Nat]
    BY <1>1, CountsTyped
  <2>2. Ended(run', e)[r] = Ended(run, e)[r] + 1
    BY DEF Ended
  <2>3. \A q \in RunIds \ {r} : Ended(run, e)[q] = Ended(run', e)[q]
    BY DEF Ended
  <2> HIDE DEF e
  <2> QED  BY <2>1, <2>2, <2>3, OneMoreEnd
<1>6. \A a \in Agents : SumFunction(Ended(run, a)) \in Nat
  BY <1>1, CountsTyped
<1> HIDE DEF e
<1>7. ASSUME NEW a \in Agents
      PROVE  tally'[a].runs = tally'[a].cancelled + SumFunction(Ended(run', a))
  BY <1>1, <1>2, <1>4, <1>5, <1>6, SMTT(30) DEF BooksTally
<1> QED  BY <1>3, <1>7 DEF BooksTally

\* A run is dropped: in the book it is under the agent it has in as, and
\* without a place there it has missed one.
LEMMA TallyDrop ==
  ASSUME BooksTyped, BooksTyped', BooksTally, NEW r \in RunIds, RunCancelled(r),
         HeldAsKnown(r), run[r].at \in {"call", "steps"},
         run'[r].dropped = run[r].dropped + 1,
         \A q \in RunIds : /\ run'[q].finished = run[q].finished /\ run'[q].entry = run[q].entry
                           /\ SameHeld(q),
         \A q \in RunIds \ {r} : run'[q].dropped = run[q].dropped
  PROVE  BooksTally'
<1> DEFINE e == run[r].as
<1>1. run \in [RunIds -> RunRecord] /\ run' \in [RunIds -> RunRecord]
      /\ tally \in [Agents -> [runs : Nat, cancelled : Nat]]
      /\ tally' \in [Agents -> [runs : Nat, cancelled : Nat]] /\ e \in Agents
  BY DEF BooksTyped, RunRecord
<1>2. ASSUME NEW a \in Agents
      PROVE  Ended(run', a) = Ended(run, a)
  BY DEF Ended
<1>3. ASSUME NEW a \in Agents, a # e
      PROVE  Went(run', a) = Went(run, a) /\ Known(run', a) = Known(run, a)
  BY <1>3 DEF Went, Known, SameHeld
<1>4. SumFunction(Went(run', e)) = SumFunction(Went(run, e)) + 1
  <2>1. Went(run, e) \in [RunIds -> Nat] /\ Went(run', e) \in [RunIds -> Nat]
    BY <1>1, CountsTyped
  <2>2. Went(run', e)[r] = Went(run, e)[r] + 1
    BY DEF Went, SameHeld
  <2>3. \A q \in RunIds \ {r} : Went(run, e)[q] = Went(run', e)[q]
    BY DEF Went, SameHeld
  <2> HIDE DEF e
  <2> QED  BY <2>1, <2>2, <2>3, OneMoreEnd
<1>5. IF run[r].missed THEN Known(run', e) = Known(run, e)
      ELSE SumFunction(Known(run', e)) = SumFunction(Known(run, e)) + 1
  <2>1. CASE run[r].missed
    BY <2>1 DEF Known, SameHeld
  <2>2. CASE ~run[r].missed
    <3>1. Known(run, e) \in [RunIds -> Nat] /\ Known(run', e) \in [RunIds -> Nat]
      BY <1>1, CountsTyped
    <3>2. Known(run', e)[r] = Known(run, e)[r] + 1
      BY <2>2 DEF Known, SameHeld
    <3>3. \A q \in RunIds \ {r} : Known(run, e)[q] = Known(run', e)[q]
      BY DEF Known, SameHeld
    <3> HIDE DEF e
    <3> QED  BY <2>2, <3>1, <3>2, <3>3, OneMoreEnd
  <2> QED  BY <2>1, <2>2
<1>6. /\ \A a \in Agents : tally[a].runs \in Nat /\ tally[a].cancelled \in Nat
      /\ \A a \in Agents : SumFunction(Went(run, a)) \in Nat /\ SumFunction(Known(run, a)) \in Nat
                           /\ SumFunction(Ended(run, a)) \in Nat
  BY <1>1, CountsTyped
<1>7. CASE r \notin DOMAIN inFlight
  <2>1. tally' = tally /\ run[r].missed
    BY <1>7 DEF RunCancelled, HeldAsKnown
  <2> HIDE DEF e
  <2>2. ASSUME NEW a \in Agents
        PROVE  /\ SumFunction(Known(run', a)) = SumFunction(Known(run, a))
               /\ SumFunction(Went(run, a)) <= SumFunction(Went(run', a))
    BY <1>1, <1>3, <1>4, <1>5, <1>6, <2>1
  <2>3. \A a \in Agents : SumFunction(Went(run', a)) \in Nat
    BY <1>1, CountsTyped
  <2> QED  BY <1>2, <1>6, <2>1, <2>2, <2>3 DEF BooksTally
<1>8. CASE r \in DOMAIN inFlight
  <2>1. inFlight[r] = e
    BY <1>8 DEF HeldAsKnown
  <2>2. /\ tally'[e].runs = tally[e].runs + 1 /\ tally'[e].cancelled = tally[e].cancelled + 1
        /\ \A a \in Agents \ {e} : tally'[a] = tally[a]
    BY <1>1, <1>8, <2>1 DEF RunCancelled
  <2> HIDE DEF e
  <2>3. ASSUME NEW a \in Agents, a # e
        PROVE  /\ tally'[a].runs = tally'[a].cancelled + SumFunction(Ended(run', a))
               /\ SumFunction(Known(run', a)) <= tally'[a].cancelled
               /\ tally'[a].cancelled <= SumFunction(Went(run', a))
    BY <1>2, <1>3, <2>2, <2>3 DEF BooksTally
  <2>4. /\ tally'[e].runs = tally'[e].cancelled + SumFunction(Ended(run', e))
        /\ SumFunction(Known(run', e)) <= tally'[e].cancelled
        /\ tally'[e].cancelled <= SumFunction(Went(run', e))
    <3>1. /\ tally[e].runs = tally[e].cancelled + SumFunction(Ended(run, e))
          /\ SumFunction(Known(run, e)) <= tally[e].cancelled
          /\ tally[e].cancelled <= SumFunction(Went(run, e))
      BY <1>1 DEF BooksTally
    <3>2. \/ SumFunction(Known(run', e)) = SumFunction(Known(run, e))
          \/ SumFunction(Known(run', e)) = SumFunction(Known(run, e)) + 1
      BY <1>5
    <3>3. tally'[e].runs = tally'[e].cancelled + SumFunction(Ended(run', e))
      BY <1>1, <1>2, <1>6, <2>2, <3>1
    <3>4. SumFunction(Known(run', e)) <= tally'[e].cancelled
      BY <1>1, <1>6, <2>2, <3>1, <3>2
    <3>5. tally'[e].cancelled <= SumFunction(Went(run', e))
      BY <1>1, <1>4, <1>6, <2>2, <3>1
    <3> QED  BY <3>3, <3>4, <3>5
  <2> QED  BY <2>3, <2>4 DEF BooksTally
<1> QED  BY <1>7, <1>8

LEMMA TallyInit == BooksInit => BooksTally
<1> SUFFICES ASSUME BooksInit PROVE BooksTally
  OBVIOUS
<1>1. run \in [RunIds -> RunRecord]
  BY BooksBaseInit DEF BooksBase, BooksTyped
<1>2. ASSUME NEW f \in [RunIds -> Nat], \A r \in RunIds : f[r] = 0
      PROVE  SumFunction(f) = 0
  <2>1. SumFunction([x \in {} |-> f[x]]) = SumFunction(f)
    BY <1>2, SumWithout, BooksAssumption, ZenonT(60)
  <2> QED  BY <2>1, SumEmpty
<1>3. \A r \in RunIds : run[r].finished = 0 /\ run[r].dropped = 0
  BY BegunTyped, BooksAssumption DEF BooksInit
<1>4. ASSUME NEW a \in Agents
      PROVE  /\ SumFunction(Ended(run, a)) = 0 /\ SumFunction(Went(run, a)) = 0
             /\ SumFunction(Known(run, a)) = 0
             /\ tally[a].runs = 0 /\ tally[a].cancelled = 0
  <2>1. /\ \A r \in RunIds : Ended(run, a)[r] = 0 /\ Went(run, a)[r] = 0 /\ Known(run, a)[r] = 0
    BY <1>3 DEF Ended, Went, Known
  <2> QED  BY <1>1, <1>2, <2>1, CountsTyped DEF BooksInit
<1> QED  BY <1>4 DEF BooksTally

LEMMA TallyNext ==
  BooksBase /\ BooksBase' /\ BooksHeld /\ BooksTally /\ [BooksNext]_booksVars => BooksTally'
<1> SUFFICES ASSUME BooksTyped, BooksTyped', Unbegun, BooksHeld, BooksTally, [BooksNext]_booksVars
             PROVE  BooksTally'
  BY DEF BooksBase
<1>1. run \in [RunIds -> RunRecord]
  BY DEF BooksTyped
<1>2. ASSUME NEW r \in RunIds, NEW by, NEW a \in Agents, Goes(r, by, a), tally' = tally
      PROVE  BooksTally'
  <2>1. run[r].finished = 0 /\ run[r].dropped = 0
    BY <1>2 DEF Goes, Unbegun
  <2>2. \A q \in RunIds : SameEnds(q)
    BY <1>1, <1>2, GoesCounts
  <2>3. \A q \in RunIds \ {r} : run'[q] = run[q]
    BY <1>1, <1>2 DEF Goes
  <2>4. \A q \in RunIds : /\ run'[q].finished = run[q].finished /\ SameGone(q)
                          /\ run'[q].entry = run[q].entry \/ run[q].finished = 0
    BY <2>1, <2>2, <2>3 DEF SameEnds, SameGone, SameHeld
  <2> QED  BY <1>2, <2>4, TallySame
<1>3. ASSUME NEW r \in RunIds,
             \/ Charge(r) \/ Drive(r) \/ Suspend(r) \/ Resume(r) \/ Lapse(r)
             \/ \E a \in Agents : Handoff(r, a)
      PROVE  BooksTally'
  <2>1. tally' = tally
    BY <1>3 DEF Charge, Drive, Suspend, Resume, Lapse, Handoff, books
  <2>2. \A q \in RunIds : SameEnds(q) /\ SameEntry(q)
    BY <1>1, <1>3, QuietCounts, ChargeCounts
  <2>3. \A q \in RunIds : SameHeld(q) \/ run[q].dropped = 0
    <3>1. CASE Charge(r) \/ Drive(r) \/ \E a \in Agents : Handoff(r, a)
      BY <1>1, <3>1, StepWrites DEF SameHeld
    <3>2. CASE Suspend(r)
      BY <1>1, <3>2, SuspendWrites DEF SameHeld
    <3>3. CASE Resume(r)
      <4>1. run[r].dropped = 0
        BY <3>3 DEF Resume, BooksHeld, HeldAsKnown
      <4> QED  BY <1>1, <3>3, <4>1, ResumeWrites DEF SameHeld
    <3>4. CASE Lapse(r)
      BY <3>4 DEF Lapse, SameHeld
    <3> QED  BY <1>3, <3>1, <3>2, <3>3, <3>4
  <2> QED  BY <2>1, <2>2, <2>3, TallySame DEF SameEnds, SameEntry, SameGone
<1>4. ASSUME NEW r \in RunIds, Finish(r) \/ Suspended(r)
      PROVE  BooksTally'
  <2>1. RunFinished(r)
    BY <1>4 DEF Finish, Suspended
  <2>2. /\ run'[r].finished = run[r].finished + 1
        /\ \A q \in RunIds : run'[q].dropped = run[q].dropped /\ run'[q].entry = run[q].entry
        /\ \A q \in RunIds \ {r} : run'[q].finished = run[q].finished
    BY <1>1, <1>4, EndCounts DEF SameEntry
  <2>3. \A q \in RunIds : SameHeld(q) \/ run[q].dropped = 0
    <3>1. CASE Finish(r)
      BY <1>1, <3>1, StepWrites DEF SameHeld
    <3>2. CASE Suspended(r)
      <4>1. run[r].at \in {"call", "steps"} => run[r].dropped = 0
        BY DEF BooksHeld, HeldAsKnown
      <4>2. run[r].missed \in BOOLEAN
        BY <1>1 DEF RunRecord
      <4> QED  BY <1>1, <3>2, <4>1, <4>2, SuspendedWrites DEF SameHeld
    <3> QED  BY <1>4, <3>1, <3>2
  <2> QED  BY <2>1, <2>2, <2>3, TallyFinish DEF SameGone
<1>5. ASSUME NEW r \in RunIds, Dropped(r)
      PROVE  BooksTally'
  <2>1. RunCancelled(r) /\ HeldAsKnown(r) /\ run[r].at \in {"call", "steps"}
    BY <1>5 DEF Dropped, Guard, BooksHeld
  <2>2. /\ run'[r].dropped = run[r].dropped + 1
        /\ \A q \in RunIds : run'[q].finished = run[q].finished /\ run'[q].entry = run[q].entry
        /\ \A q \in RunIds \ {r} : run'[q].dropped = run[q].dropped
    BY <1>1, <1>5, DropCounts DEF SameEntry
  <2>3. \A q \in RunIds : SameHeld(q)
    BY <1>1, <1>5, StepWrites DEF SameHeld
  <2> QED  BY <2>1, <2>2, <2>3, TallyDrop
<1>6. CASE UNCHANGED <<run, tally>>
  BY <1>6, TallySame DEF SameGone, SameHeld
<1>7. CASE Requests
  BY <1>2, <1>7 DEF Requests, Start
<1>8. CASE Looks
  BY <1>2, <1>6, <1>8, BooksAssumption DEF Looks, Look
<1>9. CASE Steps \/ Ends \/ Humans
  BY <1>3, <1>4, <1>5, <1>9 DEF Steps, Ends, Humans
<1>10. CASE Device
  BY <1>6, <1>10 DEF Device, Passes, Changes, books
<1>11. CASE UNCHANGED booksVars
  BY <1>6, <1>11 DEF booksVars
<1> QED  BY <1>7, <1>8, <1>9, <1>10, <1>11 DEF BooksNext

-----------------------------------------------------------------------------
(* No token is lost. *)

Tokens(runs) == [r \in RunIds |-> runs[r].tokens]

BooksSpend ==
  /\ SumFunction(lines) = SumFunction(Tokens(run))
  /\ Cardinality(DOMAIN lines \ {Overflow}) <= MaxKeys

LEMMA SpendInit == BooksInit => BooksSpend
<1> SUFFICES ASSUME BooksInit PROVE BooksSpend
  OBVIOUS
<1>1. DOMAIN lines = {} /\ DOMAIN lines \ {Overflow} = {}
  BY DEF BooksInit
<1>2. SumFunction(lines) = 0
  BY <1>1, SumEmpty
<1>3. Tokens(run) \in [RunIds -> Nat] /\ \A r \in RunIds : Tokens(run)[r] = 0
  BY DEF Tokens, BooksInit, Begun
<1>4. SumFunction([x \in {} |-> Tokens(run)[x]]) = SumFunction(Tokens(run))
  BY <1>3, SumWithout, BooksAssumption, ZenonT(60)
<1>5. SumFunction([x \in {} |-> Tokens(run)[x]]) = 0
  BY SumEmpty
<1>6. Cardinality(DOMAIN lines \ {Overflow}) = 0 /\ MaxKeys \in Nat
  BY <1>1, FS_EmptySet, BooksAssumption
<1> QED  BY <1>2, <1>4, <1>5, <1>6 DEF BooksSpend

\* A charge is on some line: its own, or that of the overflow.
LEMMA SpendCharge ==
  ASSUME BooksTyped, BooksTyped', BooksSpend, NEW r \in RunIds, NEW key, LedgerCharge(key, 1),
         run'[r].tokens = run[r].tokens + 1,
         \A q \in RunIds \ {r} : run'[q].tokens = run[q].tokens
  PROVE  BooksSpend'
<1> DEFINE D == DOMAIN lines
<1>1. IsFiniteSet(D) /\ lines \in [D -> Nat] /\ Cardinality(D) \in Nat /\ MaxKeys \in Nat
  BY FS_CardinalityType, BooksAssumption DEF BooksTyped
<1>2. PICK line : /\ lines' = Put(lines, line, 1 + (IF line \in DOMAIN lines THEN lines[line] ELSE 0))
                  /\ line \in D \cup {Overflow} \/ Cardinality(D) < MaxKeys
  BY <1>1 DEF LedgerCharge
<1>3. SumFunction(Tokens(run')) = SumFunction(Tokens(run)) + 1
  <2>1. Tokens(run) \in [RunIds -> Nat] /\ Tokens(run') \in [RunIds -> Nat]
    BY DEF BooksTyped, RunRecord, Tokens
  <2>2. Tokens(run')[r] = Tokens(run)[r] + 1
        /\ \A q \in RunIds \ {r} : Tokens(run)[q] = Tokens(run')[q]
    BY DEF Tokens
  <2> QED  BY <2>1, <2>2, OneMoreEnd
<1>4. DOMAIN lines' = D \cup {line}
  BY <1>2 DEF Put
<1>5. SumFunction(lines') = SumFunction(lines) + 1
  <2>1. SumFunction(lines) \in Nat
    BY <1>1, SumType
  <2>2. CASE line \in D
    <3>1. lines' \in [D -> Nat] /\ lines'[line] = 1 + lines[line] /\ lines[line] \in Nat
          /\ \A l \in D \ {line} : lines[l] = lines'[l]
      BY <1>1, <1>2, <2>2 DEF Put
    <3>2. SumFunction(lines) + lines'[line] = SumFunction(lines') + lines[line]
      BY <1>1, <2>2, <3>1, SumChange
    <3>3. SumFunction(lines') \in Nat
      BY <1>1, <3>1, SumType
    <3> QED  BY <2>1, <3>1, <3>2, <3>3
  <2>3. CASE line \notin D
    <3>1. lines' \in [D \cup {line} -> Nat] /\ lines'[line] = 1
          /\ \A l \in D : lines'[l] = lines[l]
      BY <1>1, <1>2, <2>3 DEF Put
    <3>2. SumFunction(lines') = SumFunction(lines) + lines'[line]
      BY <1>1, <2>3, <3>1, SumMore
    <3> QED  BY <3>1, <3>2
  <2> QED  BY <2>2, <2>3
<1>6. Cardinality(DOMAIN lines' \ {Overflow}) <= MaxKeys
  <2>1. CASE line \in D \cup {Overflow}
    <3>1. DOMAIN lines' \ {Overflow} = D \ {Overflow}
      BY <1>4, <2>1
    <3> QED  BY <3>1 DEF BooksSpend
  <2>2. CASE Cardinality(D) < MaxKeys
    <3>1. IsFiniteSet(D \cup {line}) /\ Cardinality(D \cup {line}) <= Cardinality(D) + 1
          /\ Cardinality(D \cup {line}) \in Nat
      <4>1. Cardinality(D \cup {line}) = IF line \in D THEN Cardinality(D) ELSE Cardinality(D) + 1
        BY <1>1, FS_AddElement
      <4>2. IsFiniteSet(D \cup {line})
        BY <1>1, FS_AddElement
      <4> HIDE DEF D
      <4> QED  BY <1>1, <4>1, <4>2
    <3>2. Cardinality((D \cup {line}) \ {Overflow}) <= Cardinality(D \cup {line})
          /\ Cardinality((D \cup {line}) \ {Overflow}) \in Nat
      BY <3>1, FS_Subset, FS_CardinalityType
    <3> QED  BY <1>1, <1>4, <2>2, <3>1, <3>2
  <2> QED  BY <1>2, <2>1, <2>2
<1> QED  BY <1>3, <1>5, <1>6 DEF BooksSpend

LEMMA SpendNext == BooksBase /\ BooksBase' /\ BooksSpend /\ [BooksNext]_booksVars => BooksSpend'
<1> SUFFICES ASSUME BooksTyped, BooksTyped', Unbegun, BooksSpend, [BooksNext]_booksVars
             PROVE  BooksSpend'
  BY DEF BooksBase
<1>1. run \in [RunIds -> RunRecord]
  BY DEF BooksTyped
<1>2. ASSUME lines' = lines, \A q \in RunIds : run'[q].tokens = run[q].tokens
      PROVE  BooksSpend'
  <2>1. Tokens(run') = Tokens(run)
    BY <1>2 DEF Tokens
  <2> QED  BY <1>2, <2>1 DEF BooksSpend
<1>3. ASSUME NEW r \in RunIds, NEW by, NEW a \in Agents, Goes(r, by, a)
      PROVE  \A q \in RunIds : run'[q].tokens = run[q].tokens
  BY <1>1, <1>3, GoesCounts DEF SameTokens
<1>4. ASSUME NEW r \in RunIds, Charge(r)
      PROVE  BooksSpend'
  <2>1. LedgerCharge(run[r].def, 1)
    BY <1>4 DEF Charge
  <2>2. run'[r].tokens = run[r].tokens + 1
        /\ \A q \in RunIds \ {r} : run'[q].tokens = run[q].tokens
    BY <1>1, <1>4, ChargeCounts DEF SameTokens
  <2> QED  BY <2>1, <2>2, SpendCharge
<1>5. ASSUME NEW r \in RunIds,
             \/ Drive(r) \/ Finish(r) \/ Suspend(r) \/ Suspended(r) \/ Dropped(r) \/ Resume(r)
             \/ Lapse(r) \/ \E a \in Agents : Handoff(r, a)
      PROVE  BooksSpend'
  <2>1. lines' = lines
    BY <1>5 DEF Drive, Finish, Suspend, Suspended, Dropped, Resume, Lapse, Handoff, books
  <2>2. \A q \in RunIds : run'[q].tokens = run[q].tokens
    <3>1. CASE Finish(r) \/ Suspended(r)
      BY <1>1, <3>1, EndCounts DEF SameTokens
    <3>2. CASE Dropped(r)
      BY <1>1, <3>2, DropCounts DEF SameTokens
    <3>3. CASE Drive(r) \/ Suspend(r) \/ Resume(r) \/ Lapse(r) \/ \E a \in Agents : Handoff(r, a)
      BY <1>1, <3>3, QuietCounts DEF SameTokens
    <3> QED  BY <1>5, <3>1, <3>2, <3>3
  <2> QED  BY <1>2, <2>1, <2>2
<1>6. CASE Requests
  BY <1>2, <1>3, <1>6 DEF Requests, Start
<1>7. CASE Looks
  BY <1>2, <1>3, <1>7, BooksAssumption DEF Looks, Look
<1>8. CASE Steps \/ Ends \/ Humans
  BY <1>4, <1>5, <1>8 DEF Steps, Ends, Humans
<1>9. CASE Device
  BY <1>2, <1>9 DEF Device, Passes, Changes, books
<1>10. CASE UNCHANGED booksVars
  BY <1>2, <1>10 DEF booksVars, books
<1> QED  BY <1>6, <1>7, <1>8, <1>9, <1>10 DEF BooksNext

-----------------------------------------------------------------------------
(* The ceiling of an hour *)

\* What the watcher remembers are its latest times, at most PerHour of them,
\* and those it has forgotten are more than an hour ago.
BooksHour ==
  LET n == Len(asked)
      m == Len(watch.runs)
  IN /\ m <= n /\ m <= PerHour
     /\ \A k \in 1..m : watch.runs[k] = asked[n - m + k]
     /\ \A i \in 1..(n - m) : now - asked[i] > Hour
     /\ HourlyCeiling

LEMMA HourInit == BooksInit => BooksHour
  BY BooksAssumption DEF BooksInit, BooksHour, HourlyCeiling

LEMMA HourSame ==
  ASSUME BooksTyped, BooksTyped', BooksHour, asked' = asked, watch'.runs = watch.runs, now <= now'
  PROVE  BooksHour'
<1>1. /\ now \in Nat /\ now' \in Nat /\ Hour \in Nat /\ \A i \in 1..Len(asked) : asked[i] \in Nat
      /\ Len(asked) \in Nat /\ Len(watch.runs) \in Nat
  <2>1. now \in Nat /\ now' \in Nat /\ asked \in Seq(Nat) /\ watch.runs \in Seq(Nat)
    BY DEF BooksTyped
  <2>2. Hour \in Nat
    BY BooksAssumption
  <2> QED  BY <2>1, <2>2
<1>2. \A i \in 1..(Len(asked) - Len(watch.runs)) : now' - asked[i] > Hour
  BY <1>1 DEF BooksHour
<1> QED  BY <1>2 DEF BooksHour, HourlyCeiling

LEMMA HourLook ==
  ASSUME BooksTyped, BooksTyped', BooksHour, NEW r \in RunIds, Look(r)
  PROVE  BooksHour'
<1> DEFINE n == Len(asked)
           m == Len(watch.runs)
           old == watch.runs
<1>1. /\ now \in Nat /\ Hour \in Nat /\ PerHour \in Nat \ {0} /\ asked \in Seq(Nat) /\ old \in Seq(Nat)
      /\ n \in Nat /\ m \in Nat /\ \A i \in 1..n : asked[i] \in Nat
  BY BooksAssumption, SMTT(30) DEF BooksTyped
<1>2. PICK k \in 1..(m + 1) : Recent = SubSeq(old, k, m) /\ \A j \in 1..(k - 1) : now - old[j] > Hour
  BY RecentShape
<1>3. /\ Recent \in Seq(Nat) /\ Len(Recent) = m - k + 1
      /\ \A i \in 1..(m - k + 1) : Recent[i] = old[k + i - 1]
  <2>1. k \in 1..(Len(old) + 1)
    BY <1>1, <1>2
  <2>2. /\ SubSeq(old, k, m) \in Seq(Nat)
        /\ Len(SubSeq(old, k, m)) = IF k <= m THEN m - k + 1 ELSE 0
        /\ \A i \in 1..(m - k + 1) : SubSeq(old, k, m)[i] = old[k + i - 1]
    BY <1>1, <2>1, SubSeqProperties
  <2>3. (IF k <= m THEN m - k + 1 ELSE 0) = m - k + 1
    BY <1>1, <1>2
  <2> HIDE DEF m, old
  <2> QED  BY <1>2, <2>2, <2>3
<1>4. /\ asked' = Append(asked, now) /\ watch'.runs = Append(Recent, now) /\ now' = now
      /\ Len(Recent) < PerHour
  BY DEF Look
<1> HIDE DEF n, m, old
<1>5. /\ Len(asked') = n + 1 /\ asked'[n + 1] = now
      /\ \A i \in 1..n : asked'[i] = asked[i]
  BY <1>1, <1>4, AppendProperties DEF n
<1>6. /\ Len(watch'.runs) = m - k + 2 /\ watch'.runs[m - k + 2] = now
      /\ \A i \in 1..(m - k + 1) : watch'.runs[i] = old[k + i - 1]
  BY <1>1, <1>2, <1>3, <1>4, AppendProperties
<1>7. /\ m <= n /\ m <= PerHour
      /\ \A j \in 1..m : old[j] = asked[n - m + j]
      /\ \A i \in 1..(n - m) : now - asked[i] > Hour
      /\ \A i \in 1..(n - PerHour) : asked[i + PerHour] - asked[i] > Hour
  BY DEF BooksHour, HourlyCeiling, n, m, old
<1>8. m - k + 2 <= n + 1 /\ m - k + 2 <= PerHour
  BY <1>1, <1>2, <1>3, <1>4, <1>7
<1>9. ASSUME NEW i \in 1..(m - k + 2)
      PROVE  watch'.runs[i] = asked'[(n + 1) - (m - k + 2) + i]
  <2>1. CASE i = m - k + 2
    <3>1. (n + 1) - (m - k + 2) + i = n + 1
      BY <1>1, <2>1
    <3> QED  BY <1>5, <1>6, <2>1, <3>1
  <2>2. CASE i # m - k + 2
    <3>1. i \in 1..(m - k + 1) /\ k + i - 1 \in 1..m /\ n - m + (k + i - 1) \in 1..n
      BY <1>1, <1>2, <1>7, <2>2
    <3>2. (n + 1) - (m - k + 2) + i = n - m + (k + i - 1)
      BY <1>1, <1>2
    <3>3. watch'.runs[i] = asked[n - m + (k + i - 1)]
      BY <1>6, <1>7, <3>1
    <3> QED  BY <1>5, <3>1, <3>2, <3>3
  <2> QED  BY <2>1, <2>2
<1>10. ASSUME NEW i \in 1..((n + 1) - (m - k + 2))
       PROVE  i \in 1..n /\ now - asked[i] > Hour
  <2>1. i \in 1..n
    BY <1>1, <1>2, <1>7
  <2>2. CASE i \in 1..(n - m)
    BY <1>7, <2>1, <2>2
  <2>3. CASE i \notin 1..(n - m)
    <3>1. i - (n - m) \in 1..(k - 1) /\ i - (n - m) \in 1..m
      BY <1>1, <1>2, <1>7, <2>1, <2>3
    <3>2. n - m + (i - (n - m)) = i
      BY <1>1, <2>1
    <3>3. old[i - (n - m)] = asked[i]
      BY <1>7, <3>1, <3>2
    <3> QED  BY <1>2, <2>1, <3>1, <3>3
  <2> QED  BY <2>2, <2>3
<1>11. ASSUME NEW i \in 1..((n + 1) - PerHour)
       PROVE  asked'[i + PerHour] - asked'[i] > Hour
  <2>1. CASE i \in 1..(n - PerHour)
    <3>1. i \in 1..n /\ i + PerHour \in 1..n
      BY <1>1, <2>1
    <3> QED  BY <1>5, <1>7, <2>1, <3>1
  <2>2. CASE i \notin 1..(n - PerHour)
    <3>1. i + PerHour = n + 1 /\ i \in 1..((n + 1) - (m - k + 2)) /\ i \in 1..n
      BY <1>1, <1>2, <1>8, <2>2
    <3> QED  BY <1>5, <1>10, <3>1
  <2> QED  BY <2>1, <2>2
<1>12. HourlyCeiling'
  BY <1>5, <1>11 DEF HourlyCeiling
<1>13. \A i \in 1..((n + 1) - (m - k + 2)) : now' - asked'[i] > Hour
  BY <1>4, <1>5, <1>10
<1> QED  BY <1>5, <1>6, <1>8, <1>9, <1>12, <1>13 DEF BooksHour

LEMMA HourNext == BooksBase /\ BooksBase' /\ BooksHour /\ [BooksNext]_booksVars => BooksHour'
<1> SUFFICES ASSUME BooksTyped, BooksTyped', BooksHour, [BooksNext]_booksVars
             PROVE  BooksHour'
  BY DEF BooksBase
<1>1. ASSUME asked' = asked, watch' = watch \/ watch'.runs = watch.runs, now' = now \/ now' = now + 1
      PROVE  BooksHour'
  BY <1>1, HourSame DEF BooksTyped
<1>2. CASE Requests
  BY <1>1, <1>2 DEF Requests, Start
<1>3. CASE Steps
  BY <1>1, <1>3 DEF Steps, Charge, Drive, Handoff
<1>4. CASE Ends
  <2>1. PICK r \in RunIds : Finish(r) \/ Suspend(r) \/ Suspended(r) \/ Dropped(r)
    BY <1>4 DEF Ends
  <2>2. watch' = watch \/ Answered(r)
    BY <2>1 DEF Finish, Suspend, Suspended, Dropped
  <2>3. watch'.runs = watch.runs
    BY <2>2, AnswerTyped
  <2> QED  BY <1>1, <2>1, <2>3 DEF Finish, Suspend, Suspended, Dropped
<1>5. CASE Humans
  BY <1>1, <1>5 DEF Humans, Resume, Lapse
<1>6. CASE Device
  BY <1>1, <1>6 DEF Device, Passes, Changes
<1>7. CASE Looks
  BY <1>7, HourLook DEF Looks
<1>8. CASE UNCHANGED booksVars
  BY <1>1, <1>8 DEF booksVars
<1> QED  BY <1>2, <1>3, <1>4, <1>5, <1>6, <1>7, <1>8 DEF BooksNext

-----------------------------------------------------------------------------
(* What holds of every behaviour *)

BooksInv == BooksBase /\ BooksHeld /\ BooksTally /\ BooksSpend /\ BooksHour

LEMMA BooksInductive == BooksSpec => []BooksInv
<1>1. BooksInit => BooksInv
  BY BooksBaseInit, HeldInit, TallyInit, SpendInit, HourInit DEF BooksInv
<1>2. BooksInv /\ [BooksNext]_booksVars => BooksInv'
  BY BooksBaseNext, HeldNext, TallyNext, SpendNext, HourNext DEF BooksInv
<1> QED  BY <1>1, <1>2, PTL DEF BooksSpec

\* status.rs:422, agent.rs:544.  Nothing stays in the book of runs in flight:
\* not a run dropped while its approved call runs, nor one that was answered
\* before it had recorded that it waits.
THEOREM BookEmpties == BooksSpec => []NothingStays
<1>1. BooksInv => NothingStays
  BY DEF BooksInv, BooksBase
<1> QED  BY <1>1, BooksInductive, PTL

\* status.rs:378, status.rs:425, agent.rs:541.  Each end of a run is counted
\* once: one that finished or stopped for a human for the agent it began as, and
\* one that was dropped for the agent the book had it under when its request
\* began, or its resumption, if it was never without a place there.
THEOREM EndsCounted == BooksSpec => []TalliedOnce
<1>1. ASSUME BooksInv
      PROVE  TalliedOnce
  <2>1. BooksTyped /\ run \in [RunIds -> RunRecord]
    BY <1>1 DEF BooksInv, BooksBase, BooksTyped
  <2>2. ASSUME NEW a \in Agents
        PROVE  tally[a].runs - tally[a].cancelled
                 = SumFunction([r \in {x \in RunIds : run[x].entry = a} |-> run[r].finished])
    <3> DEFINE S == {x \in RunIds : run[x].entry = a}
    <3>1. Ended(run, a) \in [RunIds -> Nat] /\ S \in SUBSET RunIds
          /\ \A x \in RunIds \ S : Ended(run, a)[x] = 0
      BY <2>1, CountsTyped DEF Ended
    <3>2. SumFunction([r \in S |-> Ended(run, a)[r]]) = SumFunction(Ended(run, a))
      BY <3>1, SumWithout, BooksAssumption
    <3>3. [r \in S |-> Ended(run, a)[r]] = [r \in S |-> run[r].finished]
      BY DEF Ended
    <3>4. tally[a].runs = tally[a].cancelled + SumFunction(Ended(run, a))
          /\ SumFunction(Ended(run, a)) \in Nat /\ tally[a].cancelled \in Nat
      BY <1>1, <2>1, CountsTyped DEF BooksInv, BooksTally, BooksTyped
    <3> QED  BY <3>2, <3>3, <3>4
  <2>3. ASSUME NEW a \in Agents
        PROVE  tally[a].cancelled
                 <= SumFunction([r \in {x \in RunIds : run[x].as = a} |-> run[r].dropped])
    <3> DEFINE S == {x \in RunIds : run[x].as = a}
    <3>1. Went(run, a) \in [RunIds -> Nat] /\ S \in SUBSET RunIds
          /\ \A x \in RunIds \ S : Went(run, a)[x] = 0
      BY <2>1, CountsTyped DEF Went
    <3>2. SumFunction([r \in S |-> Went(run, a)[r]]) = SumFunction(Went(run, a))
      BY <3>1, SumWithout, BooksAssumption
    <3>3. [r \in S |-> Went(run, a)[r]] = [r \in S |-> run[r].dropped]
      BY DEF Went
    <3> QED  BY <1>1, <3>2, <3>3 DEF BooksInv, BooksTally
  <2>4. ASSUME NEW a \in Agents
        PROVE  SumFunction([r \in {x \in {q \in RunIds : ~run[q].missed} : run[x].as = a} |->
                              run[r].dropped]) <= tally[a].cancelled
    <3> DEFINE S == {x \in {q \in RunIds : ~run[q].missed} : run[x].as = a}
    <3>1. Known(run, a) \in [RunIds -> Nat] /\ S \in SUBSET RunIds
          /\ \A x \in RunIds \ S : Known(run, a)[x] = 0
      BY <2>1, CountsTyped DEF Known
    <3>2. SumFunction([r \in S |-> Known(run, a)[r]]) = SumFunction(Known(run, a))
      BY <3>1, SumWithout, BooksAssumption
    <3>3. [r \in S |-> Known(run, a)[r]] = [r \in S |-> run[r].dropped]
      BY DEF Known
    <3> QED  BY <1>1, <3>2, <3>3 DEF BooksInv, BooksTally
  <2> QED  BY <2>2, <2>3, <2>4 DEF TalliedOnce
<1> QED  BY <1>1, BooksInductive, PTL

\* ledger.rs:118, ledger.rs:157.  The ledger reports every token there was,
\* however many agents share however few lines, and no cost that is a part's.
THEOREM SpendReported == BooksSpec => []SpendKept
<1>1. ASSUME BooksInv
      PROVE  SpendKept
  <2> DEFINE whole == SumFunction([r \in RunIds |-> run[r].tokens])
  <2>1. SumFunction(lines) = whole /\ Cardinality(DOMAIN lines \ {Overflow}) <= MaxKeys
    BY <1>1 DEF BooksInv, BooksSpend, Tokens
  <2>2. IsFiniteSet(DOMAIN lines) /\ lines \in [DOMAIN lines -> Nat] /\ MaxKeys \in Nat
    BY <1>1, BooksAssumption DEF BooksInv, BooksBase, BooksTyped
  <2>3. Report.total_tokens = whole
    BY <2>1 DEF Report
  <2>4. Report.estimated_cost \in {whole, Unknown}
    <3>1. CASE DOMAIN lines \subseteq Priced
      <4>1. Restrict(lines, DOMAIN lines \cap Priced) = lines
        BY <2>2, <3>1 DEF Restrict
      <4> QED  BY <2>1, <3>1, <4>1 DEF Report
    <3>2. CASE ~(DOMAIN lines \subseteq Priced)
      BY <3>2 DEF Report
    <3> QED  BY <3>1, <3>2
  <2>5. Cardinality(DOMAIN lines) <= MaxKeys + 1
    <3>1. Cardinality(DOMAIN lines) \in Nat
      BY <2>2, FS_CardinalityType
    <3>2. Cardinality(DOMAIN lines \ {Overflow})
            = IF Overflow \in DOMAIN lines THEN Cardinality(DOMAIN lines) - 1
              ELSE Cardinality(DOMAIN lines)
      BY <2>2, FS_RemoveElement
    <3> QED  BY <2>1, <2>2, <3>1, <3>2
  <2> QED  BY <2>3, <2>4, <2>5 DEF SpendKept
<1> QED  BY <1>1, BooksInductive, PTL

\* devices.rs:569.  A watcher asks no more often than PerHour times in any hour
\* there is, wherever it begins and whether or not its agent could run.
THEOREM CeilingHolds == BooksSpec => []HourlyCeiling
<1>1. BooksInv => HourlyCeiling
  BY DEF BooksInv, BooksHour
<1> QED  BY <1>1, BooksInductive, PTL

=============================================================================
