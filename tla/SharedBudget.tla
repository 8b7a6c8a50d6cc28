---------------------------- MODULE SharedBudget ----------------------------
(***************************************************************************)
(* SharedBudget (agent.rs): one AtomicU64 that every run of a request tree *)
(* charges: agents and their compactions, behaviours' ask and ask_many, a  *)
(* flow's classifier.  The runs of parallel branches and gathered calls    *)
(* interleave; the counter is read and swapped in separate steps.          *)
(***************************************************************************)
EXTENDS Integers, FiniteSets

CONSTANTS Runs,      \* runs of the tree that can be active at one time
          Calls,     \* model calls a run makes between two checks
          MaxTokens, \* the root's token_budget
          Amounts,   \* token counts an answer may report
          PerCall,   \* the largest of them
          MaxWord    \* u64::MAX

ASSUME SharedAssumption ==
    /\ IsFiniteSet(Runs) /\ IsFiniteSet(Calls)
    /\ MaxTokens \in Nat /\ PerCall \in Nat /\ MaxWord \in Nat
    /\ MaxTokens <= MaxWord
    /\ Amounts \subseteq 0..PerCall

VARIABLES
    pc,      \* where each run is
    due,     \* the calls each run may still make before it checks again
    call,    \* the call each run is making or paying for
    amount,  \* the tokens its answer reported
    current, \* saturating_fetch_add's last view of the counter
    used,    \* SharedBudget.used
    spent    \* history: the tokens charged, all told

runVars == <<pc, due, call, amount, current>>
vars == <<runVars, used, spent>>

Saturated(n) == IF n > MaxWord THEN MaxWord ELSE n

(* SharedBudget::exhausted *)
Exhausted == used >= MaxTokens

Init ==
    /\ pc = [r \in Runs |-> "idle"]
    /\ due = [r \in Runs |-> {}]
    /\ call \in [Runs -> Calls]
    /\ amount = [r \in Runs |-> 0]
    /\ current = [r \in Runs |-> 0]
    /\ used = 0
    /\ spent = 0

(* Faulty variant: the check is left out. *)
Check_Skipped(r) ==
    /\ pc[r] = "idle"
    /\ \E calls \in SUBSET Calls : calls # {} /\ due' = [due EXCEPT ![r] = calls]
    /\ pc' = [pc EXCEPT ![r] = "ready"]
    /\ UNCHANGED <<call, amount, current, used, spent>>

(* A run checks before its next calls; an exhausted budget ends it. *)
Check(r) ==
    /\ pc[r] = "idle"
    /\ ~Exhausted
    /\ \E calls \in SUBSET Calls : calls # {} /\ due' = [due EXCEPT ![r] = calls]
    /\ pc' = [pc EXCEPT ![r] = "ready"]
    /\ UNCHANGED <<call, amount, current, used, spent>>

(* The provider is asked; the budget is not looked at again. *)
Ask(r) ==
    /\ pc[r] = "ready"
    /\ \E c \in due[r] : call' = [call EXCEPT ![r] = c]
    /\ pc' = [pc EXCEPT ![r] = "calling"]
    /\ UNCHANGED <<due, amount, current, used, spent>>

(* The provider answers; charge() is entered with what it cost. *)
Answer(r) ==
    /\ pc[r] = "calling"
    /\ \E n \in Amounts : amount' = [amount EXCEPT ![r] = n]
    /\ pc' = [pc EXCEPT ![r] = "loading"]
    /\ UNCHANGED <<due, call, current, used, spent>>

(* The provider fails: a failed compaction is passed over, and any other   *)
(* failure ends the run's calls.                                           *)
Fail(r) ==
    /\ pc[r] = "calling"
    /\ \E rest \in {due[r] \ {call[r]}, {}} :
        /\ due' = [due EXCEPT ![r] = rest]
        /\ pc' = [pc EXCEPT ![r] = IF rest = {} THEN "idle" ELSE "ready"]
    /\ UNCHANGED <<call, amount, current, used, spent>>

(* saturating_fetch_add: the load before the loop. *)
LoadCounter(r) ==
    /\ pc[r] = "loading"
    /\ current' = [current EXCEPT ![r] = used]
    /\ pc' = [pc EXCEPT ![r] = "swapping"]
    /\ UNCHANGED <<due, call, amount, used, spent>>

(* The answer is paid for: on to the next call, or back to the check. *)
Paid(r) ==
    LET rest == due[r] \ {call[r]}
    IN  /\ spent' = spent + amount[r]
        /\ due' = [due EXCEPT ![r] = rest]
        /\ pc' = [pc EXCEPT ![r] = IF rest = {} THEN "idle" ELSE "ready"]
        /\ UNCHANGED <<call, amount, current>>

(* Faulty variant: the sum wraps. *)
Swap_Wraps(r) ==
    /\ pc[r] = "swapping" /\ current[r] = used
    /\ used' = (used + amount[r]) % (MaxWord + 1) /\ Paid(r)

(* compare_exchange_weak succeeds.  charge's own Err is dropped by the     *)
(* agent loop and the classifier.                                          *)
Swap(r) ==
    /\ pc[r] = "swapping"
    /\ current[r] = used
    /\ used' = Saturated(current[r] + amount[r])
    /\ Paid(r)

(* It fails: another charge came first.  (Failing for no reason, as the    *)
(* weak form may, reloads the same value and changes nothing.)             *)
Retry(r) ==
    /\ pc[r] = "swapping"
    /\ current[r] # used
    /\ current' = [current EXCEPT ![r] = used]
    /\ UNCHANGED <<pc, due, call, amount, used, spent>>

(* The run is dropped while it waits for the provider: its request timed   *)
(* out, or its client went away.                                           *)
Cancel(r) ==
    /\ pc[r] = "calling"
    /\ due' = [due EXCEPT ![r] = {}]
    /\ pc' = [pc EXCEPT ![r] = "idle"]
    /\ UNCHANGED <<call, amount, current, used, spent>>

Next ==
    \E r \in Runs :
        \/ Check(r) \/ Ask(r) \/ Answer(r) \/ Fail(r)
        \/ LoadCounter(r) \/ Swap(r) \/ Retry(r) \/ Cancel(r)

Spec == Init /\ [][Next]_vars

(* Each run's code runs on, and the provider answers or times out. *)
FairSpec == Spec /\ \A r \in Runs :
    /\ WF_vars(Ask(r)) /\ WF_vars(Answer(r) \/ Fail(r))
    /\ WF_vars(LoadCounter(r)) /\ WF_vars(Swap(r)) /\ WF_vars(Retry(r))

-----------------------------------------------------------------------------
(* Properties *)

TypeOK ==
    /\ pc \in [Runs -> {"idle", "ready", "calling", "loading", "swapping"}]
    /\ due \in [Runs -> SUBSET Calls]
    /\ call \in [Runs -> Calls]
    /\ amount \in [Runs -> 0..PerCall]
    /\ current \in [Runs -> 0..MaxWord]
    /\ used \in 0..MaxWord
    /\ spent \in Nat

(* The calls a run may make or is making without checking again. *)
Outstanding == {s \in Runs \X Calls : s[2] \in due[s[1]]}

Abstract == INSTANCE TokenBudget WITH
    Slots <- Cardinality(Runs \X Calls), open <- Cardinality(Outstanding)

(* Every step of the loop is one step of the atomic budget, or none: the   *)
(* compare-and-swap loses no charge, whatever the interleaving.            *)
ImplementsBudget == Abstract!Spec

(* No tokens are lost from the counter, and it never wraps round.          *)
CounterExact == Abstract!CounterExact

(* The tree overshoots its budget by no more than its open calls cost.     *)
SpendBounded == Abstract!SpendBounded

=============================================================================
