----------------------------- MODULE TokenBudget -----------------------------
(***************************************************************************)
(* What the shared token budget of a request tree promises, with admission *)
(* and payment each one atomic step.  SharedBudget implements it with a    *)
(* compare-and-swap loop on one 64-bit counter.                            *)
(*                                                                         *)
(* A run checks the budget and may then make several model calls (a        *)
(* compaction and a completion; a batch of ask_many) before it checks      *)
(* again: those are the open calls.                                        *)
(***************************************************************************)
EXTENDS Integers

CONSTANTS Slots,     \* how many model calls can be open at one time
          MaxTokens, \* the root's token_budget
          PerCall,   \* the most tokens one answer reports
          MaxWord    \* the largest counter value (2^64 - 1)

(* Assumed by the theorems; SharedBudget's constants satisfy it. *)
BudgetAssumption ==
    /\ Slots \in Nat /\ PerCall \in Nat
    /\ MaxTokens \in Nat /\ MaxWord \in Nat /\ MaxTokens <= MaxWord

VARIABLES open,  \* how many calls are admitted and not yet paid for
          spent, \* the tokens the upstreams reported, all told
          used   \* the counter

budgetVars == <<open, spent, used>>

Saturated(n) == IF n > MaxWord THEN MaxWord ELSE n

Exhausted == used >= MaxTokens

Init == open = 0 /\ spent = 0 /\ used = 0

(* A run that finds the budget not exhausted opens its next calls. *)
Admit(n) ==
    /\ ~Exhausted
    /\ open + n <= Slots
    /\ open' = open + n
    /\ UNCHANGED <<spent, used>>

(* An answer is paid for, even past the ceiling: it was still spent. *)
Pay(n) ==
    /\ open > 0
    /\ open' = open - 1
    /\ spent' = spent + n
    /\ used' = Saturated(used + n)

(* Calls that failed or were never made cost nothing. *)
Drop(n) ==
    /\ n <= open
    /\ open' = open - n
    /\ UNCHANGED <<spent, used>>

Next ==
    \/ \E n \in 0..Slots : Admit(n) \/ Drop(n)
    \/ \E n \in 0..PerCall : Pay(n)

Spec == Init /\ [][Next]_budgetVars

(* The counter is exact, or stuck at the largest value: no charge is lost  *)
(* and it never wraps (saturating_fetch_add).                              *)
CounterExact == used = Saturated(spent)

(* A tree spends less than its budget plus what the calls it could have    *)
(* open when the budget ran out still cost: an overshoot set by its        *)
(* concurrency alone.  A budget of nothing admits nothing.                 *)
SpendBounded ==
    IF MaxTokens = 0 THEN spent = 0 ELSE spent < MaxTokens + PerCall * Slots

=============================================================================
