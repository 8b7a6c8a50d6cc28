---------------------------- MODULE RateLimiter ----------------------------
(***************************************************************************)
(* RateLimiter::check (middleware.rs): the token buckets of one shard.  A   *)
(* check reads the clock before it waits for the shard, so checks may be   *)
(* judged in another order than they read the clock in, and a bucket's     *)
(* `last` may move back.  Tokens are counted in parts, Cost of which make  *)
(* one, so that a refill may bring a fraction of a token.                  *)
(***************************************************************************)
EXTENDS Integers, Sequences

CONSTANTS Keys,       \* callers whose buckets share the shard
          Checkers,   \* requests being checked
          Burst,      \* RateLimitConfig.burst
          Cost,       \* parts of a token: a request takes so many
          Rate,       \* parts refilled per tick of the clock
          Idle,       \* idle_eviction
          SweepEvery, \* SWEEP_EVERY
          MaxTime     \* bound: the clock

ASSUME LimiterAssumption ==
    /\ Burst \in Nat \ {0} /\ Cost \in Nat \ {0} /\ Rate \in Nat \ {0}
    /\ Idle \in Nat /\ SweepEvery \in Nat /\ MaxTime \in Nat

VARIABLES now,     \* Instant::now()
          check,   \* what each request's check is doing: its key and reading
          held,    \* the keys that have a bucket
          bucket,  \* their tokens, and the reading they were last refilled at
          swept,   \* the reading of the last sweep; -1 for None
          read,    \* history: the reading judged last
          passed,  \* history: the time the shard has counted, reading by reading
          let      \* history: of each key, the requests let through

limiterVars == <<now, check, held, bucket, swept, read, passed, let>>

Never == -1
Full == Burst * Cost
NoCheck == [pc |-> "idle", key |-> Never, at |-> 0]

LimiterInit ==
    /\ now = 0
    /\ check = [c \in Checkers |-> NoCheck]
    /\ held = {} /\ swept = Never
    /\ bucket = [k \in Keys |-> [tokens |-> Full, last |-> 0]]
    /\ read = 0 /\ passed = 0
    /\ let = [k \in Keys |-> <<>>]

Tick ==
    /\ now < MaxTime
    /\ now' = now + 1
    /\ UNCHANGED <<check, held, bucket, swept, read, passed, let>>

(* The clock is read; the shard is not locked yet. *)
Read(c, k) ==
    /\ check[c].pc = "idle"
    /\ check' = [check EXCEPT ![c] = [pc |-> "waiting", key |-> k, at |-> now]]
    /\ UNCHANGED <<now, held, bucket, swept, read, passed, let>>

-----------------------------------------------------------------------------
(* Under the shard's lock *)

(* duration_since: nothing, when the reading is the earlier one. *)
Since(at, then) == IF at > then THEN at - then ELSE 0

SweepDue(at) ==
    swept = Never \/ Since(at, swept) >= (IF Idle < SweepEvery THEN Idle ELSE SweepEvery)

(* Faulty variant: a sweep takes whatever it finds. *)
Kept_None(at) == IF SweepDue(at) THEN {} ELSE held

(* The buckets a sweep leaves. *)
Kept(at) ==
    IF SweepDue(at) THEN {k \in held : Since(at, bucket[k].last) < Idle} ELSE held

(* Faulty variant: a new bucket starts with what one tick brings. *)
Refilled_Poor(k, at) ==
    IF k \notin Kept(at) THEN Rate
    ELSE LET more == bucket[k].tokens + Rate * Since(at, bucket[k].last)
         IN  IF more > Full THEN Full ELSE more

(* A bucket that is new, or idle past the eviction age, is full; another   *)
(* gets what the time since its last refill brings.                        *)
Refilled(k, at) ==
    IF k \notin Kept(at) \/ Since(at, bucket[k].last) >= Idle THEN Full
    ELSE LET more == bucket[k].tokens + Rate * Since(at, bucket[k].last)
         IN  IF more > Full THEN Full ELSE more

(* The whole of check after its lock, for key k at reading at. *)
Judge(k, at, admit) ==
    LET tokens == Refilled(k, at)
    IN  /\ admit = (tokens >= Cost)
        /\ held' = Kept(at) \cup {k}
        /\ swept' = IF SweepDue(at) THEN at ELSE swept
        /\ bucket' = [bucket EXCEPT ![k] =
                        [tokens |-> IF admit THEN tokens - Cost ELSE tokens,
                         last   |-> at]]
        /\ read' = at
        /\ passed' = passed + Since(at, read)
        /\ let' = IF admit
                  THEN [let EXCEPT ![k] = Append(@, [at |-> at, passed |-> passed'])]
                  ELSE let

Admit(c) ==
    /\ check[c].pc = "waiting"
    /\ Judge(check[c].key, check[c].at, TRUE)
    /\ check' = [check EXCEPT ![c] = NoCheck]
    /\ UNCHANGED now

Refuse(c) ==
    /\ check[c].pc = "waiting"
    /\ Judge(check[c].key, check[c].at, FALSE)
    /\ check' = [check EXCEPT ![c] = NoCheck]
    /\ UNCHANGED now

LimiterNext ==
    \/ Tick
    \/ \E c \in Checkers : (\E k \in Keys : Read(c, k)) \/ Admit(c) \/ Refuse(c)

LimiterSpec == LimiterInit /\ [][LimiterNext]_limiterVars

-----------------------------------------------------------------------------
(* Properties *)

Clock == 0 .. MaxTime

(* What an eviction age can bring a bucket: the refill of that time or,    *)
(* when the bucket would not be full again by then, a whole bucket, since  *)
(* one that was evicted comes back full.                                   *)
PerIdle == IF Rate * Idle >= Full THEN Rate * Idle ELSE Full

(* middleware.rs:78-122.  Over every window of the requests a key was let  *)
(* through, they are no more than the burst and what the time the shard    *)
(* counted in that window brings, both sides taken Idle times: the refill  *)
(* when an idle bucket outlives its refill, a burst per eviction age when  *)
(* it does not, and no limit when the age is zero.  The shard counts a     *)
(* reading's distance from the one judged before it; a reading that comes  *)
(* late costs nothing, and the time after it is counted again.             *)
RateHeld ==
    \A k \in Keys : \A i, j \in 1 .. Len(let[k]) :
        i <= j =>
          Idle * (Cost * (j - i + 1) - Full) <= PerIdle * (let[k][j].passed - let[k][i].passed)

(* The requests let through to key k since its i-th would, with one more,  *)
(* exceed the burst and the refill of the time between the readings.       *)
Overspent(k, i, at) ==
    Cost * (Len(let[k]) - i + 2) > Full + Rate * (at - let[k][i].at)

(* middleware.rs:110.  A caller is refused only for what it did itself: it *)
(* has had more than burst and refill over some window up to the refusal.  *)
(* Neither another key, nor a sweep, nor a check that waited costs it a    *)
(* token.                                                                  *)
RefusedForOwn ==
    [][\A c \in Checkers : Refuse(c) =>
         \E i \in 1 .. Len(let[check[c].key]) : Overspent(check[c].key, i, check[c].at)]_limiterVars

=============================================================================
