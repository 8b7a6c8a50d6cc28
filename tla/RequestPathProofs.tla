-------------------------- MODULE RequestPathProofs --------------------------
(* Proofs about the rate limiter, for any keys, rates and order of its checks, *)
(* and about the request path, for every table of routes, every set of        *)
(* credentials and requests, and any number of requests at a time.            *)
EXTENDS RequestPath, SequenceTheorems, TLAPS

Mark == [at : Int, passed : Int]

---------------------------------------------------------------------------
(* The accounts of the limiter *)

\* What a key has, and the time the shard had counted when it had it.
Credit(k) == IF k \in held THEN bucket[k].tokens ELSE Full
Base(k) == IF k \in held THEN passed - Since(read, bucket[k].last) ELSE passed

LimiterTypes ==
  /\ let \in [Keys -> Seq(Mark)]
  /\ now \in Int /\ read \in Int /\ passed \in Int
  /\ held \subseteq Keys /\ bucket \in [Keys -> [tokens : 0 .. Full, last : Int]]
  /\ DOMAIN check = Checkers
  /\ \A c \in Checkers : check[c].pc = "waiting" => check[c].key \in Keys /\ check[c].at \in Int

\* What the requests of k since its i-th cost; an account that adds up; a gain
\* that the time between pays for, by its refill or by a whole eviction age.
Spent(k, i) == Cost * (Len(let[k]) - i + 1)
Within(spent, credit, base, since) == Idle * (spent + credit - Full) <= PerIdle * (base - since)
Gains(more, credit, later, base) == Idle * (more - credit) <= PerIdle * (later - base)
Grows(more, credit, time) ==
  more - credit <= Rate * time \/ (time >= Idle /\ more - credit <= Full)

\* What a key was let through since any request of its own, and what it still
\* has, are no more than the burst and the refill.
Owing ==
  \A k \in Keys : \A i \in 1 .. Len(let[k]) :
    Within(Spent(k, i), Credit(k), Base(k), let[k][i].passed)

LInv == LimiterTypes /\ Owing /\ RateHeld

LEMMA FullNat ==
  /\ Full \in Nat /\ Cost \in Nat /\ Rate \in Nat /\ Idle \in Nat
  /\ Cost <= Full /\ Rate * Idle \in Nat
<1>1. Burst \in Nat /\ Burst >= 1 /\ Cost \in Nat /\ Rate \in Nat /\ Idle \in Nat
  BY LimiterAssumption
<1>2. Full \in Nat /\ Cost <= Full
  BY <1>1 DEF Full
<1> QED  BY <1>1, <1>2

\* An eviction age brings no less than its refill, and no less than a bucket.
LEMMA PerIdleNat ==
  PerIdle \in Nat /\ Rate * Idle <= PerIdle /\ Full <= PerIdle
<1>1. Rate * Idle \in Nat /\ Full \in Nat
  BY FullNat
<1> QED  BY <1>1 DEF PerIdle

\* Multiples add up, and grow.
LEMMA Multiples ==
  ASSUME NEW q \in Nat, NEW a \in Int, NEW b \in Int
  PROVE  /\ q * a \in Int
         /\ q * (a + b) = q * a + q * b
         /\ a <= b => q * a <= q * b
<1>1. q * a \in Int /\ q * (a + b) = q * a + q * b
  OBVIOUS
<1>2. ASSUME a <= b
      PROVE  q * a <= q * b
  <2>1. b - a \in Nat /\ q * (b - a) \in Nat
    BY <1>2
  <2>2. q * (b - a) = q * b - q * a
    OBVIOUS
  <2>3. q * a \in Int /\ q * b \in Int
    OBVIOUS
  <2> QED  BY <2>1, <2>2, <2>3
<1> QED  BY <1>1, <1>2

\* Refills, ages and what an age brings are multiples.
LEMMA Refills ==
  ASSUME NEW a \in Int, NEW b \in Int
  PROVE  /\ Rate * a \in Int
         /\ Rate * (a + b) = Rate * a + Rate * b
         /\ a <= b => Rate * a <= Rate * b
<1>1. Rate \in Nat
  BY LimiterAssumption
<1> QED  BY <1>1, Multiples

LEMMA Ages ==
  ASSUME NEW a \in Int, NEW b \in Int
  PROVE  /\ Idle * a \in Int
         /\ Idle * (a + b) = Idle * a + Idle * b
         /\ a <= b => Idle * a <= Idle * b
<1>1. Idle \in Nat
  BY LimiterAssumption
<1> QED  BY <1>1, Multiples

LEMMA Brings ==
  ASSUME NEW a \in Int, NEW b \in Int
  PROVE  /\ PerIdle * a \in Int
         /\ PerIdle * (a + b) = PerIdle * a + PerIdle * b
         /\ a <= b => PerIdle * a <= PerIdle * b
<1>1. PerIdle \in Nat
  BY PerIdleNat
<1> QED  BY <1>1, Multiples

\* Whether time refills a bucket or makes it new, it pays for what it brings.
LEMMA Paid ==
  ASSUME NEW more \in Int, NEW credit \in Int, NEW time \in Nat, Grows(more, credit, time)
  PROVE  Idle * (more - credit) <= PerIdle * time
<1> DEFINE gain == more - credit
<1>1. gain \in Int /\ Idle * gain \in Int /\ PerIdle * time \in Int
  <2>1. gain \in Int
    OBVIOUS
  <2> HIDE DEF gain
  <2> QED  BY <2>1, Ages, Brings
<1> HIDE DEF gain
<1>2. CASE gain <= Rate * time
  <2>1. Rate * time \in Int /\ Idle * gain <= Idle * (Rate * time)
    <3>1. Rate * time \in Int
      BY Refills
    <3> QED  BY <1>1, <1>2, <3>1, Ages
  <2>2. Idle * (Rate * time) = time * (Rate * Idle)
    BY FullNat
  <2>3. time * (Rate * Idle) <= time * PerIdle
    BY FullNat, PerIdleNat, Multiples
  <2>4. time * PerIdle = PerIdle * time
    BY PerIdleNat
  <2>5. Idle * (Rate * time) \in Int
    BY <2>1, Ages
  <2> HIDE DEF gain
  <2>6. Idle * gain <= PerIdle * time
    BY <1>1, <2>1, <2>2, <2>3, <2>4, <2>5
  <2> QED  BY <2>6 DEF gain
<1>3. CASE time >= Idle /\ gain <= Full
  <2>1. Idle * gain <= Idle * Full /\ Idle * Full \in Int
    BY <1>1, <1>3, FullNat, Ages
  <2>2. Idle * Full <= Idle * PerIdle /\ Idle * PerIdle \in Int
    BY FullNat, PerIdleNat, Ages
  <2>3. Idle * PerIdle = PerIdle * Idle
    BY FullNat, PerIdleNat
  <2>4. PerIdle * Idle <= PerIdle * time
    BY <1>3, FullNat, Brings
  <2>5. Idle * gain <= PerIdle * time
    BY <1>1, <2>1, <2>2, <2>3, <2>4
  <2> QED  BY <2>5 DEF gain
<1> QED  BY <1>2, <1>3 DEF Grows, gain

LEMMA PaidGains ==
  ASSUME NEW more \in Int, NEW credit \in Int, NEW later \in Int, NEW base \in Int,
         later - base \in Nat, Grows(more, credit, later - base)
  PROVE  Gains(more, credit, later, base)
  BY Paid DEF Gains

\* No time is less than none, and a detour is no shorter.
LEMMA SinceTriangle ==
  ASSUME NEW a \in Int, NEW b \in Int, NEW c \in Int
  PROVE  Since(a, b) \in Nat /\ Since(a, a) = 0 /\ Since(a, c) <= Since(a, b) + Since(b, c)
  BY DEF Since

\* If what a key has grows by no more than the time counted pays for, the
\* account of its requests still adds up.
LEMMA Balance ==
  ASSUME NEW spent \in Int, NEW credit \in Int, NEW more \in Int,
         NEW base \in Int, NEW later \in Int, NEW mark \in Int,
         Within(spent, credit, base, mark), Gains(more, credit, later, base)
  PROVE  Within(spent, more, later, mark)
<1> DEFINE old == base - mark
           new == later - base
           had == spent + credit - Full
           gain == more - credit
<1>1. /\ old \in Int /\ new \in Int /\ old + new = later - mark
      /\ had \in Int /\ gain \in Int /\ had + gain = spent + more - Full
  BY FullNat
<1>2. Idle * had <= PerIdle * old /\ Idle * gain <= PerIdle * new
  BY DEF Within, Gains
<1> HIDE DEF old, new, had, gain
<1>3. /\ PerIdle * (old + new) = PerIdle * old + PerIdle * new
      /\ PerIdle * old \in Int /\ PerIdle * new \in Int
  BY <1>1, Brings
<1>4. /\ Idle * (had + gain) = Idle * had + Idle * gain
      /\ Idle * had \in Int /\ Idle * gain \in Int
  BY <1>1, Ages
<1>5. Idle * (had + gain) <= PerIdle * (old + new)
  BY <1>2, <1>3, <1>4
<1> QED  BY <1>1, <1>5 DEF Within

\* An account that is spent from, or not at all, still adds up.
LEMMA Less ==
  ASSUME NEW spent \in Int, NEW credit \in Int, NEW base \in Int, NEW mark \in Int,
         NEW more \in Int, NEW left \in Int, more + left <= spent + credit,
         Within(spent, credit, base, mark)
  PROVE  Within(more, left, base, mark)
<1> DEFINE had == spent + credit - Full
           has == more + left - Full
<1>1. had \in Int /\ has \in Int /\ has <= had
  BY FullNat
<1>2. Idle * had <= PerIdle * (base - mark)
  BY DEF Within
<1>3. base - mark \in Int
  OBVIOUS
<1> HIDE DEF had, has
<1>4. Idle * has <= Idle * had /\ Idle * has \in Int /\ Idle * had \in Int
  BY <1>1, Ages
<1>5. PerIdle * (base - mark) \in Int
  BY <1>3, Brings
<1>6. Idle * has <= PerIdle * (base - mark)
  BY <1>2, <1>4, <1>5
<1> QED  BY <1>6 DEF Within, has

LEMMA Opened ==
  ASSUME NEW spent \in Int, NEW credit \in Int, NEW mark \in Int, spent + credit <= Full
  PROVE  Within(spent, credit, mark, mark)
<1> DEFINE has == spent + credit - Full
<1>1. has \in Int /\ has <= 0
  BY FullNat
<1>2. mark - mark = 0
  OBVIOUS
<1> HIDE DEF has
<1>3. Idle * has <= Idle * 0
  BY <1>1, Ages
<1>4. Idle * 0 = 0 /\ PerIdle * 0 = 0
  BY FullNat, PerIdleNat
<1>5. Idle * has <= PerIdle * (mark - mark)
  BY <1>2, <1>3, <1>4
<1> QED  BY <1>5 DEF Within, has

---------------------------------------------------------------------------
\* A judgement counts at least the time since the bucket's last refill.
LEMMA Counted ==
  ASSUME LimiterTypes, NEW k \in held, NEW at \in Int
  PROVE  /\ Base(k) \in Int
         /\ Since(at, bucket[k].last) \in Nat
         /\ Since(at, bucket[k].last) <= passed + Since(at, read) - Base(k)
<1>1. bucket[k].last \in Int /\ read \in Int /\ passed \in Int
  BY DEF LimiterTypes
<1>2. Base(k) = passed - Since(read, bucket[k].last)
  BY DEF Base
<1>3. /\ Since(at, bucket[k].last) <= Since(at, read) + Since(read, bucket[k].last)
      /\ Since(at, bucket[k].last) \in Nat /\ Since(at, read) \in Nat
      /\ Since(read, bucket[k].last) \in Nat
  BY <1>1, SinceTriangle
<1> QED  BY <1>1, <1>2, <1>3

\* A bucket that a sweep takes, or that is full for its age, was idle for the
\* eviction age; another gets what the time brings.
LEMMA Refilling ==
  ASSUME LimiterTypes, NEW k \in Keys, NEW at \in Int
  PROVE  /\ Refilled(k, at) \in 0 .. Full
         /\ Credit(k) \in 0 .. Full /\ Base(k) \in Int
         /\ Gains(Refilled(k, at), Credit(k), passed + Since(at, read), Base(k))
<1> DEFINE since == Since(at, bucket[k].last)
           counted == passed + Since(at, read) - Base(k)
<1>1. /\ bucket[k].tokens \in 0 .. Full /\ bucket[k].last \in Int /\ read \in Int
      /\ passed \in Int /\ Full \in Nat /\ Rate \in Nat /\ Idle \in Nat
  BY FullNat DEF LimiterTypes
<1>2. Since(at, read) \in Nat /\ since \in Nat
  BY <1>1, SinceTriangle
<1>3. Rate * since \in Nat
  BY <1>1, <1>2
<1>4. Refilled(k, at) \in 0 .. Full
  BY <1>1, <1>3 DEF Refilled
<1>5. Credit(k) \in 0 .. Full
  BY <1>1 DEF Credit
<1>6. ASSUME k \notin held
      PROVE  Base(k) \in Int /\ counted \in Nat /\ Grows(Refilled(k, at), Credit(k), counted)
  <2>1. Base(k) = passed /\ Credit(k) = Full
    BY <1>6 DEF Base, Credit
  <2>2. counted \in Nat /\ Rate * counted \in Nat
    BY <2>1, <1>1, <1>2
  <2> QED  BY <1>1, <1>4, <1>5, <2>1, <2>2 DEF Grows
<1>7. ASSUME k \in held
      PROVE  Base(k) \in Int /\ counted \in Nat /\ Grows(Refilled(k, at), Credit(k), counted)
  <2>1. Base(k) \in Int /\ since <= counted
    BY <1>7, Counted
  <2>2. counted \in Int
    BY <1>1, <1>2, <2>1
  <2>3. counted \in Nat
    BY <1>2, <2>1, <2>2
  <2>4. CASE since >= Idle
    <3>1. counted >= Idle
      BY <1>1, <1>2, <2>1, <2>2, <2>4
    <3>2. Refilled(k, at) - Credit(k) <= Full
      BY <1>1, <1>4, <1>5
    <3> QED  BY <2>1, <2>3, <3>1, <3>2 DEF Grows
  <2>5. CASE since < Idle
    <3>1. k \in Kept(at)
      BY <1>7, <2>5 DEF Kept
    <3>2. Refilled(k, at) <= bucket[k].tokens + Rate * since
      BY <1>1, <1>2, <1>3, <2>5, <3>1 DEF Refilled
    <3>3. Credit(k) = bucket[k].tokens
      BY <1>7 DEF Credit
    <3>4. Rate * since <= Rate * counted /\ Rate * counted \in Int
      BY <1>2, <2>1, <2>2, Refills
    <3>5. Refilled(k, at) - Credit(k) <= Rate * counted
      BY <1>1, <1>3, <1>4, <3>2, <3>3, <3>4
    <3> QED  BY <2>1, <2>3, <3>5 DEF Grows
  <2> QED  BY <1>1, <1>2, <2>4, <2>5
<1>8. Base(k) \in Int /\ counted \in Nat /\ Grows(Refilled(k, at), Credit(k), counted)
  BY <1>6, <1>7
<1>9. Gains(Refilled(k, at), Credit(k), passed + Since(at, read), Base(k))
  <2>1. Refilled(k, at) \in Int /\ Credit(k) \in Int
    BY <1>1, <1>4, <1>5
  <2>2. PICK later \in Int : later = passed + Since(at, read)
    BY <1>1, <1>2
  <2>3. later - Base(k) \in Nat /\ Grows(Refilled(k, at), Credit(k), later - Base(k))
    <3>1. later - Base(k) = counted
      BY <1>1, <1>2, <1>8, <2>2
    <3> QED  BY <1>8, <3>1
  <2>4. Gains(Refilled(k, at), Credit(k), later, Base(k))
    BY <1>8, <2>1, <2>3, PaidGains
  <2> QED  BY <2>2, <2>4
<1> QED  BY <1>4, <1>5, <1>8, <1>9

---------------------------------------------------------------------------
\* A key that stands by gains no more than the time pays for, swept or not.
LEMMA Bystander ==
  ASSUME LimiterTypes, NEW at \in Int, NEW key \in Keys, NEW k \in Keys \ {key},
         passed' = passed + Since(at, read), read' = at, held' = Kept(at) \cup {key},
         bucket'[k] = bucket[k]
  PROVE  /\ Credit(k)' \in Int /\ Base(k)' \in Int
         /\ Gains(Credit(k)', Credit(k), Base(k)', Base(k))
<1> DEFINE since == Since(at, bucket[k].last)
           gained == Base(k)' - Base(k)
<1>1. /\ bucket[k].tokens \in 0 .. Full /\ bucket[k].last \in Int /\ read \in Int
      /\ passed \in Int /\ Full \in Nat /\ Rate \in Nat /\ Idle \in Nat
      /\ since \in Nat /\ Since(at, read) \in Nat
  BY FullNat, SinceTriangle DEF LimiterTypes
<1>2. k \in held' <=> k \in Kept(at)
  OBVIOUS
<1>3. Kept(at) \subseteq held
  BY DEF Kept
<1>4. ASSUME k \notin held
      PROVE  /\ Credit(k)' \in Int /\ Credit(k) \in Int /\ Base(k)' \in Int
             /\ gained \in Nat /\ Grows(Credit(k)', Credit(k), gained)
  <2>1. Credit(k) = Full /\ Credit(k)' = Full
    BY <1>2, <1>3, <1>4 DEF Credit, Full
  <2>2. Base(k) = passed /\ Base(k)' = passed'
    BY <1>2, <1>3, <1>4 DEF Base
  <2>3. gained \in Nat /\ Rate * gained \in Nat
    BY <1>1, <2>2
  <2> QED  BY <1>1, <2>1, <2>2, <2>3 DEF Grows
<1>5. ASSUME k \in Kept(at)
      PROVE  /\ Credit(k)' \in Int /\ Credit(k) \in Int /\ Base(k)' \in Int
             /\ gained \in Nat /\ Grows(Credit(k)', Credit(k), gained)
  <2>1. Credit(k) = bucket[k].tokens /\ Credit(k)' = bucket[k].tokens
    BY <1>2, <1>3, <1>5 DEF Credit
  <2>2. Base(k)' = passed' - since
    BY <1>2, <1>5 DEF Base
  <2>3. Base(k) \in Int /\ since <= passed' - Base(k)
    BY <1>1, <1>3, <1>5, Counted
  <2>4. passed' \in Int /\ Base(k)' \in Int
    BY <1>1, <2>2
  <2>5. gained \in Nat
    BY <1>1, <2>2, <2>3, <2>4
  <2>6. Rate * gained \in Nat
    BY <1>1, <2>5
  <2> QED  BY <1>1, <2>1, <2>3, <2>4, <2>5, <2>6 DEF Grows
<1>6. ASSUME k \in held \ Kept(at)
      PROVE  /\ Credit(k)' \in Int /\ Credit(k) \in Int /\ Base(k)' \in Int
             /\ gained \in Nat /\ Grows(Credit(k)', Credit(k), gained)
  <2>1. since >= Idle
    BY <1>1, <1>6 DEF Kept
  <2>2. Credit(k) = bucket[k].tokens /\ Credit(k)' = Full
    BY <1>2, <1>6 DEF Credit, Full
  <2>3. Base(k)' = passed'
    BY <1>2, <1>6 DEF Base
  <2>4. Base(k) \in Int /\ since <= gained /\ Base(k)' \in Int
    BY <1>1, <1>6, <2>3, Counted
  <2>5. gained \in Nat /\ gained >= Idle
    BY <1>1, <2>1, <2>4
  <2>6. Credit(k)' - Credit(k) <= Full
    BY <1>1, <2>2
  <2> QED  BY <1>1, <2>2, <2>4, <2>5, <2>6 DEF Grows
<1>7. /\ Credit(k)' \in Int /\ Credit(k) \in Int /\ Base(k)' \in Int
      /\ gained \in Nat /\ Grows(Credit(k)', Credit(k), gained)
  BY <1>3, <1>4, <1>5, <1>6
<1> HIDE DEF since
<1> QED  BY <1>1, <1>7, Refilling, PaidGains

\* What a key was let through, over any window, is a number.
LEMMA Spending ==
  ASSUME LimiterTypes, NEW k \in Keys, NEW i \in 1 .. Len(let[k])
  PROVE  /\ Len(let[k]) \in Nat /\ Spent(k, i) \in Int
         /\ let[k][i].passed \in Int /\ let[k][i].at \in Int
<1>1. let[k] \in Seq(Mark) /\ Len(let[k]) \in Nat
  BY LenProperties DEF LimiterTypes
<1>2. let[k][i] \in Mark
  BY <1>1, ElementOfSeq
<1>3. Len(let[k]) - i + 1 \in Nat /\ Cost \in Nat
  BY <1>1, FullNat
<1>4. Spent(k, i) \in Int
  BY <1>3 DEF Spent
<1> QED  BY <1>1, <1>2, <1>4 DEF Mark

\* What a judgement leaves, whatever its verdict.
LEMMA Judgement ==
  ASSUME LInv, NEW c \in Checkers, Admit(c) \/ Refuse(c)
  PROVE  /\ check[c].key \in Keys /\ check[c].at \in Int
         /\ Refilled(check[c].key, check[c].at) \in 0 .. Full
         /\ read' = check[c].at /\ passed' = passed + Since(check[c].at, read)
         /\ held' = Kept(check[c].at) \cup {check[c].key}
         /\ passed' \in Int /\ held' \subseteq Keys /\ now' = now
         /\ check' = [check EXCEPT ![c] = NoCheck]
         /\ \A k \in Keys \ {check[c].key} :
              bucket'[k] = bucket[k] /\ let'[k] = let[k]
<1>1. check[c].key \in Keys /\ check[c].at \in Int
  BY DEF LInv, LimiterTypes, Admit, Refuse
<1>2. Refilled(check[c].key, check[c].at) \in 0 .. Full
  BY <1>1, Refilling DEF LInv
<1>3. /\ read' = check[c].at /\ passed' = passed + Since(check[c].at, read)
      /\ held' = Kept(check[c].at) \cup {check[c].key}
      /\ now' = now /\ check' = [check EXCEPT ![c] = NoCheck]
  BY DEF Admit, Refuse, Judge
<1>4. Since(check[c].at, read) \in Nat /\ passed \in Int
  BY <1>1, SinceTriangle DEF LInv, LimiterTypes
<1>5. Kept(check[c].at) \subseteq Keys
  BY DEF Kept, LInv, LimiterTypes
<1>6. \A k \in Keys \ {check[c].key} : bucket'[k] = bucket[k] /\ let'[k] = let[k]
  BY <1>1 DEF Admit, Refuse, Judge, LInv, LimiterTypes
<1> QED  BY <1>1, <1>2, <1>3, <1>4, <1>5, <1>6

\* A judgement leaves the shard in its types.
LEMMA JudgeTypes ==
  ASSUME LInv, NEW c \in Checkers, Admit(c) \/ Refuse(c)
  PROVE  LimiterTypes'
<1> DEFINE key == check[c].key
           at == check[c].at
           mark == [at |-> at, passed |-> passed']
<1>1. key \in Keys /\ at \in Int /\ mark \in Mark /\ LimiterTypes
  BY Judgement DEF LInv, Mark
<1>2. Append(let[key], mark) \in Seq(Mark)
  BY <1>1, AppendProperties DEF LimiterTypes
<1>3. let' \in [Keys -> Seq(Mark)]
  BY <1>1, <1>2 DEF Admit, Refuse, Judge, LimiterTypes
<1>4. \E tokens \in 0 .. Full : bucket' = [bucket EXCEPT ![key] = [tokens |-> tokens, last |-> at]]
  <2>1. Refilled(key, at) \in 0 .. Full /\ Cost \in Nat /\ Full \in Nat
    BY Judgement, FullNat
  <2>2. CASE Refuse(c)
    BY <2>1, <2>2 DEF Refuse, Judge
  <2>3. CASE Admit(c)
    <3>1. Refilled(key, at) >= Cost
          /\ bucket' = [bucket EXCEPT ![key] = [tokens |-> Refilled(key, at) - Cost, last |-> at]]
      BY <2>3 DEF Admit, Judge
    <3>2. Refilled(key, at) - Cost \in 0 .. Full
      BY <2>1, <3>1
    <3> QED  BY <3>1, <3>2
  <2> QED  BY <2>2, <2>3
<1>5. bucket' \in [Keys -> [tokens : 0 .. Full, last : Int]]
  BY <1>1, <1>4 DEF LimiterTypes
<1>6. /\ read' \in Int /\ passed' \in Int /\ now' \in Int /\ held' \subseteq Keys
      /\ DOMAIN check' = Checkers
  BY <1>1, Judgement DEF LimiterTypes
<1>7. ASSUME NEW o \in Checkers, check'[o].pc = "waiting"
      PROVE  check'[o].key \in Keys /\ check'[o].at \in Int
  <2>1. check' = [check EXCEPT ![c] = NoCheck]
    BY Judgement
  <2>2. o # c /\ check'[o] = check[o]
    BY <1>1, <1>7, <2>1 DEF LimiterTypes, NoCheck
  <2> QED  BY <1>1, <1>7, <2>2 DEF LimiterTypes
<1> QED  BY <1>3, <1>5, <1>6, <1>7 DEF LimiterTypes

\* The account of a key that was not judged.
LEMMA OthersOwing ==
  ASSUME LInv, NEW c \in Checkers, Admit(c) \/ Refuse(c),
         NEW k \in Keys \ {check[c].key}, NEW i \in 1 .. Len(let[k])
  PROVE  Within(Spent(k, i), Credit(k)', Base(k)', let[k][i].passed)
<1>1. /\ Credit(k)' \in Int /\ Base(k)' \in Int
      /\ Gains(Credit(k)', Credit(k), Base(k)', Base(k))
  <2>1. /\ check[c].key \in Keys /\ check[c].at \in Int
        /\ read' = check[c].at /\ passed' = passed + Since(check[c].at, read)
        /\ held' = Kept(check[c].at) \cup {check[c].key} /\ bucket'[k] = bucket[k]
    BY Judgement
  <2> QED  BY <2>1, Bystander DEF LInv
<1>2. Credit(k) \in Int /\ Base(k) \in Int
  BY Refilling DEF LInv
<1>3. Spent(k, i) \in Int /\ let[k][i].passed \in Int
  BY Spending DEF LInv
<1>4. Within(Spent(k, i), Credit(k), Base(k), let[k][i].passed)
  BY DEF LInv, Owing
<1> QED  BY <1>1, <1>2, <1>3, <1>4, Balance

\* The account of the judged key, before its request is taken off.
LEMMA OwnOwing ==
  ASSUME LInv, NEW c \in Checkers, Admit(c) \/ Refuse(c),
         NEW key, NEW at, key = check[c].key, at = check[c].at,
         NEW i \in 1 .. Len(let[key])
  PROVE  Within(Spent(key, i), Refilled(key, at), passed', let[key][i].passed)
<1>1. /\ key \in Keys /\ at \in Int /\ passed' \in Int
      /\ passed' = passed + Since(at, read)
  BY Judgement
<1>2. /\ Credit(key) \in Int /\ Base(key) \in Int /\ Refilled(key, at) \in Int
      /\ Gains(Refilled(key, at), Credit(key), passed', Base(key))
  <2>1. /\ Refilled(key, at) \in 0 .. Full /\ Credit(key) \in 0 .. Full /\ Base(key) \in Int
        /\ Gains(Refilled(key, at), Credit(key), passed + Since(at, read), Base(key))
    BY <1>1, Refilling DEF LInv
  <2> QED  BY <1>1, <2>1, FullNat
<1>3. Spent(key, i) \in Int /\ let[key][i].passed \in Int
  BY <1>1, Spending DEF LInv
<1>4. Within(Spent(key, i), Credit(key), Base(key), let[key][i].passed)
  BY <1>1 DEF LInv, Owing
<1> QED  BY <1>1, <1>2, <1>3, <1>4, Balance

\* The accounts after a judgement, and so the rate.
LEMMA JudgeOwing ==
  ASSUME LInv, NEW c \in Checkers, Admit(c) \/ Refuse(c),
         NEW key, NEW at, key = check[c].key, at = check[c].at
  PROVE  Owing' /\ RateHeld'
<1> DEFINE mark == [at |-> at, passed |-> passed']
<1>1. /\ key \in Keys /\ at \in Int /\ passed' \in Int /\ passed \in Int
      /\ Refilled(key, at) \in 0 .. Full
      /\ read' = at /\ key \in held'
  BY Judgement DEF LInv, LimiterTypes
<1>2. Full \in Nat /\ Cost \in Nat /\ Cost <= Full /\ Rate \in Nat
  BY FullNat
<1> DEFINE Accounted(k) ==
      /\ \A i \in 1 .. Len(let'[k]) : Within(Spent(k, i)', Credit(k)', Base(k)', let'[k][i].passed)
      /\ \A i, j \in 1 .. Len(let'[k]) : i <= j =>
           Idle * (Cost * (j - i + 1) - Full) <= PerIdle * (let'[k][j].passed - let'[k][i].passed)
<1>4. ASSUME NEW k \in Keys \ {key}
      PROVE  Accounted(k)
  <2>1. let'[k] = let[k]
    BY Judgement
  <2>2. \A i \in 1 .. Len(let[k]) : Spent(k, i)' = Spent(k, i)
    BY <2>1 DEF Spent
  <2> QED  BY <2>1, <2>2, OthersOwing DEF LInv, RateHeld
<1>5. CASE Refuse(c)
  <2>1. let' = let /\ bucket'[key] = [tokens |-> Refilled(key, at), last |-> at]
    BY <1>1, <1>5 DEF Refuse, Judge, LInv, LimiterTypes
  <2>2. Base(key)' = passed' /\ Credit(key)' = Refilled(key, at)
    BY <1>1, <2>1, SinceTriangle DEF Base, Credit
  <2>3. \A i \in 1 .. Len(let[key]) : Spent(key, i)' = Spent(key, i)
    BY <2>1 DEF Spent
  <2>4. Accounted(key)
    BY <1>1, <2>1, <2>2, <2>3, OwnOwing DEF LInv, RateHeld
  <2> QED  BY <1>4, <2>4 DEF Owing, RateHeld
<1>6. CASE Admit(c)
  <2>1. /\ Refilled(key, at) >= Cost
        /\ let' = [let EXCEPT ![key] = Append(@, mark)]
        /\ bucket'[key] = [tokens |-> Refilled(key, at) - Cost, last |-> at]
    BY <1>1, <1>6 DEF Admit, Judge, LInv, LimiterTypes
  <2>2. Base(key)' = passed' /\ Credit(key)' = Refilled(key, at) - Cost
    BY <1>1, <2>1, SinceTriangle DEF Base, Credit
  <2>0. PICK n \in Nat : n = Len(let[key])
    BY <1>1, LenProperties DEF LInv, LimiterTypes
  <2>3. /\ Len(let'[key]) = n + 1
        /\ \A i \in 1 .. n : let'[key][i] = let[key][i]
        /\ let'[key][n + 1] = mark
    <3>1. let[key] \in Seq(Mark) /\ mark \in Mark /\ let'[key] = Append(let[key], mark)
      BY <1>1, <2>1 DEF LInv, LimiterTypes, Mark
    <3> QED  BY <2>0, <3>1, AppendProperties, LenProperties
  <2>4. ASSUME NEW i \in 1 .. n
        PROVE  /\ Spent(key, i) \in Int /\ Spent(key, i)' = Spent(key, i) + Cost
               /\ Within(Spent(key, i), Refilled(key, at), passed', let[key][i].passed)
               /\ let[key][i].passed \in Int
    <3>1. Spent(key, i) \in Int /\ let[key][i].passed \in Int
      BY <1>1, <2>0, Spending DEF LInv
    <3>2. Spent(key, i)' = Spent(key, i) + Cost
      BY <1>2, <2>0, <2>3 DEF Spent
    <3> QED  BY <2>0, <3>1, <3>2, OwnOwing
  <2>5. Spent(key, n + 1)' = Cost /\ mark.passed = passed'
    <3>1. Spent(key, n + 1)' = Cost * (Len(let'[key]) - (n + 1) + 1)
      BY DEF Spent
    <3>2. Len(let'[key]) - (n + 1) + 1 = 1
      BY <2>3
    <3> QED  BY <1>2, <3>1, <3>2
  <2>9. /\ Refilled(key, at) \in Int /\ Refilled(key, at) - Cost \in Int
        /\ Cost <= Refilled(key, at) /\ Refilled(key, at) <= Full
    BY <1>1, <1>2, <2>1
  <2>6. ASSUME NEW i \in 1 .. n + 1
        PROVE  Within(Spent(key, i)', Credit(key)', Base(key)', let'[key][i].passed)
    <3>1. CASE i \in 1 .. n
      <4>1. Spent(key, i)' \in Int
            /\ Spent(key, i)' + (Refilled(key, at) - Cost) <= Spent(key, i) + Refilled(key, at)
        BY <1>2, <2>4, <2>9, <3>1
      <4>2. Within(Spent(key, i)', Refilled(key, at) - Cost, passed', let[key][i].passed)
        BY <1>1, <2>4, <2>9, <3>1, <4>1, Less
      <4> QED  BY <2>2, <2>3, <3>1, <4>2
    <3>2. CASE i = n + 1
      <4>1. let'[key][i].passed = passed' /\ Spent(key, i)' = Cost
        BY <2>3, <2>5, <3>2
      <4>2. Cost + (Refilled(key, at) - Cost) <= Full
        BY <1>2, <2>9
      <4>3. Within(Cost, Refilled(key, at) - Cost, passed', passed')
        BY <1>1, <1>2, <2>9, <4>2, Opened
      <4> QED  BY <2>2, <4>1, <4>3
    <3> QED  BY <2>3, <3>1, <3>2
  <2>7. ASSUME NEW i \in 1 .. n + 1, NEW j \in 1 .. n + 1, i <= j
        PROVE  Idle * (Cost * (j - i + 1) - Full)
                 <= PerIdle * (let'[key][j].passed - let'[key][i].passed)
    <3>1. CASE j \in 1 .. n
      <4>1. i \in 1 .. n
        BY <2>3, <2>7, <3>1
      <4> QED  BY <1>1, <2>0, <2>3, <3>1, <4>1, <2>7 DEF LInv, RateHeld
    <3>2. CASE j = n + 1 /\ i \in 1 .. n
      <4>1. Cost * (j - i + 1) = Spent(key, i)'
        BY <2>3, <3>2 DEF Spent
      <4>2. let'[key][j].passed = passed' /\ let'[key][i].passed = let[key][i].passed
        BY <2>3, <2>5, <3>2
      <4>3. Spent(key, i)' \in Int /\ Spent(key, i)' + 0 <= Spent(key, i) + Refilled(key, at)
        BY <1>2, <2>4, <2>9, <3>2
      <4>4. Within(Spent(key, i)', 0, passed', let[key][i].passed)
        BY <1>1, <2>4, <2>9, <3>2, <4>3, Less
      <4>5. Spent(key, i)' + 0 - Full = Spent(key, i)' - Full
        BY <1>2, <4>3
      <4> QED  BY <4>1, <4>2, <4>4, <4>5 DEF Within
    <3>3. CASE j = n + 1 /\ i = n + 1
      <4>1. let'[key][j].passed = passed' /\ let'[key][i].passed = passed'
        BY <2>3, <2>5, <3>3
      <4>2. j - i + 1 = 1
        BY <2>0, <3>3
      <4>3. Cost * (j - i + 1) - Full = Cost + 0 - Full
        BY <1>2, <4>2
      <4>4. Cost + 0 <= Full
        BY <1>2
      <4>5. Within(Cost, 0, passed', passed')
        BY <1>1, <1>2, <4>4, Opened
      <4> QED  BY <4>1, <4>3, <4>5 DEF Within
    <3> QED  BY <2>3, <3>1, <3>2, <3>3
  <2>8. Accounted(key)
    BY <2>3, <2>6, <2>7
  <2> QED  BY <1>4, <2>8 DEF Owing, RateHeld
<1> QED  BY <1>5, <1>6

\* The limiter starts, and goes on, with its accounts in order.
LEMMA LimiterInitLInv == LimiterInit => LInv
  BY FullNat DEF LimiterInit, LInv, LimiterTypes, Owing, RateHeld, NoCheck

LEMMA LimiterNextLInv == LInv /\ [LimiterNext]_limiterVars => LInv'
<1> SUFFICES ASSUME LInv, [LimiterNext]_limiterVars
             PROVE  LInv'
  OBVIOUS
<1>1. ASSUME NEW c \in Checkers, Admit(c) \/ Refuse(c)
      PROVE  LInv'
  BY <1>1, JudgeTypes, JudgeOwing DEF LInv
<1>2. CASE Tick \/ UNCHANGED limiterVars \/ \E c \in Checkers, k \in Keys : Read(c, k)
  <2>1. UNCHANGED <<held, bucket, read, passed, let>>
    BY <1>2 DEF Tick, Read, limiterVars
  <2>2. Owing' /\ RateHeld'
    BY <2>1 DEF LInv, Owing, RateHeld, Spent, Within, Credit, Base, Since
  <2>3. LimiterTypes'
    <3>1. now' \in Int /\ DOMAIN check' = Checkers
      BY <1>2 DEF LInv, LimiterTypes, Tick, Read, limiterVars
    <3>2. ASSUME NEW o \in Checkers, check'[o].pc = "waiting"
          PROVE  check'[o].key \in Keys /\ check'[o].at \in Int
      BY <1>2, <3>2 DEF LInv, LimiterTypes, Tick, Read, limiterVars
    <3> QED  BY <2>1, <3>1, <3>2 DEF LInv, LimiterTypes
  <2> QED  BY <2>2, <2>3 DEF LInv
<1> QED  BY <1>1, <1>2 DEF LimiterNext

\* middleware.rs:78-122.  For any keys, burst, rate, eviction age and sweep, and
\* however late checks come to the shard: over every window a caller is let
\* through no more than the burst and what the counted time brings, which is
\* its refill, or a burst per eviction age where the age is shorter than that.
THEOREM LimiterRate == LimiterSpec => []RateHeld
<1>1. LInv => RateHeld
  BY DEF LInv
<1> QED  BY LimiterInitLInv, LimiterNextLInv, <1>1, PTL DEF LimiterSpec

\* A factor that both sides have can be left out.
LEMMA Cancel ==
  ASSUME NEW q \in Nat \ {0}, NEW a \in Int, NEW b \in Int, q * a <= q * b
  PROVE  a <= b
<1>1. SUFFICES ASSUME b + 1 <= a
               PROVE  FALSE
  OBVIOUS
<1>2. q * (b + 1) <= q * a /\ q * (b + 1) = q * b + q * 1 /\ q * 1 = q
  BY <1>1, Multiples
<1>3. q * a \in Int /\ q * b \in Int /\ q >= 1
  BY Multiples
<1> QED  BY <1>2, <1>3

\* The limit as it is configured: the burst, and the refill of the time.
AsConfigured ==
  \A k \in Keys : \A i, j \in 1 .. Len(let[k]) :
    i <= j => Cost * (j - i + 1) <= Full + Rate * (let[k][j].passed - let[k][i].passed)

\* middleware.rs:93, manifest.rs:544.  With an eviction age in which a bucket
\* fills up, as the default is, a caller has the burst and the refill of the
\* counted time, in every window, and no more.
THEOREM RateAsConfigured ==
  ASSUME Idle > 0, Rate * Idle >= Full
  PROVE  LimiterSpec => []AsConfigured
<1>1. ASSUME LInv
      PROVE  AsConfigured
  <2> SUFFICES ASSUME NEW k \in Keys, NEW i \in 1 .. Len(let[k]), NEW j \in 1 .. Len(let[k]),
                      i <= j
               PROVE  Cost * (j - i + 1) <= Full + Rate * (let[k][j].passed - let[k][i].passed)
    BY DEF AsConfigured
  <2> DEFINE since == let[k][j].passed - let[k][i].passed
             over == Cost * (j - i + 1) - Full
  <2>1. since \in Int
    BY <1>1, Spending DEF LInv
  <2>2. Cost * (j - i + 1) \in Int /\ over \in Int
    <3>1. Cost \in Nat /\ Full \in Nat /\ j - i + 1 \in Nat
      BY <1>1, FullNat, Spending DEF LInv
    <3>2. Cost * (j - i + 1) \in Int
      BY <3>1
    <3> QED  BY <3>1, <3>2
  <2>3. Idle * over <= (Rate * Idle) * since
    BY <1>1 DEF LInv, RateHeld, PerIdle
  <2> HIDE DEF since, over
  <2>4. (Rate * Idle) * since = Idle * (Rate * since) /\ Rate * since \in Int
    BY <2>1, FullNat, Refills
  <2>5. Idle \in Nat \ {0}
    BY FullNat
  <2>6. over <= Rate * since
    BY <2>2, <2>3, <2>4, <2>5, Cancel
  <2> QED  BY <2>2, <2>4, <2>6, FullNat DEF over, since
<1> QED  BY LimiterInitLInv, LimiterNextLInv, <1>1, PTL DEF LimiterSpec

---------------------------------------------------------------------------
(* Who is refused *)

\* A bucket that is not full holds at least the burst and the refill since some
\* request of its own, less what its key was let through since.
Affords(tokens, spent, at, mark) == Full + Rate * (at - mark) <= tokens + spent

OwnOnly ==
  \A k \in held :
    \/ bucket[k].tokens = Full
    \/ \E i \in 1 .. Len(let[k]) :
         Affords(bucket[k].tokens, Spent(k, i), bucket[k].last, let[k][i].at)

\* What it holds at a reading, late or not, once it is refilled.
LEMMA AffordsRefilled ==
  ASSUME NEW tokens \in Int, NEW spent \in Int, NEW seen \in Int, NEW mark \in Int,
         NEW at \in Int, Affords(tokens, spent, seen, mark)
  PROVE  Affords(tokens + Rate * Since(at, seen), spent, at, mark)
<1> DEFINE old == seen - mark
           new == at - seen
<1>1. /\ old \in Int /\ new \in Int /\ old + new = at - mark
      /\ Full + Rate * old <= tokens + spent
  BY DEF Affords
<1> HIDE DEF old
<1>2. CASE at > seen
  <2>1. Since(at, seen) = new
    BY <1>2 DEF Since
  <2> HIDE DEF new
  <2>2. /\ Rate * (old + new) = Rate * old + Rate * new
        /\ Rate * old \in Int /\ Rate * new \in Int
    BY <1>1, Refills
  <2>3. Full + Rate * (old + new) <= (tokens + Rate * new) + spent
    BY <1>1, <2>2, FullNat
  <2> QED  BY <1>1, <2>1, <2>3 DEF Affords
<1>3. CASE ~(at > seen)
  <2>1. Since(at, seen) = 0 /\ old + new <= old
    BY <1>1, <1>3 DEF Since
  <2> HIDE DEF new
  <2>2. /\ old + new \in Int /\ Rate * (old + new) <= Rate * old
        /\ Rate * old \in Int /\ Rate * (old + new) \in Int
    <3>1. old + new \in Int
      BY <1>1
    <3> QED  BY <1>1, <2>1, <3>1, Refills
  <2>3. Rate * 0 = 0
    BY FullNat
  <2>4. Full + Rate * (old + new) <= tokens + spent
    BY <1>1, <2>2, FullNat
  <2>5. tokens + Rate * Since(at, seen) = tokens
    BY <2>1, <2>3
  <2> QED  BY <1>1, <2>4, <2>5 DEF Affords
<1> QED  BY <1>2, <1>3

\* What a key has when it is judged.
LEMMA RefilledAffords ==
  ASSUME LInv, OwnOnly, NEW k \in Keys, NEW at \in Int
  PROVE  \/ Refilled(k, at) = Full
         \/ \E i \in 1 .. Len(let[k]) : Affords(Refilled(k, at), Spent(k, i), at, let[k][i].at)
<1> DEFINE since == Since(at, bucket[k].last)
           more == bucket[k].tokens + Rate * since
<1>1. /\ bucket[k].tokens \in 0 .. Full /\ bucket[k].last \in Int /\ since \in Nat
      /\ Full \in Nat /\ Rate \in Nat /\ Kept(at) \subseteq held
  BY FullNat, SinceTriangle DEF LInv, LimiterTypes, Kept
<1>2. Rate * since \in Nat /\ more \in Int
  <2>1. Rate * since \in Nat
    BY <1>1
  <2> QED  BY <1>1, <2>1
<1>3. Refilled(k, at) = Full \/ (k \in held /\ Refilled(k, at) = more /\ more <= Full)
  BY <1>1, <1>2 DEF Refilled
<1>4. ASSUME k \in held, Refilled(k, at) = more, more <= Full, bucket[k].tokens = Full
      PROVE  Refilled(k, at) = Full
  BY <1>1, <1>2, <1>4
<1>5. ASSUME NEW i \in 1 .. Len(let[k]), Refilled(k, at) = more,
             Affords(bucket[k].tokens, Spent(k, i), bucket[k].last, let[k][i].at)
      PROVE  Affords(Refilled(k, at), Spent(k, i), at, let[k][i].at)
  <2>1. Spent(k, i) \in Int /\ let[k][i].at \in Int
    BY Spending DEF LInv
  <2>2. bucket[k].tokens \in Int /\ bucket[k].last \in Int
    BY <1>1
  <2>3. Affords(bucket[k].tokens + Rate * Since(at, bucket[k].last), Spent(k, i), at, let[k][i].at)
    BY <1>5, <2>1, <2>2, AffordsRefilled
  <2> QED  BY <1>5, <2>3
<1> HIDE DEF more
<1> QED  BY <1>3, <1>4, <1>5 DEF OwnOnly

\* A judgement takes from no other key, and from its own what it lets through.
LEMMA JudgeOwn ==
  ASSUME LInv, OwnOnly, NEW c \in Checkers, Admit(c) \/ Refuse(c),
         NEW key, NEW at, key = check[c].key, at = check[c].at
  PROVE  OwnOnly'
<1> DEFINE mark == [at |-> at, passed |-> passed']
           have == Refilled(key, at)
<1>1. /\ key \in Keys /\ at \in Int /\ passed' \in Int /\ have \in 0 .. Full
      /\ held' = Kept(at) \cup {key} /\ Kept(at) \subseteq held /\ held \subseteq Keys
  BY Judgement DEF LInv, LimiterTypes, Kept
<1>2. Full \in Nat /\ Cost \in Nat
  BY FullNat
<1>3. \/ have = Full
      \/ \E i \in 1 .. Len(let[key]) : Affords(have, Spent(key, i), at, let[key][i].at)
  BY <1>1, RefilledAffords
<1> DEFINE Mine(k) ==
             \/ bucket'[k].tokens = Full
             \/ \E i \in 1 .. Len(let'[k]) :
                  Affords(bucket'[k].tokens, Spent(k, i)', bucket'[k].last, let'[k][i].at)
<1>4. ASSUME NEW k \in held', k # key
      PROVE  Mine(k)
  <2>1. k \in held /\ bucket'[k] = bucket[k] /\ let'[k] = let[k]
    BY <1>1, <1>4, Judgement
  <2>2. \A i \in 1 .. Len(let[k]) : Spent(k, i)' = Spent(k, i)
    BY <2>1 DEF Spent
  <2> QED  BY <2>1, <2>2 DEF OwnOnly
<1>5. CASE Refuse(c)
  <2>1. let' = let /\ bucket'[key] = [tokens |-> have, last |-> at]
    BY <1>1, <1>5 DEF Refuse, Judge, LInv, LimiterTypes
  <2>2. \A i \in 1 .. Len(let[key]) : Spent(key, i)' = Spent(key, i)
    BY <2>1 DEF Spent
  <2> HIDE DEF have
  <2>3. Mine(key)
    BY <1>3, <2>1, <2>2
  <2> QED  BY <1>4, <2>3 DEF OwnOnly
<1>6. CASE Admit(c)
  <2>1. /\ let' = [let EXCEPT ![key] = Append(@, mark)]
        /\ bucket'[key] = [tokens |-> have - Cost, last |-> at]
    BY <1>1, <1>6 DEF Admit, Judge, LInv, LimiterTypes
  <2>2. PICK n \in Nat : n = Len(let[key])
    BY <1>1, LenProperties DEF LInv, LimiterTypes
  <2>3. /\ Len(let'[key]) = n + 1
        /\ \A i \in 1 .. n : let'[key][i] = let[key][i]
        /\ let'[key][n + 1] = mark
    <3>1. let[key] \in Seq(Mark) /\ mark \in Mark /\ let'[key] = Append(let[key], mark)
      BY <1>1, <2>1 DEF LInv, LimiterTypes, Mark
    <3> QED  BY <2>2, <3>1, AppendProperties, LenProperties
  <2> HIDE DEF have
  <2>4. ASSUME have = Full
        PROVE  Mine(key)
    <3>1. Spent(key, n + 1)' = Cost
      <4>1. Len(let'[key]) - (n + 1) + 1 = 1
        BY <2>3
      <4> QED  BY <1>2, <4>1 DEF Spent
    <3>2. Rate * (at - at) = 0
      <4>1. at - at = 0
        BY <1>1
      <4> QED  BY <4>1, FullNat
    <3>3. Affords(Full - Cost, Cost, at, at)
      BY <1>2, <3>2 DEF Affords
    <3> QED  BY <2>1, <2>3, <2>4, <3>1, <3>3
  <2>5. ASSUME NEW i \in 1 .. n, Affords(have, Spent(key, i), at, let[key][i].at)
        PROVE  Mine(key)
    <3>1. Spent(key, i) \in Int
      BY <1>1, <2>2, Spending DEF LInv
    <3>2. Spent(key, i)' = Spent(key, i) + Cost
      BY <1>2, <2>2, <2>3 DEF Spent
    <3>3. have - Cost + (Spent(key, i) + Cost) = have + Spent(key, i)
      BY <1>1, <1>2, <3>1
    <3>4. Affords(have - Cost, Spent(key, i)', at, let'[key][i].at)
      BY <2>3, <2>5, <3>2, <3>3 DEF Affords
    <3> QED  BY <2>1, <2>3, <3>4
  <2> QED  BY <1>3, <1>4, <2>2, <2>4, <2>5 DEF OwnOnly
<1> QED  BY <1>5, <1>6

LEMMA LimiterInitOwn == LimiterInit => OwnOnly
  BY DEF LimiterInit, OwnOnly

LEMMA LimiterNextOwn == LInv /\ OwnOnly /\ [LimiterNext]_limiterVars => OwnOnly'
<1> SUFFICES ASSUME LInv, OwnOnly, [LimiterNext]_limiterVars
             PROVE  OwnOnly'
  OBVIOUS
<1>1. ASSUME NEW c \in Checkers, Admit(c) \/ Refuse(c)
      PROVE  OwnOnly'
  BY <1>1, JudgeOwn
<1>2. CASE Tick \/ UNCHANGED limiterVars \/ \E c \in Checkers, k \in Keys : Read(c, k)
  <2>1. UNCHANGED <<held, bucket, let>>
    BY <1>2 DEF Tick, Read, limiterVars
  <2> QED  BY <2>1 DEF OwnOnly, Spent
<1> QED  BY <1>1, <1>2 DEF LimiterNext

\* Who is refused has overspent.
LEMMA RefuseOverspent ==
  ASSUME LInv, OwnOnly, NEW c \in Checkers, Refuse(c), NEW key, NEW at,
         key = check[c].key, at = check[c].at
  PROVE  \E i \in 1 .. Len(let[key]) : Overspent(key, i, at)
<1> DEFINE have == Refilled(key, at)
<1>1. key \in Keys /\ at \in Int /\ have \in 0 .. Full
  BY Judgement
<1>2. Full \in Nat /\ Cost \in Nat /\ Cost <= Full
  BY FullNat
<1>3. ~(have >= Cost)
  BY DEF Refuse, Judge
<1>4. \/ have = Full
      \/ \E i \in 1 .. Len(let[key]) : Affords(have, Spent(key, i), at, let[key][i].at)
  BY <1>1, RefilledAffords
<1> HIDE DEF have
<1>5. PICK i \in 1 .. Len(let[key]) : Affords(have, Spent(key, i), at, let[key][i].at)
  BY <1>1, <1>2, <1>3, <1>4
<1>6. Len(let[key]) \in Nat /\ Spent(key, i) \in Int /\ let[key][i].at \in Int
  BY <1>1, Spending DEF LInv
<1>7. Cost * (Len(let[key]) - i + 2) = Spent(key, i) + Cost
  <2> DEFINE m == Len(let[key]) - i + 1
  <2>1. PICK n \in Nat : n = Len(let[key]) /\ i \in 1 .. n
    BY <1>6
  <2>2. m \in Int /\ Len(let[key]) - i + 2 = m + 1
    BY <2>1
  <2> HIDE DEF m
  <2>3. Cost * (m + 1) = Cost * m + Cost
    BY <1>2, <2>2
  <2>4. Spent(key, i) = Cost * m
    BY DEF Spent, m
  <2> QED  BY <2>2, <2>3, <2>4
<1>8. Rate * (at - let[key][i].at) \in Int
  <2>1. at - let[key][i].at \in Int
    BY <1>1, <1>6
  <2> QED  BY <2>1, Refills
<1>9. Spent(key, i) + Cost > Full + Rate * (at - let[key][i].at)
  BY <1>1, <1>2, <1>3, <1>5, <1>6, <1>8 DEF Affords
<1> QED  BY <1>7, <1>9 DEF Overspent

\* middleware.rs:110.  For any keys, burst, rate, eviction age and sweep, and
\* however late checks come to the shard: who is refused has had more than
\* burst and refill over some window of its own.
THEOREM RefusalsOwn == LimiterSpec => RefusedForOwn
<1>1. ASSUME LInv, OwnOnly, [LimiterNext]_limiterVars
      PROVE  [\A c \in Checkers : Refuse(c) =>
                \E i \in 1 .. Len(let[check[c].key]) : Overspent(check[c].key, i, check[c].at)]_limiterVars
  BY <1>1, RefuseOverspent
<1>2. LimiterSpec => [](LInv /\ OwnOnly)
  BY LimiterInitLInv, LimiterNextLInv, LimiterInitOwn, LimiterNextOwn, PTL DEF LimiterSpec
<1> QED  BY <1>1, <1>2, PTL DEF LimiterSpec, RefusedForOwn

---------------------------------------------------------------------------
(* The invariant of the path *)

Types ==
  /\ let \in [Keys -> Seq(Mark)]
  /\ now \in Int /\ read \in Int /\ passed \in Int /\ wrong \in Nat
  /\ DOMAIN check = Checkers /\ DOMAIN req = Checkers

\* A request past its head may come from where it came from, and waits for the
\* limiter, if it does, with the key of its credential.
Past(r) ==
  /\ req[r] \in [pc : {"limited", "reading", "running"}, shape : Shapes]
  /\ CrossOriginAllowed(req[r].shape)
  /\ req[r].pc = "limited" => check[r].key = KeyOf(req[r].shape) /\ check[r].at \in Int

IInv == Types /\ (\A r \in Checkers : req[r] = NoRequest \/ Past(r)) /\ GuessesPaid

---------------------------------------------------------------------------
(* What a check remembers *)

\* Whoever failed to say who he is pays by his address.
LEMMA KeyPays ==
  ASSUME NEW s \in Shapes
  PROVE  KeyOf(s) \in Keys /\ (Credential(s) = "bad" => KeyOf(s) = Address)
  BY PathAssumption DEF KeyOf

\* A check lets nothing be forgotten, and one that admits is remembered.
LEMMA CheckRemembers ==
  ASSUME Types, NEW c \in Checkers, check[c].key \in Keys, check[c].at \in Int,
         Admit(c) \/ Refuse(c)
  PROVE  /\ let' \in [Keys -> Seq(Mark)] /\ read' \in Int /\ passed' \in Int
         /\ \A k \in Keys : Len(let'[k]) >= Len(let[k])
         /\ Admit(c) => Len(let'[check[c].key]) = Len(let[check[c].key]) + 1
<1> DEFINE k == check[c].key
           mark == [at |-> check[c].at, passed |-> passed']
<1>1. read' \in Int /\ passed' \in Int
  BY DEF Admit, Refuse, Judge, Types, Since
<1>2. mark \in Mark
  BY <1>1 DEF Mark
<1>3. CASE Admit(c)
  <2>1. let' = [let EXCEPT ![k] = Append(@, mark)]
    BY <1>3 DEF Admit, Judge
  <2>2. Append(let[k], mark) \in Seq(Mark) /\ Len(Append(let[k], mark)) = Len(let[k]) + 1
    BY <1>2, AppendProperties DEF Types
  <2>3. \A j \in Keys : Len(let[j]) \in Nat
    BY LenProperties DEF Types
  <2> HIDE DEF mark
  <2> QED  BY <1>1, <2>1, <2>2, <2>3 DEF Types
<1>4. CASE Refuse(c) /\ ~Admit(c)
  <2>1. let' = let
    BY <1>4 DEF Refuse, Judge
  <2>2. \A j \in Keys : Len(let[j]) \in Nat
    BY LenProperties DEF Types
  <2> QED  BY <1>1, <1>4, <2>1, <2>2 DEF Types
<1> QED  BY <1>3, <1>4

---------------------------------------------------------------------------
(* Steps *)

LEMMA InitIInv == Init => IInv
<1> SUFFICES ASSUME Init
             PROVE  IInv
  OBVIOUS
<1>1. Types
  BY DEF Init, LimiterInit, Types
<1>2. \A r \in Checkers : req[r] = NoRequest
  BY DEF Init
<1>3. Address \in Keys
  BY PathAssumption
<1>4. GuessesPaid
  BY <1>3 DEF Init, LimiterInit, GuessesPaid
<1> QED  BY <1>1, <1>2, <1>4 DEF IInv

\* A request ends, or runs what it asked for; the limiter and the guesses stay.
LEMMA Goes ==
  ASSUME IInv, UNCHANGED <<limiterVars, wrong>>, NEW r \in Checkers,
         \/ req' = [req EXCEPT ![r] = NoRequest]
         \/ Past(r) /\ req' = [req EXCEPT ![r].pc = "running"]
  PROVE  IInv'
<1>1. Types'
  BY DEF IInv, Types, limiterVars
<1>2. ASSUME NEW o \in Checkers
      PROVE  req'[o] = NoRequest \/ Past(o)'
  BY DEF IInv, Types, Past, limiterVars
<1>3. GuessesPaid'
  BY DEF IInv, GuessesPaid, limiterVars
<1> QED  BY <1>1, <1>2, <1>3 DEF IInv

LEMMA TickIInv == IInv /\ Tick /\ UNCHANGED pathVars => IInv'
  BY DEF IInv, Types, Past, GuessesPaid, Tick, pathVars

LEMMA ArriveIInv ==
  ASSUME IInv, NEW r \in Checkers, NEW s \in Shapes, Arrive(r, s)
  PROVE  IInv'
<1>1. CASE UNCHANGED limiterVars /\ req' = [req EXCEPT ![r] = NoRequest]
  BY <1>1, Goes DEF Arrive
<1>2. CASE Read(r, KeyOf(s)) /\ req' = [req EXCEPT ![r] = [pc |-> "limited", shape |-> s]]
           /\ CrossOriginAllowed(s)
  <2>1. Types'
    BY <1>2 DEF IInv, Types, Read, Arrive
  <2>2. ASSUME NEW o \in Checkers
        PROVE  req'[o] = NoRequest \/ Past(o)'
    BY <1>2, <2>2 DEF IInv, Types, Past, Read
  <2>3. GuessesPaid'
    BY <1>2 DEF IInv, GuessesPaid, Read, Arrive
  <2> QED  BY <2>1, <2>2, <2>3 DEF IInv
<1> QED  BY <1>1, <1>2 DEF Arrive, Send

\* The limiter's verdict: the request that was judged is the only one to move.
LEMMA Judged ==
  ASSUME IInv, NEW r \in Checkers, req[r].pc = "limited", Admit(r) \/ Refuse(r),
         \/ req' = [req EXCEPT ![r] = NoRequest]
         \/ req' = [req EXCEPT ![r].pc = "reading"],
         wrong' = wrong \/ (Admit(r) /\ Who(r) = "bad" /\ wrong' = wrong + 1)
  PROVE  IInv'
<1>1. Past(r)
  BY DEF IInv, NoRequest
<1>2. check[r].key = KeyOf(req[r].shape) /\ check[r].at \in Int /\ req[r].shape \in Shapes
  BY <1>1 DEF Past
<1>3. check[r].key \in Keys /\ (Who(r) = "bad" => check[r].key = Address)
  BY <1>2, KeyPays DEF Who
<1>4. /\ let' \in [Keys -> Seq(Mark)] /\ read' \in Int /\ passed' \in Int
      /\ \A j \in Keys : Len(let'[j]) >= Len(let[j])
      /\ Admit(r) => Len(let'[check[r].key]) = Len(let[check[r].key]) + 1
  BY <1>2, <1>3, CheckRemembers DEF IInv
<1>5. Types'
  <2>1. now' = now /\ DOMAIN check' = DOMAIN check
    BY DEF Admit, Refuse
  <2>2. wrong' \in Nat /\ DOMAIN req' = DOMAIN req
    BY DEF IInv, Types
  <2> QED  BY <1>4, <2>1, <2>2 DEF IInv, Types
<1>6. ASSUME NEW o \in Checkers
      PROVE  req'[o] = NoRequest \/ Past(o)'
  <2>1. DOMAIN req = Checkers /\ DOMAIN check = Checkers
    BY DEF IInv, Types
  <2>2. CASE o = r
    <3>1. \/ req'[r] = NoRequest
          \/ req'[r] = [req[r] EXCEPT !.pc = "reading"]
      BY <2>1
    <3>2. ASSUME req'[r] = [req[r] EXCEPT !.pc = "reading"]
          PROVE  Past(r)'
      <4>1. /\ req'[r] \in [pc : {"limited", "reading", "running"}, shape : Shapes]
            /\ req'[r].pc = "reading" /\ req'[r].shape = req[r].shape
        BY <1>1, <3>2 DEF Past
      <4>2. QED
        BY <1>1, <4>1 DEF Past
    <3>3. QED
      BY <2>2, <3>1, <3>2
  <2>3. CASE o # r
    <3>1. req'[o] = req[o]
      BY <1>6, <2>1, <2>3
    <3>2. check'[o] = check[o]
      BY <1>6, <2>1, <2>3 DEF Admit, Refuse
    <3>3. QED
      BY <1>6, <3>1, <3>2 DEF IInv, Past
  <2>4. QED
    BY <2>2, <2>3
<1>7. GuessesPaid'
  <2>1. Address \in Keys
    BY PathAssumption
  <2>2. Len(let[Address]) \in Nat /\ Len(let'[Address]) \in Nat
    BY <1>4, <2>1, LenProperties DEF IInv, Types
  <2> QED  BY <1>3, <1>4, <2>1, <2>2 DEF IInv, Types, GuessesPaid
<1> QED  BY <1>5, <1>6, <1>7 DEF IInv

LEMMA LimitedIInv ==
  ASSUME IInv, NEW r \in Checkers, TooMany(r) \/ Pass(r)
  PROVE  IInv'
<1>1. CASE TooMany(r)
  BY <1>1, Judged DEF TooMany, Send
<1>2. CASE Pass(r)
  <2>1. CASE Who(r) = "bad"
    BY <1>2, <2>1, Judged DEF Pass, Send
  <2>2. CASE Who(r) # "bad" /\ req[r].shape.upgrade
    BY <1>2, <2>2, Judged DEF Pass, Send
  <2>3. CASE Who(r) # "bad" /\ ~req[r].shape.upgrade
    BY <1>2, <2>3, Judged DEF Pass
  <2> QED  BY <2>1, <2>2, <2>3
<1> QED  BY <1>1, <1>2

\* Past the limiter a request ends, or runs what it asked for.
LEMMA ReadIInv ==
  ASSUME IInv, NEW r \in Checkers, req[r].pc \in {"reading", "running"},
         UNCHANGED <<limiterVars, wrong>>,
         \/ req' = [req EXCEPT ![r] = NoRequest]
         \/ req' = [req EXCEPT ![r].pc = "running"]
  PROVE  IInv'
<1>1. Past(r)
  BY DEF IInv, NoRequest
<1> QED  BY <1>1, Goes

LEMMA NextIInv == IInv /\ [Next]_vars => IInv'
<1> SUFFICES ASSUME IInv, [Next]_vars
             PROVE  IInv'
  OBVIOUS
<1>1. CASE Tick /\ UNCHANGED pathVars
  BY <1>1, TickIInv
<1>2. ASSUME NEW r \in Checkers, NEW s \in Shapes, Arrive(r, s)
      PROVE  IInv'
  BY <1>2, ArriveIInv
<1>3. ASSUME NEW r \in Checkers, TooMany(r) \/ Pass(r)
      PROVE  IInv'
  BY <1>3, LimitedIInv
<1>4. ASSUME NEW r \in Checkers, BodyRefused(r) \/ BodyLate(r) \/ Gone(r)
      PROVE  IInv'
  BY <1>4, ReadIInv DEF BodyRefused, BodyLate, Gone, Send
<1>5. ASSUME NEW r \in Checkers, Return(r) \/ Timeout(r)
      PROVE  IInv'
  BY <1>5, ReadIInv DEF Return, Timeout, Result, Send
<1>6. ASSUME NEW r \in Checkers, Dispatch(r)
      PROVE  IInv'
  BY <1>6, ReadIInv DEF Dispatch, Run, Send
<1>7. ASSUME NEW r \in Checkers, ControlPlane(r)
      PROVE  IInv'
  BY <1>7, ReadIInv DEF ControlPlane, Operate, Mcp, Approvals, Run, Send
<1>8. CASE UNCHANGED vars
  BY <1>8 DEF vars, pathVars, limiterVars, IInv, Types, Past, GuessesPaid
<1> QED  BY <1>1, <1>2, <1>3, <1>4, <1>5, <1>6, <1>7, <1>8 DEF Next

---------------------------------------------------------------------------
(* What is run *)

Allowed ==
  last' # last =>
    /\ Missing(last'.who, last'.route) = {}
    /\ last'.via = "socket" \/ last'.shape.method = "POST" => last'.shape.origin # "foreign"
    /\ last'.via = "mcp" =>
         /\ ~Table[last'.route].gated
         /\ Known # {} => HasScope(last'.who, "webcortex:admin")

\* What a request past its head is run as, from a route that was found for it.
LEMMA EntryAllowed ==
  ASSUME NEW r \in Checkers, Past(r), NEW route, NEW via \in {"socket", "http", "mcp"},
         Missing(Who(r), route) = {}, last' = Entry(r, route, via),
         via = "socket" => req[r].shape.upgrade,
         via = "mcp" =>
           ~Table[route].gated /\ (Known # {} => HasScope(Who(r), "webcortex:admin"))
  PROVE  Allowed
<1> DEFINE s == req[r].shape
<1>1. s.upgrade \/ s.method = "POST" => s.origin # "foreign"
  BY DEF Past, CrossOriginAllowed, OriginAllowed
<1>2. last'.who = Who(r) /\ last'.route = route /\ last'.via = via /\ last'.shape = s
  BY DEF Entry
<1> QED  BY <1>1, <1>2 DEF Allowed

LEMMA StepAllowed == IInv /\ [Next]_vars => Allowed
<1> SUFFICES ASSUME IInv, [Next]_vars, last' # last
             PROVE  Allowed
  BY DEF Allowed
<1>1. PICK r \in Checkers : Pass(r) \/ Dispatch(r) \/ ControlPlane(r)
  BY ZenonT(60) DEF Next, Tick, Arrive, TooMany, BodyRefused, BodyLate, Return, Result, Timeout, Gone,
     vars, pathVars
<1>2. Past(r)
  BY <1>1 DEF IInv, NoRequest, Pass, Dispatch, ControlPlane
<1>3. CASE Pass(r)
  <2>1. /\ req[r].shape.upgrade /\ 101 \in AcceptAnswers(r)
        /\ last' = Entry(r, req[r].shape.path, "socket")
    BY <1>3 DEF Pass
  <2>2. Missing(Who(r), req[r].shape.path) = {}
    BY <2>1 DEF AcceptAnswers, Refusal
  <2> QED  BY <1>2, <2>1, <2>2, EntryAllowed
<1>4. CASE Dispatch(r)
  <2>1. DispatchRefusal(r, req[r].shape.path) = 0 /\ last' = Entry(r, req[r].shape.path, "http")
    BY <1>4 DEF Dispatch, Run
  <2>2. Missing(Who(r), req[r].shape.path) = {}
    BY <2>1 DEF DispatchRefusal, Refusal
  <2> QED  BY <1>2, <2>1, <2>2, EntryAllowed
<1>5. CASE ControlPlane(r)
  <2> DEFINE tool == req[r].shape.tool
  <2>1. ~ControlRefused(r) /\ Mcp(r)
    BY <1>5 DEF ControlPlane, Operate, Approvals
  <2>2. Callable(tool) /\ DispatchRefusal(r, tool) = 0 /\ last' = Entry(r, tool, "mcp")
    BY <2>1 DEF Mcp, Run
  <2>3. Known # {} => HasScope(Who(r), "webcortex:admin")
    BY <2>1 DEF ControlRefused, Mcp, Posted
  <2>4. Missing(Who(r), tool) = {} /\ ~Table[tool].gated
    BY <2>2 DEF DispatchRefusal, Refusal, Callable
  <2> QED  BY <1>2, <2>2, <2>3, <2>4, EntryAllowed
<1> QED  BY <1>1, <1>3, <1>4, <1>5

\* server.rs:583, app.rs:364, 571, mcp.rs:409.  For any routes, credentials
\* and requests, what runs was asked for by someone who may run it.
THEOREM OnlyPermitted == Spec => PermittedOnly
<1>1. IInv /\ [Next]_vars => [Allowed]_vars
  BY StepAllowed
<1> QED  BY InitIInv, NextIInv, <1>1, PTL DEF Spec, PermittedOnly, Allowed

\* server.rs:618-632.  For any credentials, keys and rates, and however the
\* checks overtake each other: no wrong credential is told so for free.
THEOREM EveryGuessPaid == Spec => []GuessesPaid
<1>1. IInv => GuessesPaid
  BY DEF IInv
<1> QED  BY InitIInv, NextIInv, <1>1, PTL DEF Spec

---------------------------------------------------------------------------
(* The answer *)

\* The answers that handle is given.
Answer == [status : Nat, legal : BOOLEAN, own : BOOLEAN]

Told == answer.sent = IF headersLegal \/ answer.own THEN answer.recorded ELSE 500

LEMMA CodedAnswer ==
  ASSUME NEW status \in Nat
  PROVE  Coded(status) \in Answer
  BY DEF Coded, Answer

LEMMA SendTells ==
  ASSUME NEW r \in Checkers, NEW res \in Answer, Send(r, res), UNCHANGED headersLegal
  PROVE  Told'
<1> DEFINE settled == Sendable(res)
<1>1. settled \in Answer /\ settled.legal
  BY DEF Sendable, Coded, Answer
<1>2. answer' = [recorded |-> settled.status, sent |-> Wire(Secured(settled)), own |-> settled.own]
  BY DEF Send
<1> HIDE DEF settled
<1>3. Wire(Secured(settled)) = IF headersLegal \/ settled.own THEN settled.status ELSE 500
  BY <1>1 DEF Wire, Secured, Answer
<1> QED  BY <1>2, <1>3 DEF Told

LEMMA StepTells == Told /\ [Next]_vars => Told'
<1> SUFFICES ASSUME Told, [Next]_vars
             PROVE  Told'
  OBVIOUS
<1>0. UNCHANGED headersLegal
  BY DEF Next, vars, pathVars
<1>1. CASE UNCHANGED answer
  BY <1>0, <1>1 DEF Told
<1>2. ASSUME NEW r \in Checkers, NEW status \in Nat, Send(r, Coded(status))
      PROVE  Told'
  BY <1>0, <1>2, CodedAnswer, SendTells
<1>3. ASSUME NEW r \in Checkers, NEW s \in Shapes, Arrive(r, s)
      PROVE  Told'
  BY <1>1, <1>2, <1>3 DEF Arrive
<1>4. ASSUME NEW r \in Checkers, Pass(r)
      PROVE  Told'
  <2>1. AcceptAnswers(r) \subseteq Nat
    BY DEF AcceptAnswers, Refusal
  <2> QED  BY <1>1, <1>2, <1>4, <2>1 DEF Pass
<1>5. ASSUME NEW r \in Checkers, TooMany(r) \/ BodyRefused(r) \/ BodyLate(r) \/ Timeout(r)
      PROVE  Told'
  BY <1>2, <1>5 DEF TooMany, BodyRefused, BodyLate, Timeout, Result
<1>6. ASSUME NEW r \in Checkers, Return(r)
      PROVE  Told'
  <2>1. \A legal, own \in BOOLEAN : [status |-> 200, legal |-> legal, own |-> own] \in Answer
    BY DEF Answer
  <2>2. Coded(500) \in Answer
    BY CodedAnswer
  <2>3. \/ Send(r, Coded(500))
        \/ \E legal, own \in BOOLEAN : Send(r, [status |-> 200, legal |-> legal, own |-> own])
    BY <1>6 DEF Return, Result
  <2>4. PICK res \in Answer : Send(r, res)
    BY <2>1, <2>2, <2>3
  <2> QED  BY <1>0, <2>4, SendTells
<1>7. ASSUME NEW r \in Checkers, Dispatch(r)
      PROVE  Told'
  <2>1. DispatchRefusal(r, req[r].shape.path) \in Nat
    BY DEF DispatchRefusal, Refusal
  <2> QED  BY <1>1, <1>2, <1>7, <2>1 DEF Dispatch, Run
<1>8. ASSUME NEW r \in Checkers, ControlPlane(r)
      PROVE  Told'
  <2>1. CASE ControlRefused(r)
    <3>1. Refusal(Who(r)) \in Nat
      BY DEF Refusal
    <3> QED  BY <1>2, <1>8, <2>1, <3>1 DEF ControlPlane
  <2>2. CASE Operate(r)
    BY <1>2, <2>2 DEF Operate
  <2>3. CASE Mcp(r)
    BY <1>1, <1>2, <2>3 DEF Mcp, Run
  <2>4. CASE Approvals(r)
    BY <1>1, <1>2, <2>4 DEF Approvals
  <2> QED  BY <1>8, <2>1, <2>2, <2>3, <2>4 DEF ControlPlane
<1>9. CASE UNCHANGED vars
  BY <1>1, <1>9 DEF vars, pathVars
<1> QED  BY <1>1, <1>3, <1>4, <1>5, <1>6, <1>7, <1>8, <1>9 DEF Next, Gone, pathVars

\* server.rs:483-509.  Whatever a handler returns, what is recorded of the
\* answer is what hyper puts on the wire; but for a configured header that
\* cannot be sent, which makes every answer without one of its own a bare 500.
THEOREM RecordsTrue == Spec => RecordedAsSent
<1>1. Init => Told
  BY DEF Init, Told
<1>2. Told /\ [Next]_vars =>
        [answer'.sent = IF headersLegal \/ answer'.own THEN answer'.recorded ELSE 500]_vars
  <2>1. [Next]_vars => UNCHANGED headersLegal
    BY DEF Next, vars, pathVars
  <2> QED  BY StepTells, <2>1 DEF Told
<1> QED  BY <1>1, StepTells, <1>2, PTL DEF Spec, RecordedAsSent

---------------------------------------------------------------------------
(* The path uses the limiter as it is meant to be used *)

\* server.rs:605-632.  Whatever the path does is a step of the limiter or none.
THEOREM PathIsLimiter == Spec => LimiterSpec
<1>1. Init => LimiterInit
  BY DEF Init
<1>2. [Next]_vars => [LimiterNext]_limiterVars
  <2> SUFFICES ASSUME [Next]_vars
               PROVE  [LimiterNext]_limiterVars
    OBVIOUS
  <2>1. CASE Tick /\ UNCHANGED pathVars
    BY <2>1 DEF LimiterNext
  <2>2. ASSUME NEW r \in Checkers, NEW s \in Shapes, Arrive(r, s)
        PROVE  [LimiterNext]_limiterVars
    <3>1. UNCHANGED limiterVars \/ Read(r, KeyOf(s))
      BY <2>2 DEF Arrive
    <3> QED  BY <3>1, KeyPays DEF LimiterNext
  <2>3. ASSUME NEW r \in Checkers, TooMany(r) \/ Pass(r)
        PROVE  [LimiterNext]_limiterVars
    BY <2>3 DEF TooMany, Pass, LimiterNext
  <2>4. ASSUME NEW r \in Checkers,
               BodyRefused(r) \/ BodyLate(r) \/ Dispatch(r) \/ Return(r) \/ Timeout(r)
                 \/ ControlPlane(r) \/ Gone(r)
        PROVE  UNCHANGED limiterVars
    BY <2>4 DEF BodyRefused, BodyLate, Dispatch, Return, Timeout, Result, ControlPlane, Gone
  <2>5. CASE UNCHANGED vars
    BY <2>5 DEF vars
  <2> QED  BY <2>1, <2>2, <2>3, <2>4, <2>5 DEF Next
<1> QED  BY <1>1, <1>2, PTL DEF Spec, LimiterSpec

\* middleware.rs:78-122.  The rate holds on the path too, whoever fails to say
\* who he is.
THEOREM PathHoldsRate == Spec => []RateHeld
  BY PathIsLimiter, LimiterRate, PTL

\* The same on the path.
THEOREM PathRefusesOwn == Spec => RefusedForOwn
  BY PathIsLimiter, RefusalsOwn, PTL
==============================================================================
