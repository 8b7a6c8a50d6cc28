-------------------------- MODULE SessionTurnsProofs --------------------------
(* Proofs about SessionTurns, for any tasks, sessions, locks and bounds. *)
EXTENDS SessionTurns, SequenceTheorems, FiniteSetTheorems, WellFoundedInduction, TLAPS

-----------------------------------------------------------------------------
(* Conversations *)

LEMMA LeastExists ==
    ASSUME NEW S \in SUBSET Nat, S # {}
    PROVE  \E x \in S : \A y \in S : x <= y
<1>1. \E x \in S : \A y \in S : ~(<<y, x>> \in OpToRel(<, Nat))
  BY NatLessThanWellFounded, WFMin
<1>2. \A x, y \in Nat : <<y, x>> \in OpToRel(<, Nat) <=> y < x
  BY Zenon DEF OpToRel
<1>3. \E x \in S : \A y \in S : ~(y < x)
  BY <1>1, <1>2
<1>4. \A x, y \in S : ~(y < x) => x <= y
  OBVIOUS
<1>5. QED
  BY <1>3, <1>4

LEMMA GreatestExists ==
    ASSUME NEW n \in Nat, NEW S \in SUBSET (1..n), S # {}
    PROVE  Max(S) \in S
<1> DEFINE T == {n - x : x \in S}
<1>1. \A x \in S : x \in Nat /\ n - x \in Nat
  OBVIOUS
<1>2. T \in SUBSET Nat /\ T # {}
  BY <1>1
<1>3. Min(T) \in T /\ \A y \in T : Min(T) <= y
  <2>1. \A U \in SUBSET Nat : U # {} => \E x \in U : \A y \in U : x <= y
    BY LeastExists
  <2>2. QED
    BY <1>2, <2>1, Zenon DEF Min
<1>4. PICK x \in S : Min(T) = n - x
  BY <1>3
<1>5. \A y \in S : n - x <= n - y
  BY <1>3, <1>4
<1>6. \E z \in S : \A y \in S : z >= y
  BY <1>1, <1>5
<1>7. QED
  BY <1>6 DEF Max

(* What a cut keeps was there before it. *)
LEMMA SliceType ==
    ASSUME NEW conv \in Seq(Message), NEW m \in Nat, m >= 1, NEW n \in Nat, n <= Len(conv)
    PROVE  /\ SubSeq(conv, m, n) \in Seq(Message)
           /\ Len(SubSeq(conv, m, n)) = IF m <= n THEN n - m + 1 ELSE 0
           /\ \A i \in 1 .. n - m + 1 : SubSeq(conv, m, n)[i] = conv[m + i - 1]
           /\ Carried(SubSeq(conv, m, n)) \subseteq Carried(conv)
<1>1. \A i \in m..n : conv[i] \in Message
  BY ElementOfSeq
<1>2. /\ SubSeq(conv, m, n) \in Seq(Message)
      /\ Len(SubSeq(conv, m, n)) = IF m <= n THEN n - m + 1 ELSE 0
      /\ \A i \in 1 .. n - m + 1 : SubSeq(conv, m, n)[i] = conv[m + i - 1]
  BY <1>1, SubSeqProperties
<1>3. ASSUME NEW i \in DOMAIN SubSeq(conv, m, n)
      PROVE  \E j \in DOMAIN conv : SubSeq(conv, m, n)[i] = conv[j]
  <2>1. i \in 1 .. n - m + 1
    BY <1>2, <1>3, LenProperties
  <2>2. m + i - 1 \in 1 .. Len(conv) /\ SubSeq(conv, m, n)[i] = conv[m + i - 1]
    BY <1>2, <2>1
  <2>3. QED
    BY <2>2, LenProperties
<1>4. QED
  BY <1>2, <1>3 DEF Carried

(* bound() keeps a tail of the conversation. *)
LEMMA BoundType ==
    ASSUME NEW conv \in Seq(Message)
    PROVE  Bound(conv) \in Seq(Message) /\ Carried(Bound(conv)) \subseteq Carried(conv)
<1> DEFINE seen == TurnStartsSeen(conv)
           fitting == {i \in seen : Fits(conv, i)}
<1>1. Len(conv) \in Nat /\ DOMAIN conv = 1..Len(conv)
  BY LenProperties
<1>2. seen \in SUBSET (1..Len(conv)) /\ fitting \in SUBSET (1..Len(conv))
  BY <1>1 DEF TurnStartsSeen
<1> HIDE DEF seen, fitting
<1>3. fitting # {} => Min(fitting) \in fitting
  <2>1. SUFFICES ASSUME fitting # {} PROVE Min(fitting) \in fitting
    OBVIOUS
  <2>2. fitting \in SUBSET Nat
    BY <1>1, <1>2
  <2>3. \E x \in fitting : \A y \in fitting : x <= y
    BY <2>1, <2>2, LeastExists
  <2>4. QED
    BY <2>3, Zenon DEF Min
<1>4. seen # {} => Max(seen) \in seen
  BY <1>1, <1>2, GreatestExists
<1>5. FirstKept(conv) \in Nat /\ FirstKept(conv) >= 1
  <2>1. \/ FirstKept(conv) = 1
        \/ fitting # {} /\ FirstKept(conv) = Min(fitting)
        \/ seen # {} /\ FirstKept(conv) = Max(seen)
    <3>1. FirstKept(conv) =
            IF conv = <<>> \/ Fits(conv, 1) THEN 1
            ELSE IF fitting # {} THEN Min(fitting)
            ELSE IF seen # {} THEN Max(seen)
            ELSE 1
      BY Zenon DEF FirstKept, seen, fitting
    <3>2. QED
      BY <3>1, Zenon
  <2>2. fitting # {} => Min(fitting) \in 1..Len(conv)
    BY <1>2, <1>3, Zenon
  <2>3. seen # {} => Max(seen) \in 1..Len(conv)
    BY <1>2, <1>4, Zenon
  <2>4. FirstKept(conv) = 1 \/ FirstKept(conv) \in 1..Len(conv)
    BY <2>1, <2>2, <2>3, Zenon
  <2>5. QED
    BY <1>1, <2>4
<1>6. QED
  BY <1>1, <1>5, SliceType DEF Bound

LEMMA JoinType ==
    ASSUME NEW c1 \in Seq(Message), NEW c2 \in Seq(Message)
    PROVE  /\ c1 \o c2 \in Seq(Message)
           /\ Carried(c1 \o c2) = Carried(c1) \cup Carried(c2)
<1> DEFINE c == c1 \o c2
<1>1. /\ c \in Seq(Message) /\ Len(c) = Len(c1) + Len(c2)
      /\ \A i \in 1 .. Len(c1) + Len(c2) : c[i] = IF i <= Len(c1) THEN c1[i] ELSE c2[i - Len(c1)]
  BY ConcatProperties
<1>2. /\ DOMAIN c1 = 1..Len(c1) /\ Len(c1) \in Nat
      /\ DOMAIN c2 = 1..Len(c2) /\ Len(c2) \in Nat
      /\ DOMAIN c = 1..(Len(c1) + Len(c2))
  BY <1>1, LenProperties
<1> HIDE DEF c
<1>3. \A i \in DOMAIN c1 : i \in DOMAIN c /\ c[i] = c1[i]
  BY <1>1, <1>2
<1>4. \A i \in DOMAIN c2 : Len(c1) + i \in DOMAIN c /\ c[Len(c1) + i] = c2[i]
  BY <1>1, <1>2
<1>5. \A i \in DOMAIN c : \/ i \in DOMAIN c1 /\ c[i] = c1[i]
                          \/ i - Len(c1) \in DOMAIN c2 /\ c[i] = c2[i - Len(c1)]
  BY <1>1, <1>2
<1>6. Carried(c) = Carried(c1) \cup Carried(c2)
  BY <1>3, <1>4, <1>5 DEF Carried
<1>7. QED
  BY <1>1, <1>6 DEF c

LEMMA SaidType ==
    ASSUME NEW conv \in Seq(Message), NEW m \in Message
    PROVE  /\ Append(conv, m) \in Seq(Message)
           /\ Carried(conv) \subseteq Carried(Append(conv, m))
<1>1. /\ Append(conv, m) \in Seq(Message) /\ Len(Append(conv, m)) = Len(conv) + 1
      /\ \A i \in 1..Len(conv) : Append(conv, m)[i] = conv[i]
  BY AppendProperties
<1>2. \A i \in DOMAIN conv : i \in DOMAIN Append(conv, m) /\ Append(conv, m)[i] = conv[i]
  BY <1>1, LenProperties
<1>3. QED
  BY <1>1, <1>2 DEF Carried

(* A compaction keeps every turn's words. *)
LEMMA CompactedType ==
    ASSUME NEW r \in Run, NEW cut \in 2 .. Len(r.conv) - 1
    PROVE  /\ Compacted(r, cut) \in Run
           /\ Carried(r.conv) \subseteq Carried(Compacted(r, cut).conv)
           /\ Compacted(r, cut) = [r EXCEPT !.conv = Compacted(r, cut).conv,
                                            !.turn_start = Compacted(r, cut).turn_start]
<1> DEFINE head == SubSeq(r.conv, 1, cut)
           tail == SubSeq(r.conv, cut + 1, Len(r.conv))
           summary == [turns |-> Carried(head), start |-> TRUE, size |-> 1]
           start == IF r.turn_start >= cut THEN r.turn_start - cut + 1 ELSE 0
<1>1. r.conv \in Seq(Message) /\ Len(r.conv) \in Nat /\ r.turn_start \in Nat
  BY LenProperties DEF Run
<1>2. DOMAIN r.conv = 1..Len(r.conv)
  BY <1>1, LenProperties
<1>3. /\ head \in Seq(Message) /\ tail \in Seq(Message)
      /\ Carried(head) \subseteq Carried(r.conv)
      /\ Len(head) = cut /\ \A i \in 1..cut : head[i] = r.conv[i]
      /\ Len(tail) = Len(r.conv) - cut
      /\ \A i \in 1..Len(r.conv) - cut : tail[i] = r.conv[cut + i]
  <2>1. /\ head \in Seq(Message) /\ Carried(head) \subseteq Carried(r.conv)
        /\ Len(head) = cut /\ \A i \in 1..cut : head[i] = r.conv[i]
    BY <1>1, SliceType
  <2>2. /\ tail \in Seq(Message)
        /\ Len(tail) = Len(r.conv) - cut
        /\ \A i \in 1..Len(r.conv) - cut : tail[i] = r.conv[cut + i]
    BY <1>1, SliceType
  <2>3. QED
    BY <2>1, <2>2
<1>4. Carried(r.conv) \subseteq Turns
  <2>1. \A i \in DOMAIN r.conv : r.conv[i] \in Message
    BY <1>1, <1>2, ElementOfSeq
  <2>2. \A m \in Message : m.turns \subseteq Turns
    BY DEF Message
  <2>3. QED
    BY <2>1, <2>2 DEF Carried
<1>5. summary \in Message
  BY <1>3, <1>4 DEF Message
<1>6. <<summary>> \in Seq(Message) /\ Carried(<<summary>>) = Carried(head)
  <2>1. summary.turns = Carried(head)
    OBVIOUS
  <2> HIDE DEF summary, head
  <2>2. <<summary>> \in Seq(Message) /\ DOMAIN <<summary>> = {1} /\ <<summary>>[1] = summary
    BY <1>5
  <2>3. Carried(<<summary>>) = UNION {<<summary>>[i].turns : i \in {1}}
    BY <2>2 DEF Carried
  <2>4. QED
    BY <2>1, <2>2, <2>3
<1>7. Carried(r.conv) \subseteq Carried(head) \cup Carried(tail)
  <2>1. ASSUME NEW i \in 1..Len(r.conv)
        PROVE  \/ \E j \in DOMAIN head : head[j] = r.conv[i]
               \/ \E j \in DOMAIN tail : tail[j] = r.conv[i]
    <3>1. DOMAIN head = 1..cut /\ DOMAIN tail = 1..Len(r.conv) - cut
      BY <1>1, <1>3, LenProperties
    <3>2. CASE i <= cut
      <4>1. i \in 1..cut /\ head[i] = r.conv[i]
        BY <1>3, <3>2
      <4>2. QED
        BY <3>1, <4>1
    <3>3. CASE i > cut
      <4>1. i - cut \in 1..Len(r.conv) - cut /\ tail[i - cut] = r.conv[i]
        BY <1>1, <1>3, <3>3
      <4>2. QED
        BY <3>1, <4>1
    <3>4. QED
      BY <1>1, <3>2, <3>3
  <2>2. QED
    BY <1>2, <2>1 DEF Carried
<1>8. /\ <<summary>> \o tail \in Seq(Message)
      /\ Carried(<<summary>> \o tail) = Carried(head) \cup Carried(tail)
  BY <1>3, <1>6, JoinType
<1>9. start \in Nat
  BY <1>1
<1>10. Compacted(r, cut) = [r EXCEPT !.conv = <<summary>> \o tail, !.turn_start = start]
  BY DEF Compacted
<1> HIDE DEF head, tail, summary, start
<1>11. QED
  BY <1>7, <1>8, <1>9, <1>10 DEF Run

-----------------------------------------------------------------------------
(* The inductive invariant *)

(* Where each task is says what it carries and which lock it refers to.    *)
Placed ==
    \A t \in Tasks :
        /\ pc[t] # "idle" => run[t] \in Run
        /\ pc[t] \in {"idle", "arrived", "entering"} => arc[t] = None
        /\ pc[t] \in {"cloned", "waiting"} => arc[t] # None
        /\ pc[t] = "entering" => run[t].nested
        /\ pc[t] = "arrived" => ~run[t].nested
        /\ InTurn(t) => arc[t] # None /\ holder[arc[t]] = t
        /\ arc[t] # None => ~run[t].nested /\ lockOf[run[t].key] = arc[t]

(* No two sessions share a lock. *)
OwnLocks ==
    \A j, k \in Keys : lockOf[j] # None /\ lockOf[j] = lockOf[k] => j = k

(* A lock's holder and its waiters refer to it; a waiter waits once. *)
Queued ==
    \A l \in Locks :
        /\ holder[l] # None => arc[holder[l]] = l /\ pc[holder[l]] # "cloned"
        /\ \A i \in DOMAIN waiters[l] :
            LET u == waiters[l][i]
            IN  pc[u] = "waiting" /\ arc[u] = l /\ holder[l] # u
        /\ \A i, j \in DOMAIN waiters[l] : waiters[l][i] = waiters[l][j] => i = j

(* A run's revision says which saved history it carries. *)
Carries(r, saved, newest) ==
    /\ r.nested => r.key \in NestedKeys
    /\ r.rev <= newest
    /\ saved[r.key] # None /\ saved[r.key].rev = r.rev
        => Carried(saved[r.key].conv) \subseteq Carried(r.conv)

Versioned ==
    /\ \A k \in Keys : store[k] # None => store[k].rev \in 1..revisions
    /\ \A a \in approvals : Carries(a.run, store, revisions)
    /\ \A t \in Tasks : pc[t] # "idle" => Carries(run[t], store, revisions)

LockInv == TypeOK /\ Placed /\ OwnLocks /\ Queued

IInv == LockInv /\ Versioned /\ HistoryKept

LEMMA InitIInv == Init => IInv
<1>1. SUFFICES ASSUME Init PROVE IInv
  OBVIOUS
<1>2. TypeOK
  BY <1>1, TurnsAssumption DEF Init, TypeOK
<1>3. Placed /\ OwnLocks
  BY <1>1 DEF Init, Placed, OwnLocks, InTurn
<1>4. Queued
  BY <1>1 DEF Init, Queued
<1>5. Versioned
  BY <1>1 DEF Init, Versioned
<1>6. HistoryKept
  BY <1>1 DEF Init, HistoryKept, InTurn
<1>7. QED
  BY <1>2, <1>3, <1>4, <1>5, <1>6 DEF IInv, LockInv

(* What a run is rebased onto, and begun from, is a conversation. *)
LEMMA HistoryType ==
    ASSUME TypeOK, NEW k \in Keys
    PROVE  /\ History(k) \in Seq(Message) /\ Revision(k) \in Nat
           /\ Live(k) => History(k) = store[k].conv /\ Revision(k) = store[k].rev
<1>1. CASE Live(k)
  <2>1. store[k] \in Entry
    BY <1>1 DEF TypeOK, Live
  <2>2. QED
    BY <1>1, <2>1 DEF History, Revision, Entry
<1>2. CASE ~Live(k)
  BY <1>2 DEF History, Revision
<1>3. QED
  BY <1>1, <1>2

LEMMA RebasedType ==
    ASSUME TypeOK, NEW r \in Run
    PROVE  /\ Rebased(r) \in Run
           /\ Rebased(r).key = r.key /\ Rebased(r).nested = r.nested
           /\ \/ Rebased(r) = r /\ Revision(r.key) = r.rev
              \/ /\ Rebased(r).rev = Revision(r.key)
                 /\ Carried(History(r.key)) \subseteq Carried(Rebased(r).conv)
<1> DEFINE base == History(r.key)
           own == SubSeq(r.conv, r.turn_start + 1, Len(r.conv))
<1>1. r.key \in Keys /\ r.conv \in Seq(Message) /\ r.turn_start \in Nat
  BY DEF Run
<1>2. base \in Seq(Message) /\ Revision(r.key) \in Nat
  BY <1>1, HistoryType
<1>3. Len(base) \in Nat /\ Len(r.conv) \in Nat
  BY <1>1, <1>2, LenProperties
<1>4. own \in Seq(Message)
  BY <1>1, <1>3, SliceType
<1>5. base \o own \in Seq(Message) /\ Carried(base) \subseteq Carried(base \o own)
  BY <1>2, <1>4, JoinType
<1>6. CASE Revision(r.key) = r.rev
  BY <1>6 DEF Rebased
<1>7. CASE Revision(r.key) # r.rev
  <2>1. Rebased(r) = [r EXCEPT !.conv = base \o own, !.turn_start = Len(base),
                               !.rev = Revision(r.key)]
    BY <1>7 DEF Rebased
  <2> DEFINE both == base \o own
             rev == Revision(r.key)
  <2>0. both \in Seq(Message) /\ Len(base) \in Nat /\ rev \in Nat
    BY <1>2, <1>3, <1>5
  <2> HIDE DEF base, own, both, rev
  <2>2. Rebased(r) \in Run
    <3>1. Rebased(r) = [r EXCEPT !.conv = both, !.turn_start = Len(base), !.rev = rev]
      BY <2>1, Zenon DEF both, rev
    <3>2. QED
      BY <2>0, <3>1 DEF Run
  <2>3. /\ Rebased(r).key = r.key /\ Rebased(r).nested = r.nested
        /\ Rebased(r).rev = Revision(r.key) /\ Rebased(r).conv = base \o own
    BY <2>1 DEF Run
  <2>4. Carried(base) \subseteq Carried(Rebased(r).conv)
    BY <1>5, <2>3
  <2>5. QED
    BY <2>2, <2>3, <2>4, Zenon DEF base
<1>8. QED
  BY <1>6, <1>7

(* Saving keeps the store's type: the saved entry is bounded, and the rest *)
(* only goes.                                                              *)
LEMMA SaveType ==
    ASSUME TypeOK, NEW k \in Keys, NEW conv \in Seq(Message), Save(k, conv)
    PROVE  /\ store' \in [Keys -> Entry \cup {None}]
           /\ store'[k] = [conv |-> Bound(conv), rev |-> revisions + 1]
           /\ \A j \in Keys \ {k} : store'[j] = store[j] \/ store'[j] = None
           /\ revisions' = revisions + 1
<1> DEFINE entry == [conv |-> Bound(conv), rev |-> revisions + 1]
<1>1. entry \in Entry
  BY BoundType DEF Entry, TypeOK
<1>2. PICK gone : store' = [j \in Keys |-> IF j = k THEN entry
                                          ELSE IF j \in gone THEN None ELSE store[j]]
  BY Zenon DEF Save
<1>3. \A j \in Keys : store[j] \in Entry \cup {None}
  BY DEF TypeOK
<1>4. revisions' = revisions + 1
  BY DEF Save
<1> HIDE DEF entry
<1>5. store' \in [Keys -> Entry \cup {None}]
  BY <1>1, <1>2, <1>3
<1>6. store'[k] = entry /\ \A j \in Keys \ {k} : store'[j] = store[j] \/ store'[j] = None
  BY <1>2
<1>7. QED
  BY <1>4, <1>5, <1>6 DEF entry

(* Entering a session only removes entries. *)
LEMMA EnterType ==
    ASSUME TypeOK, NEW k \in Keys, Load(k) \/ Remove(k)
    PROVE  /\ store' \in [Keys -> Entry \cup {None}]
           /\ \A j \in Keys : store'[j] = store[j] \/ store'[j] = None
           /\ ~Live(k) => store'[k] = None
           /\ Remove(k) => store'[k] = None
           /\ revisions' = revisions
<1>1. CASE Remove(k)
  BY <1>1 DEF Remove, TypeOK
<1>2. CASE Load(k) /\ Live(k)
  <2>1. store' = store /\ revisions' = revisions
    BY <1>2 DEF Load
  <2>2. store' \in [Keys -> Entry \cup {None}]
    BY <2>1 DEF TypeOK
  <2>3. Remove(k) => store'[k] = None
    BY DEF Remove, TypeOK
  <2>4. QED
    BY <1>2, <2>1, <2>2, <2>3
<1>3. CASE Load(k) /\ ~Live(k)
  <2>1. Remove(k)
    BY <1>3 DEF Load
  <2>2. QED
    BY <1>1, <2>1
<1>4. QED
  BY <1>1, <1>2, <1>3

-----------------------------------------------------------------------------
(* Type correctness *)

(* The lock passes from task to task. *)
LEMMA DropLockType ==
    ASSUME TypeOK, NEW t \in Tasks, DropLock(t)
    PROVE  /\ arc' \in [Tasks -> Locks \cup {None}]
           /\ holder' \in [Locks -> Tasks \cup {None}]
           /\ waiters' \in [Locks -> Seq(Tasks)]
           /\ lockOf' = lockOf
<1> DEFINE l == arc[t]
<1>1. arc' \in [Tasks -> Locks \cup {None}] /\ lockOf' = lockOf
  BY DEF DropLock, TypeOK
<1>2. CASE l = None
  BY <1>1, <1>2 DEF DropLock, TypeOK
<1>3. CASE l # None /\ holder[l] # t
  <2>1. PICK i \in DOMAIN waiters[l] :
            waiters' = [waiters EXCEPT ![l] = SubSeq(waiters[l], 1, i - 1)
                                              \o SubSeq(waiters[l], i + 1, Len(waiters[l]))]
    BY <1>3 DEF DropLock
  <2>2. l \in Locks /\ waiters[l] \in Seq(Tasks)
    BY <1>3 DEF TypeOK
  <2>3. Len(waiters[l]) \in Nat /\ i \in 1..Len(waiters[l])
    BY <2>2, LenProperties
  <2>4. \A j \in 1..Len(waiters[l]) : waiters[l][j] \in Tasks
    BY <2>2, ElementOfSeq
  <2>5. /\ SubSeq(waiters[l], 1, i - 1) \in Seq(Tasks)
        /\ SubSeq(waiters[l], i + 1, Len(waiters[l])) \in Seq(Tasks)
    BY <2>3, <2>4, SubSeqProperties
  <2>6. waiters' \in [Locks -> Seq(Tasks)]
    BY <2>1, <2>2, <2>5, ConcatProperties DEF TypeOK
  <2>7. holder' = holder
    BY <1>3 DEF DropLock
  <2>8. QED
    BY <1>1, <2>6, <2>7 DEF TypeOK
<1>4. CASE l # None /\ holder[l] = t /\ waiters[l] = <<>>
  BY <1>1, <1>4 DEF DropLock, TypeOK
<1>5. CASE l # None /\ holder[l] = t /\ waiters[l] # <<>>
  <2>1. l \in Locks /\ waiters[l] \in Seq(Tasks)
    BY <1>5 DEF TypeOK
  <2>2. Head(waiters[l]) \in Tasks /\ Tail(waiters[l]) \in Seq(Tasks)
    BY <1>5, <2>1, HeadTailProperties
  <2>3. /\ holder' = [holder EXCEPT ![l] = Head(waiters[l])]
        /\ waiters' = [waiters EXCEPT ![l] = Tail(waiters[l])]
    BY <1>5 DEF DropLock
  <2>4. QED
    BY <1>1, <2>2, <2>3 DEF TypeOK
<1>6. QED
  BY <1>2, <1>3, <1>4, <1>5

LEMMA SaidMessage == \A u \in Turns, first \in BOOLEAN : Said(u, first) \in Message
  BY DEF Said, Message

(* What a step inside a session makes of the run: it stays on its session, *)
(* and what it carries only grows.                                         *)
LEMMA RunStep ==
    ASSUME TypeOK, Placed, NEW t \in Tasks,
           Begin(t) \/ Resume(t) \/ Speak(t) \/ Compact(t) \/ Finish(t) \/ Suspend(t)
    PROVE  /\ run[t] \in Run /\ run'[t] \in Run /\ run' = [run EXCEPT ![t] = run'[t]]
           /\ run'[t].key = run[t].key /\ run'[t].nested = run[t].nested
           /\ ~Begin(t) /\ ~Resume(t) => /\ run'[t].rev = run[t].rev
                                         /\ Carried(run[t].conv) \subseteq Carried(run'[t].conv)
           /\ Begin(t) => IF run[t].reset THEN run'[t].rev = 0
                          ELSE /\ run'[t].rev = Revision(run[t].key)
                               /\ Carried(History(run[t].key)) \subseteq Carried(run'[t].conv)
<1> DEFINE r == run[t]
<1>1. r \in Run /\ r.key \in Keys /\ r.turn \in Turns /\ r.conv \in Seq(Message)
  BY DEF Placed, Begin, Resume, MayEnter, Speak, Compact, Finish, Suspend, Run
<1>2. CASE Begin(t)
  <2> DEFINE base == IF r.reset THEN <<>> ELSE History(r.key)
             rev == IF r.reset THEN 0 ELSE Revision(r.key)
             conv == Append(base, Said(r.turn, TRUE))
             new == [r EXCEPT !.conv = conv, !.turn_start = Len(base), !.rev = rev]
  <2>1. base \in Seq(Message) /\ rev \in Nat
    BY <1>1, HistoryType, EmptySeq
  <2>2. conv \in Seq(Message) /\ Len(base) \in Nat /\ Carried(base) \subseteq Carried(conv)
    BY <1>1, <2>1, SaidMessage, SaidType, LenProperties
  <2>3. run' = [run EXCEPT ![t] = new] /\ ~(pc[t] = "running")
    BY <1>2 DEF Begin, MayEnter, TypeOK
  <2>4. /\ r.reset => rev = 0
        /\ ~r.reset => base = History(r.key) /\ rev = Revision(r.key)
    OBVIOUS
  <2> HIDE DEF base, rev, conv
  <2>5. /\ new \in Run /\ new.key = r.key /\ new.nested = r.nested
        /\ new.rev = rev /\ new.conv = conv
    BY <1>1, <2>1, <2>2 DEF Run
  <2> HIDE DEF new
  <2>6. run'[t] = new
    BY <2>3 DEF TypeOK
  <2>7. QED
    BY <1>1, <1>2, <2>2, <2>3, <2>4, <2>5, <2>6
<1>3. CASE Resume(t)
  <2>1. run' = [run EXCEPT ![t] = Rebased(r)] /\ ~(Begin(t))
    BY <1>3 DEF Resume, Begin
  <2>2. /\ Rebased(r) \in Run /\ Rebased(r).key = r.key /\ Rebased(r).nested = r.nested
    BY <1>1, RebasedType
  <2>3. run'[t] = Rebased(r)
    BY <2>1 DEF TypeOK
  <2>4. QED
    BY <1>1, <1>3, <2>1, <2>2, <2>3
<1>4. ASSUME pc[t] = "running" PROVE ~Begin(t) /\ ~Resume(t)
  BY <1>4 DEF Begin, Resume, MayEnter
<1>5. CASE Speak(t)
  <2> DEFINE conv == Append(r.conv, Said(r.turn, FALSE))
             new == [r EXCEPT !.conv = conv]
  <2>1. conv \in Seq(Message) /\ Carried(r.conv) \subseteq Carried(conv)
    BY <1>1, SaidMessage, SaidType
  <2>2. run' = [run EXCEPT ![t] = new] /\ pc[t] = "running"
    BY <1>5 DEF Speak, TypeOK
  <2> HIDE DEF conv
  <2>3. /\ new \in Run /\ new.key = r.key /\ new.nested = r.nested
        /\ new.rev = r.rev /\ new.conv = conv
    BY <1>1, <2>1 DEF Run
  <2> HIDE DEF new
  <2>4. run'[t] = new
    BY <2>2 DEF TypeOK
  <2>5. QED
    BY <1>1, <1>4, <2>1, <2>2, <2>3, <2>4
<1>6. CASE Compact(t)
  <2>1. pc[t] = "running"
    BY <1>6 DEF Compact
  <2>2. PICK cut \in 2 .. Len(r.conv) - 1 : run' = [run EXCEPT ![t] = Compacted(r, cut)]
    BY <1>6 DEF Compact
  <2>3. /\ Compacted(r, cut) \in Run /\ Carried(r.conv) \subseteq Carried(Compacted(r, cut).conv)
        /\ Compacted(r, cut).key = r.key /\ Compacted(r, cut).nested = r.nested
        /\ Compacted(r, cut).rev = r.rev
    <3>1. /\ Compacted(r, cut) \in Run /\ Carried(r.conv) \subseteq Carried(Compacted(r, cut).conv)
          /\ Compacted(r, cut) = [r EXCEPT !.conv = Compacted(r, cut).conv,
                                           !.turn_start = Compacted(r, cut).turn_start]
      BY <1>1, CompactedType
    <3>2. QED
      BY <1>1, <3>1 DEF Run
  <2>4. run'[t] = Compacted(r, cut)
    BY <2>2 DEF TypeOK
  <2>5. QED
    BY <1>1, <1>4, <2>1, <2>2, <2>3, <2>4
<1>7. CASE Finish(t) \/ Suspend(t)
  <2>1. run' = run /\ pc[t] = "running"
    BY <1>7 DEF Finish, Suspend
  <2>2. QED
    BY <1>1, <1>4, <2>1 DEF TypeOK
<1>8. QED
  BY <1>2, <1>3, <1>5, <1>6, <1>7

LEMMA TypeStep == TypeOK /\ Placed /\ [Next]_vars => TypeOK'
<1>1. SUFFICES ASSUME TypeOK, Placed, [Next]_vars PROVE TypeOK'
  OBVIOUS
<1>2. ASSUME NEW t \in Tasks, NEW k \in Keys, NEW nested \in BOOLEAN, NEW reset \in BOOLEAN,
             Arrive(t, k, nested, reset)
      PROVE  TypeOK'
  <2>1. [turn |-> nextTurn, key |-> k, nested |-> nested, reset |-> reset,
         conv |-> <<>>, turn_start |-> 0, rev |-> 0, resumed |-> FALSE] \in Run
    BY <1>2 DEF Arrive, Run
  <2>2. run' \in [Tasks -> Run \cup {None}]
    BY <1>1, <1>2, <2>1 DEF Arrive, TypeOK
  <2>3. QED
    BY <1>1, <1>2, <2>2 DEF TypeOK, Arrive, lockVars, storeVars, approvalVars
<1>3. ASSUME NEW t \in Tasks, CloneLock(t) PROVE TypeOK'
  <2>1. run[t] \in Run /\ run[t].key \in Keys
    BY <1>1, <1>3 DEF Placed, CloneLock, Run
  <2>2. KeptLocks(run[t].key) \in [Keys -> Locks \cup {None}]
    BY <1>1 DEF KeptLocks, TypeOK
  <2>3. QED
    BY <1>1, <1>3, <2>1, <2>2 DEF TypeOK, CloneLock, storeVars, approvalVars
<1>4. ASSUME NEW t \in Tasks, Enqueue(t) PROVE TypeOK'
  <2>1. arc[t] \in Locks
    BY <1>1, <1>4 DEF Placed, Enqueue, TypeOK
  <2>2. Append(waiters[arc[t]], t) \in Seq(Tasks)
    BY <1>1, <2>1, AppendProperties DEF TypeOK
  <2>3. QED
    BY <1>1, <1>4, <2>1, <2>2 DEF TypeOK, Enqueue, storeVars, approvalVars
<1>5. ASSUME NEW t \in Tasks, Leave(t) \/ Abandon(t) PROVE TypeOK'
  <2>1. DropLock(t)
    BY <1>5 DEF Leave, Abandon
  <2>2. pc' = [pc EXCEPT ![t] = "idle"] /\ run' = [run EXCEPT ![t] = None]
    BY <1>5 DEF Leave, Abandon
  <2>3. UNCHANGED <<storeVars, approvalVars, nextTurn>>
    BY <1>5 DEF Leave, Abandon
  <2>4. QED
    BY <1>1, <2>1, <2>2, <2>3, DropLockType DEF TypeOK, storeVars, approvalVars
<1>6. ASSUME NEW t \in Tasks, Begin(t) \/ Resume(t) PROVE TypeOK'
  <2>1. run' \in [Tasks -> Run \cup {None}] /\ run[t].key \in Keys
    BY <1>1, <1>6, RunStep DEF TypeOK, Run
  <2>2. Load(run[t].key) \/ Remove(run[t].key)
    BY <1>6 DEF Begin, Resume
  <2>3. store' \in [Keys -> Entry \cup {None}] /\ revisions' = revisions
    BY <1>1, <2>1, <2>2, EnterType
  <2>4. pc' = [pc EXCEPT ![t] = "running"] /\ UNCHANGED <<lockVars, approvalVars, nextTurn>>
    BY <1>6 DEF Begin, Resume
  <2>5. QED
    BY <1>1, <2>1, <2>3, <2>4 DEF TypeOK, lockVars, approvalVars
<1>8. ASSUME NEW t \in Tasks, Speak(t) \/ Compact(t) PROVE TypeOK'
  <2>1. run' \in [Tasks -> Run \cup {None}]
    BY <1>1, <1>8, RunStep DEF TypeOK
  <2>2. UNCHANGED <<pc, lockVars, storeVars, approvalVars, nextTurn>>
    BY <1>8 DEF Speak, Compact
  <2>3. QED
    BY <1>1, <2>1, <2>2 DEF TypeOK, lockVars, storeVars, approvalVars
<1>10. ASSUME NEW t \in Tasks, Finish(t) PROVE TypeOK'
  <2>1. run[t] \in Run /\ run[t].key \in Keys /\ run[t].conv \in Seq(Message)
    BY <1>1, <1>10 DEF Placed, Finish, Run
  <2>2. store' \in [Keys -> Entry \cup {None}] /\ revisions' = revisions + 1
    BY <1>1, <1>10, <2>1, SaveType DEF Finish
  <2>3. QED
    BY <1>1, <1>10, <2>2 DEF TypeOK, Finish, lockVars, approvalVars
<1>11. ASSUME NEW t \in Tasks, Suspend(t) PROVE TypeOK'
  <2>1. run[t] \in Run
    BY <1>1, <1>11 DEF Placed, Suspend
  <2>2. [id |-> nextApproval, run |-> run[t]] \in Suspended
    BY <1>1, <2>1 DEF TypeOK, Suspended
  <2>3. approvals' \subseteq approvals \cup {[id |-> nextApproval, run |-> run[t]]}
    BY <1>11 DEF Suspend, Pending
  <2>4. approvals' \subseteq Suspended /\ nextApproval' \in Nat
    BY <1>1, <1>11, <2>2, <2>3 DEF TypeOK, Suspend
  <2>5. QED
    BY <1>1, <1>11, <2>4 DEF TypeOK, Suspend, lockVars, storeVars
<1>12. ASSUME NEW t \in Tasks, NEW a \in approvals, Resolve(t, a) PROVE TypeOK'
  <2>1. a.run \in Run
    BY <1>1 DEF TypeOK, Suspended
  <2>2. [a.run EXCEPT !.resumed = TRUE] \in Run
    BY <2>1 DEF Run
  <2>3. run' \in [Tasks -> Run \cup {None}]
    BY <1>1, <1>12, <2>2 DEF Resolve, TypeOK
  <2>4. pc' \in [Tasks -> {"idle", "arrived", "cloned", "waiting", "entering", "running", "leaving"}]
    BY <1>1, <1>12 DEF Resolve, TypeOK
  <2>5. approvals' \subseteq Suspended
    BY <1>1, <1>12 DEF Resolve, TypeOK
  <2>6. QED
    BY <1>1, <1>12, <2>3, <2>4, <2>5 DEF TypeOK, Resolve, lockVars, storeVars
<1>13. CASE ListApprovals
  BY <1>1, <1>13 DEF TypeOK, ListApprovals, Pending, lockVars, storeVars
<1>14. CASE SessionExpires
  BY <1>1, <1>14 DEF TypeOK, SessionExpires, lockVars, approvalVars
<1>15. CASE ApprovalExpires
  BY <1>1, <1>15 DEF TypeOK, ApprovalExpires, lockVars, storeVars
<1>16. CASE UNCHANGED vars
  BY <1>1, <1>16 DEF TypeOK, vars, lockVars, storeVars, approvalVars
<1>17. QED
  BY <1>1, <1>2, <1>3, <1>4, <1>5, <1>6, <1>8, <1>10, <1>11, <1>12,
     <1>13, <1>14, <1>15, <1>16 DEF Next

-----------------------------------------------------------------------------
(* The turn lock *)

(* A queue without its i-th waiter. *)
LEMMA RemovedType ==
    ASSUME NEW q \in Seq(Tasks), NEW i \in DOMAIN q
    PROVE  LET rest == SubSeq(q, 1, i - 1) \o SubSeq(q, i + 1, Len(q))
           IN  /\ rest \in Seq(Tasks) /\ Len(rest) = Len(q) - 1
               /\ \A j \in DOMAIN rest : /\ j \in 1..Len(q) /\ j + 1 \in 1..Len(q)
                                         /\ rest[j] = IF j < i THEN q[j] ELSE q[j + 1]
<1> DEFINE a == SubSeq(q, 1, i - 1)
           b == SubSeq(q, i + 1, Len(q))
<1>1. Len(q) \in Nat /\ i \in 1..Len(q)
  BY LenProperties
<1>2. \A j \in 1..Len(q) : q[j] \in Tasks
  BY ElementOfSeq
<1>3. /\ a \in Seq(Tasks) /\ Len(a) = i - 1
      /\ \A j \in 1..(i - 1) : a[j] = q[j]
  BY <1>1, <1>2, SubSeqProperties
<1>4. /\ b \in Seq(Tasks) /\ Len(b) = Len(q) - i
      /\ \A j \in 1..(Len(q) - i) : b[j] = q[i + j]
  BY <1>1, <1>2, SubSeqProperties
<1> HIDE DEF a, b
<1> DEFINE rest == a \o b
<1>5. /\ rest \in Seq(Tasks) /\ Len(rest) = Len(q) - 1
      /\ \A j \in 1..(Len(q) - 1) : rest[j] = IF j <= i - 1 THEN a[j] ELSE b[j - (i - 1)]
  BY <1>1, <1>3, <1>4, ConcatProperties, SMTT(30)
<1>6. DOMAIN rest = 1..(Len(q) - 1)
  BY <1>5, LenProperties
<1> HIDE DEF rest
<1>7. ASSUME NEW j \in 1..(Len(q) - 1)
      PROVE  /\ j \in 1..Len(q) /\ j + 1 \in 1..Len(q)
             /\ rest[j] = IF j < i THEN q[j] ELSE q[j + 1]
  <2>1. CASE j < i
    <3>1. rest[j] = a[j]
      BY <1>1, <1>5, <2>1
    <3>2. a[j] = q[j]
      BY <1>1, <1>3, <2>1
    <3>3. j \in 1..Len(q) /\ j + 1 \in 1..Len(q)
      BY <1>1
    <3>4. QED
      BY <2>1, <3>1, <3>2, <3>3
  <2>2. CASE j >= i
    <3>1. rest[j] = b[j - (i - 1)]
      BY <1>1, <1>5, <2>2
    <3>2. j - (i - 1) \in 1..(Len(q) - i) /\ i + (j - (i - 1)) = j + 1
      BY <1>1, <2>2
    <3>3. b[j - (i - 1)] = q[j + 1]
      BY <1>4, <3>2
    <3>4. rest[j] = q[j + 1] /\ ~(j < i)
      BY <1>1, <2>2, <3>1, <3>3
    <3>5. j \in 1..Len(q) /\ j + 1 \in 1..Len(q)
      BY <1>1
    <3>6. QED
      BY <3>4, <3>5
  <2>3. QED
    BY <1>1, <2>1, <2>2
<1>8. QED
  BY <1>5, <1>6, <1>7 DEF a, b, rest

(* A task that goes idle leaves the lock and its queue in order. *)
LEMMA DropLockKeeps ==
    ASSUME LockInv, NEW t \in Tasks, DropLock(t),
           pc[t] \in {"waiting", "running", "leaving"},
           pc' = [pc EXCEPT ![t] = "idle"], run' = [run EXCEPT ![t] = None]
    PROVE  Placed' /\ OwnLocks' /\ Queued'
<1> DEFINE l == arc[t]
<1>1. TypeOK /\ Placed /\ OwnLocks /\ Queued
  BY DEF LockInv
<1>2. lockOf' = lockOf /\ arc' = [arc EXCEPT ![t] = None]
  BY DEF DropLock
<1>3. OwnLocks'
  BY <1>1, <1>2 DEF OwnLocks
<1>4. /\ \A u \in Tasks \ {t} : pc'[u] = pc[u] /\ run'[u] = run[u] /\ arc'[u] = arc[u]
      /\ pc'[t] = "idle" /\ arc'[t] = None
  BY <1>1, <1>2 DEF TypeOK
(* Whoever held a lock besides t holds it still. *)
<1>5. ASSUME \A m \in Locks : holder[m] # None /\ holder[m] # t => holder'[m] = holder[m]
      PROVE  Placed'
  <2>1. ASSUME NEW u \in Tasks, InTurn(u), u # t
        PROVE  arc[u] # None /\ holder'[arc[u]] = u
    <3>1. arc[u] # None /\ holder[arc[u]] = u /\ arc[u] \in Locks
      BY <1>1, <2>1 DEF Placed, TypeOK
    <3>2. QED
      BY <1>5, <2>1, <3>1, TurnsAssumption
  <2>2. ASSUME NEW u \in Tasks, u # t
        PROVE  InTurn(u)' => InTurn(u)
    BY <1>4, <2>2 DEF InTurn
  <2>3. ASSUME NEW u \in Tasks, u # t
        PROVE  /\ pc'[u] # "idle" => run'[u] \in Run
               /\ pc'[u] \in {"idle", "arrived", "entering"} => arc'[u] = None
               /\ pc'[u] \in {"cloned", "waiting"} => arc'[u] # None
               /\ pc'[u] = "entering" => run'[u].nested
               /\ pc'[u] = "arrived" => ~run'[u].nested
               /\ arc'[u] # None => ~run'[u].nested /\ lockOf'[run'[u].key] = arc'[u]
    BY <1>1, <1>2, <1>4, <2>3 DEF Placed
  <2>4. ASSUME NEW u \in Tasks, InTurn(u)'
        PROVE  arc'[u] # None /\ holder'[arc'[u]] = u
    <3>1. u # t
      BY <1>4, <2>4 DEF InTurn
    <3>2. QED
      BY <1>4, <2>1, <2>2, <2>4, <3>1
  <2>5. QED
    BY <1>4, <2>3, <2>4 DEF Placed
<1>6. CASE l = None
  <2>1. holder' = holder /\ waiters' = waiters
    BY <1>6 DEF DropLock
  <2>2. \A m \in Locks : holder[m] # t
    BY <1>1, <1>6, TurnsAssumption DEF Queued
  <2>3. \A m \in Locks : \A i \in DOMAIN waiters[m] : waiters[m][i] # t /\ waiters[m][i] \in Tasks
    <3>1. ASSUME NEW m \in Locks, NEW i \in DOMAIN waiters[m]
          PROVE  arc[waiters[m][i]] = m /\ waiters[m][i] \in Tasks
      <4>1. waiters[m] \in Seq(Tasks)
        BY <1>1 DEF TypeOK
      <4>2. i \in 1..Len(waiters[m])
        BY <4>1, LenProperties
      <4>3. QED
        BY <1>1, <4>1, <4>2, ElementOfSeq DEF Queued
    <3>2. QED
      BY <1>6, <3>1, TurnsAssumption
  <2>4. Queued'
    BY <1>1, <1>4, <2>1, <2>2, <2>3 DEF Queued, TypeOK
  <2>5. QED
    BY <1>3, <1>5, <2>1, <2>4
<1>7. l # None => l \in Locks /\ waiters[l] \in Seq(Tasks)
  BY <1>1 DEF TypeOK
<1>8. ASSUME NEW m \in Locks, NEW i \in DOMAIN waiters[m]
      PROVE  /\ waiters[m][i] \in Tasks
             /\ pc[waiters[m][i]] = "waiting" /\ arc[waiters[m][i]] = m /\ holder[m] # waiters[m][i]
  <2>1. waiters[m] \in Seq(Tasks)
    BY <1>1 DEF TypeOK
  <2>2. i \in 1..Len(waiters[m])
    BY <2>1, LenProperties
  <2>3. QED
    BY <1>1, <2>1, <2>2, ElementOfSeq DEF Queued
<1>9. CASE l # None /\ holder[l] # t
  <2>1. PICK i \in DOMAIN waiters[l] :
            /\ waiters[l][i] = t
            /\ waiters' = [waiters EXCEPT ![l] = SubSeq(waiters[l], 1, i - 1)
                                              \o SubSeq(waiters[l], i + 1, Len(waiters[l]))]
    BY <1>9 DEF DropLock
  <2>2. holder' = holder
    BY <1>9 DEF DropLock
  <2> DEFINE rest == SubSeq(waiters[l], 1, i - 1) \o SubSeq(waiters[l], i + 1, Len(waiters[l]))
  <2>3. /\ rest \in Seq(Tasks)
        /\ \A j \in DOMAIN rest : /\ j \in 1..Len(waiters[l]) /\ j + 1 \in 1..Len(waiters[l])
                                  /\ rest[j] = IF j < i THEN waiters[l][j] ELSE waiters[l][j + 1]
    BY <1>7, <1>9, RemovedType
  <2>4. /\ waiters'[l] = rest /\ \A m \in Locks \ {l} : waiters'[m] = waiters[m]
    BY <1>1, <1>7, <1>9, <2>1 DEF TypeOK
  <2> HIDE DEF rest
  <2>5. DOMAIN waiters[l] = 1..Len(waiters[l]) /\ Len(waiters[l]) \in Nat /\ i \in Nat
    BY <1>7, <1>9, LenProperties
  <2>6. \A j \in DOMAIN rest : \E n \in DOMAIN waiters[l] :
            n # i /\ rest[j] = waiters[l][n] /\ n = IF j < i THEN j ELSE j + 1
    BY <2>3, <2>5
  <2>7. \A j, n \in DOMAIN waiters[l] : waiters[l][j] = waiters[l][n] => j = n
    BY <1>1, <1>7, <1>9 DEF Queued
  <2>8. \A j \in DOMAIN rest : rest[j] # t
    BY <2>1, <2>6, <2>7
  <2>9. \A j, n \in DOMAIN rest : rest[j] = rest[n] => j = n
    <3>1. \A j \in DOMAIN rest : j \in Nat
      BY <2>3, <2>5
    <3>2. SUFFICES ASSUME NEW j \in DOMAIN rest, NEW n \in DOMAIN rest, rest[j] = rest[n]
                   PROVE  j = n
      OBVIOUS
    <3>3. (IF j < i THEN j ELSE j + 1) = (IF n < i THEN n ELSE n + 1)
      BY <2>6, <2>7, <3>2
    <3>4. QED
      BY <2>5, <3>1, <3>3
  <2>10. ASSUME NEW m \in Locks
         PROVE  /\ holder'[m] # None => arc'[holder'[m]] = m /\ pc'[holder'[m]] # "cloned"
    <3>1. holder[m] # t
      <4>1. CASE m = l
        BY <1>9, <4>1
      <4>2. CASE m # l
        BY <1>1, <4>2, TurnsAssumption DEF Queued
      <4>3. QED
        BY <4>1, <4>2
    <3>2. QED
      BY <1>1, <1>4, <2>2, <3>1 DEF Queued, TypeOK
  <2>11. ASSUME NEW m \in Locks, NEW j \in DOMAIN waiters'[m]
         PROVE  LET u == waiters'[m][j]
                IN  pc'[u] = "waiting" /\ arc'[u] = m /\ holder'[m] # u
    <3>1. CASE m = l
      BY <1>4, <1>7, <1>8, <1>9, <2>2, <2>4, <2>6, <2>8, <3>1
    <3>2. CASE m # l
      BY <1>4, <1>8, <2>2, <2>4, <3>2
    <3>3. QED
      BY <3>1, <3>2
  <2>12. ASSUME NEW m \in Locks
         PROVE  \A j, n \in DOMAIN waiters'[m] : waiters'[m][j] = waiters'[m][n] => j = n
    BY <1>1, <2>4, <2>9 DEF Queued
  <2>13. Queued'
    BY <2>10, <2>11, <2>12 DEF Queued
  <2>14. QED
    BY <1>3, <1>5, <2>2, <2>13
<1>10. CASE l # None /\ holder[l] = t
  <2>1. \A m \in Locks \ {l} : holder[m] # t
    BY <1>1, <1>10, TurnsAssumption DEF Queued
  <2>2. \A m \in Locks \ {l} : \A i \in DOMAIN waiters[m] : waiters[m][i] # t
    BY <1>8
  <2>3. \A i \in DOMAIN waiters[l] : waiters[l][i] # t
    BY <1>7, <1>8, <1>10
  <2>4. \A m \in Locks \ {l} : holder'[m] = holder[m] /\ waiters'[m] = waiters[m]
    BY <1>1, <1>10 DEF DropLock, TypeOK
  <2>5. ASSUME NEW m \in Locks, m # l
        PROVE  /\ holder'[m] # None => arc'[holder'[m]] = m /\ pc'[holder'[m]] # "cloned"
               /\ \A j \in DOMAIN waiters'[m] :
                    LET u == waiters'[m][j] IN pc'[u] = "waiting" /\ arc'[u] = m /\ holder'[m] # u
               /\ \A j, n \in DOMAIN waiters'[m] : waiters'[m][j] = waiters'[m][n] => j = n
    <3>1. holder'[m] # None => arc'[holder'[m]] = m /\ pc'[holder'[m]] # "cloned"
      BY <1>1, <1>4, <2>1, <2>4, <2>5 DEF Queued, TypeOK
    <3>2. \A j \in DOMAIN waiters'[m] :
            LET u == waiters'[m][j] IN pc'[u] = "waiting" /\ arc'[u] = m /\ holder'[m] # u
      BY <1>4, <1>8, <2>2, <2>4, <2>5
    <3>3. QED
      BY <1>1, <2>4, <2>5, <3>1, <3>2 DEF Queued
  <2>6. \A m \in Locks : holder[m] # None /\ holder[m] # t => holder'[m] = holder[m]
    BY <1>10, <2>4
  <2>7. CASE waiters[l] = <<>>
    <3>1. waiters' = waiters /\ holder'[l] = None
      BY <1>1, <1>7, <1>10, <2>7 DEF DropLock, TypeOK
    <3>2. Queued'
      BY <2>5, <2>7, <3>1 DEF Queued
    <3>3. QED
      BY <1>3, <1>5, <2>6, <3>2
  <2>8. CASE waiters[l] # <<>>
    <3>1. holder'[l] = Head(waiters[l]) /\ waiters'[l] = Tail(waiters[l])
      BY <1>1, <1>7, <1>10, <2>8 DEF DropLock, TypeOK
    <3>2. /\ Len(waiters[l]) \in Nat /\ DOMAIN waiters[l] = 1..Len(waiters[l])
          /\ Len(waiters[l]) > 0
      BY <1>7, <1>10, <2>8, LenProperties, EmptySeq
    <3>3. Head(waiters[l]) = waiters[l][1] /\ 1 \in DOMAIN waiters[l]
      BY <1>7, <1>10, <2>8, <3>2
    <3>4. /\ Tail(waiters[l]) \in Seq(Tasks)
          /\ DOMAIN Tail(waiters[l]) = 1..(Len(waiters[l]) - 1)
          /\ \A j \in 1..(Len(waiters[l]) - 1) : Tail(waiters[l])[j] = waiters[l][j + 1]
      BY <1>7, <1>10, <2>8, HeadTailProperties, LenProperties
    <3>5. \A j \in DOMAIN Tail(waiters[l]) :
            j + 1 \in DOMAIN waiters[l] /\ Tail(waiters[l])[j] = waiters[l][j + 1] /\ j \in Nat /\ j + 1 # 1
      BY <3>2, <3>4
    <3>6. \A j, n \in DOMAIN waiters[l] : waiters[l][j] = waiters[l][n] => j = n
      BY <1>1, <1>7, <1>10 DEF Queued
    <3>7. \A j \in DOMAIN waiters'[l] :
            LET u == waiters'[l][j] IN pc'[u] = "waiting" /\ arc'[u] = l /\ holder'[l] # u
      BY <1>4, <1>7, <1>8, <1>10, <2>3, <3>1, <3>3, <3>5, <3>6
    <3>8. \A j, n \in DOMAIN waiters'[l] : waiters'[l][j] = waiters'[l][n] => j = n
      BY <3>1, <3>5, <3>6
    <3>9. arc'[holder'[l]] = l /\ pc'[holder'[l]] # "cloned"
      BY <1>4, <1>7, <1>8, <1>10, <2>3, <3>1, <3>3
    <3>10. Queued'
      BY <2>5, <3>7, <3>8, <3>9 DEF Queued
    <3>11. QED
      BY <1>3, <1>5, <2>6, <3>10
  <2>9. QED
    BY <2>7, <2>8
<1>11. QED
  BY <1>6, <1>9, <1>10

(* A task that touches no lock moves while it refers to none, or holds it. *)
LEMMA LockKept ==
    ASSUME LockInv, NEW t \in Tasks, UNCHANGED lockVars,
           \A u \in Tasks \ {t} : pc'[u] = pc[u] /\ run'[u] = run[u],
           pc'[t] # "idle" => run'[t] \in Run,
           pc'[t] \notin {"cloned", "waiting"},
           pc'[t] = "entering" => run'[t].nested,
           pc'[t] = "arrived" => ~run'[t].nested,
           arc[t] = None => ~(InTurn(t)'),
           arc[t] # None => /\ holder[arc[t]] = t
                            /\ pc'[t] \in {"running", "leaving"}
                            /\ run'[t].key = run[t].key /\ run'[t].nested = run[t].nested
    PROVE  Placed' /\ OwnLocks' /\ Queued'
<1>1. TypeOK /\ Placed /\ OwnLocks /\ Queued
  BY DEF LockInv
<1>2. arc' = arc /\ lockOf' = lockOf /\ holder' = holder /\ waiters' = waiters
  BY DEF lockVars
<1>3. OwnLocks'
  BY <1>1, <1>2 DEF OwnLocks
<1>4. ASSUME NEW u \in Tasks, u # t
      PROVE  /\ pc'[u] # "idle" => run'[u] \in Run
             /\ pc'[u] \in {"idle", "arrived", "entering"} => arc'[u] = None
             /\ pc'[u] \in {"cloned", "waiting"} => arc'[u] # None
             /\ pc'[u] = "entering" => run'[u].nested
             /\ pc'[u] = "arrived" => ~run'[u].nested
             /\ InTurn(u)' => arc'[u] # None /\ holder'[arc'[u]] = u
             /\ arc'[u] # None => ~run'[u].nested /\ lockOf'[run'[u].key] = arc'[u]
  BY <1>1, <1>2, <1>4 DEF Placed, InTurn
<1>5. /\ pc'[t] # "idle" => run'[t] \in Run
      /\ pc'[t] \in {"idle", "arrived", "entering"} => arc'[t] = None
      /\ pc'[t] \in {"cloned", "waiting"} => arc'[t] # None
      /\ pc'[t] = "entering" => run'[t].nested
      /\ pc'[t] = "arrived" => ~run'[t].nested
      /\ InTurn(t)' => arc'[t] # None /\ holder'[arc'[t]] = t
      /\ arc'[t] # None => ~run'[t].nested /\ lockOf'[run'[t].key] = arc'[t]
  BY <1>1, <1>2 DEF Placed
<1>6. Placed'
  BY <1>4, <1>5 DEF Placed
<1>7. ASSUME NEW l \in Locks
      PROVE  holder'[l] # None => arc'[holder'[l]] = l /\ pc'[holder'[l]] # "cloned"
  BY <1>1, <1>2 DEF Queued, TypeOK
<1>8. ASSUME NEW l \in Locks, NEW i \in DOMAIN waiters[l]
      PROVE  waiters[l][i] # t /\ waiters[l][i] \in Tasks
  <2>1. waiters[l] \in Seq(Tasks)
    BY <1>1 DEF TypeOK
  <2>2. i \in 1..Len(waiters[l])
    BY <2>1, LenProperties
  <2>3. waiters[l][i] \in Tasks
    BY <2>1, <2>2, ElementOfSeq
  <2>4. arc[waiters[l][i]] = l /\ holder[l] # waiters[l][i]
    BY <1>1 DEF Queued
  <2>5. l # None
    BY TurnsAssumption
  <2>6. QED
    BY <2>3, <2>4, <2>5
<1>9. ASSUME NEW l \in Locks, NEW i \in DOMAIN waiters'[l]
      PROVE  LET u == waiters'[l][i] IN pc'[u] = "waiting" /\ arc'[u] = l /\ holder'[l] # u
  BY <1>1, <1>2, <1>8 DEF Queued
<1>10. Queued'
  BY <1>1, <1>2, <1>7, <1>9 DEF Queued
<1>11. QED
  BY <1>3, <1>6, <1>10

LEMMA LockStep == LockInv /\ [Next]_vars => LockInv'
<1>1. SUFFICES ASSUME LockInv, [Next]_vars PROVE Placed' /\ OwnLocks' /\ Queued'
  BY TypeStep DEF LockInv
<1>2. TypeOK /\ Placed /\ OwnLocks /\ Queued
  BY <1>1 DEF LockInv
<1>3. ASSUME NEW t \in Tasks, NEW k \in Keys, NEW nested \in BOOLEAN, NEW reset \in BOOLEAN,
             Arrive(t, k, nested, reset)
      PROVE  Placed' /\ OwnLocks' /\ Queued'
  <2> DEFINE r == [turn |-> nextTurn, key |-> k, nested |-> nested, reset |-> reset,
                   conv |-> <<>>, turn_start |-> 0, rev |-> 0, resumed |-> FALSE]
  <2>1. r \in Run /\ r.nested = nested
    BY <1>3 DEF Arrive, Run
  <2> HIDE DEF r
  <2>2. arc[t] = None
    BY <1>2, <1>3 DEF Placed, Arrive
  <2>3. /\ \A u \in Tasks \ {t} : pc'[u] = pc[u] /\ run'[u] = run[u]
        /\ run'[t] = r /\ pc'[t] = IF nested THEN "entering" ELSE "arrived"
    BY <1>2, <1>3 DEF Arrive, TypeOK, r
  <2>4. UNCHANGED lockVars
    BY <1>3 DEF Arrive
  <2>5. ~(InTurn(t)')
    BY <2>3 DEF InTurn
  <2>6. QED
    BY <1>1, <2>1, <2>2, <2>3, <2>4, <2>5, LockKept
<1>4. ASSUME NEW t \in Tasks, CloneLock(t) PROVE Placed' /\ OwnLocks' /\ Queued'
  <2> DEFINE k == run[t].key
             kept == KeptLocks(k)
  <2>1. run[t] \in Run /\ k \in Keys /\ arc[t] = None /\ pc[t] = "arrived"
    BY <1>2, <1>4 DEF Placed, CloneLock, Run
  <2>2. PICK l \in Locks :
            /\ IF kept[k] = None THEN IsFresh(l, kept) ELSE l = kept[k]
            /\ lockOf' = [kept EXCEPT ![k] = l]
            /\ arc' = [arc EXCEPT ![t] = l]
    BY <1>4 DEF CloneLock
  <2>3. kept = [j \in Keys |-> IF j = k \/ Referenced(lockOf[j]) THEN lockOf[j] ELSE None]
    BY DEF KeptLocks
  <2> HIDE DEF k, kept
  <2>4. /\ \A j \in Keys \ {k} : lockOf'[j] = kept[j]
        /\ lockOf'[k] = l /\ kept[k] = lockOf[k]
        /\ \A j \in Keys : kept[j] = lockOf[j] \/ kept[j] = None
    BY <2>1, <2>2, <2>3
  <2>5. /\ \A u \in Tasks \ {t} : pc'[u] = pc[u] /\ arc'[u] = arc[u]
        /\ arc'[t] = l /\ pc'[t] = "cloned"
        /\ run' = run /\ holder' = holder /\ waiters' = waiters
    BY <1>2, <1>4, <2>2 DEF CloneLock, TypeOK
  <2>6. ASSUME NEW u \in Tasks, u # t, arc[u] # None
        PROVE  ~run[u].nested /\ lockOf'[run[u].key] = arc[u]
    <3>1. /\ ~run[u].nested /\ lockOf[run[u].key] = arc[u] /\ run[u] \in Run /\ run[u].key \in Keys
      BY <1>2, <2>6 DEF Placed, Run
    <3>2. Referenced(lockOf[run[u].key])
      BY <3>1 DEF Referenced
    <3>3. kept[run[u].key] = lockOf[run[u].key]
      BY <2>3, <3>1, <3>2
    <3>4. CASE run[u].key = k
      BY <2>2, <2>4, <2>6, <3>1, <3>3, <3>4
    <3>5. CASE run[u].key # k
      BY <2>4, <3>1, <3>3, <3>5
    <3>6. QED
      BY <3>1, <3>4, <3>5
  <2>7. OwnLocks'
    <3>1. ASSUME NEW i \in Keys, NEW j \in Keys, lockOf'[i] # None, lockOf'[i] = lockOf'[j],
                 i # k, j = k
          PROVE  FALSE
      <4>1. kept[i] = l /\ kept[i] = lockOf[i] /\ kept[i] # None
        BY <2>4, <3>1
      <4>2. CASE kept[k] = None
        BY <2>2, <4>1, <4>2 DEF IsFresh
      <4>3. CASE kept[k] # None
        BY <1>2, <2>1, <2>2, <2>4, <3>1, <4>1, <4>3 DEF OwnLocks
      <4>4. QED
        BY <4>2, <4>3
    <3>2. ASSUME NEW i \in Keys, NEW j \in Keys, lockOf'[i] # None, lockOf'[i] = lockOf'[j],
                 i # k, j # k
          PROVE  i = j
      BY <1>2, <2>4, <3>2 DEF OwnLocks
    <3>3. QED
      BY <3>1, <3>2 DEF OwnLocks
  <2>8. ASSUME NEW u \in Tasks, u # t
        PROVE  /\ pc'[u] # "idle" => run'[u] \in Run
               /\ pc'[u] \in {"idle", "arrived", "entering"} => arc'[u] = None
               /\ pc'[u] \in {"cloned", "waiting"} => arc'[u] # None
               /\ pc'[u] = "entering" => run'[u].nested
               /\ pc'[u] = "arrived" => ~run'[u].nested
               /\ InTurn(u)' => arc'[u] # None /\ holder'[arc'[u]] = u
               /\ arc'[u] # None => ~run'[u].nested /\ lockOf'[run'[u].key] = arc'[u]
    <3>1. InTurn(u)' => InTurn(u)
      BY <2>5, <2>8 DEF InTurn
    <3>2. QED
      BY <1>2, <2>5, <2>6, <2>8, <3>1 DEF Placed
  <2>9. ~run[t].nested
    BY <1>2, <1>4 DEF CloneLock, Placed
  <2>10. Placed'
    <3>1. l # None /\ ~(InTurn(t)')
      BY <2>5, TurnsAssumption DEF InTurn
    <3>2. QED
      BY <2>1, <2>4, <2>5, <2>8, <2>9, <3>1 DEF Placed, k
  <2>11. Queued'
    <3>1. ASSUME NEW m \in Locks, holder[m] # None
          PROVE  holder[m] # t /\ holder[m] \in Tasks /\ arc[holder[m]] = m /\ pc[holder[m]] # "cloned"
      BY <1>2, <2>1, <3>1, TurnsAssumption DEF Queued, TypeOK
    <3>2. ASSUME NEW m \in Locks, NEW i \in DOMAIN waiters[m]
          PROVE  /\ waiters[m][i] # t /\ waiters[m][i] \in Tasks
                 /\ pc[waiters[m][i]] = "waiting" /\ arc[waiters[m][i]] = m
                 /\ holder[m] # waiters[m][i]
      <4>1. waiters[m] \in Seq(Tasks)
        BY <1>2 DEF TypeOK
      <4>2. i \in 1..Len(waiters[m])
        BY <4>1, LenProperties
      <4>3. QED
        BY <1>2, <2>1, <4>1, <4>2, ElementOfSeq DEF Queued
    <3>3. QED
      BY <1>2, <2>5, <3>1, <3>2 DEF Queued
  <2>12. QED
    BY <2>7, <2>10, <2>11
<1>5. ASSUME NEW t \in Tasks, Enqueue(t) PROVE Placed' /\ OwnLocks' /\ Queued'
  <2> DEFINE l == arc[t]
  <2>1. l \in Locks /\ pc[t] = "cloned" /\ l # None
    BY <1>2, <1>5 DEF Placed, Enqueue, TypeOK
  <2>2. /\ \A u \in Tasks \ {t} : pc'[u] = pc[u]
        /\ pc'[t] = "waiting" /\ run' = run /\ arc' = arc /\ lockOf' = lockOf
    BY <1>2, <1>5 DEF Enqueue, TypeOK
  <2>3. OwnLocks'
    BY <1>2, <2>2 DEF OwnLocks
  <2>4. \A m \in Locks : holder[m] # None => holder'[m] = holder[m]
    BY <1>2, <1>5, <2>1 DEF Enqueue, TypeOK
  <2>5. Placed'
    <3>1. \A u \in Tasks : InTurn(u)' => InTurn(u) /\ u # t
      BY <2>2 DEF InTurn
    <3>2. \A u \in Tasks : InTurn(u) => arc[u] # None /\ holder'[arc[u]] = u
      BY <1>2, <2>4, TurnsAssumption DEF Placed, TypeOK
    <3>3. QED
      BY <1>2, <2>1, <2>2, <3>1, <3>2 DEF Placed
  <2>6. ASSUME NEW m \in Locks, NEW i \in DOMAIN waiters[m]
        PROVE  /\ waiters[m][i] # t /\ waiters[m][i] \in Tasks
               /\ pc[waiters[m][i]] = "waiting" /\ arc[waiters[m][i]] = m
               /\ holder[m] # waiters[m][i]
    <3>1. waiters[m] \in Seq(Tasks)
      BY <1>2 DEF TypeOK
    <3>2. i \in 1..Len(waiters[m])
      BY <3>1, LenProperties
    <3>3. QED
      BY <1>2, <2>1, <3>1, <3>2, ElementOfSeq DEF Queued
  <2>7. CASE holder[l] = None
    <3>1. holder' = [holder EXCEPT ![l] = t] /\ waiters' = waiters
      BY <1>5, <2>7 DEF Enqueue
    <3>2. \A m \in Locks : holder'[m] = IF m = l THEN t ELSE holder[m]
      BY <1>2, <2>1, <3>1 DEF TypeOK
    <3>3. ASSUME NEW m \in Locks, holder'[m] # None
          PROVE  arc'[holder'[m]] = m /\ pc'[holder'[m]] # "cloned"
      <4>1. CASE m = l
        BY <2>1, <2>2, <3>2, <4>1
      <4>2. CASE m # l
        <5>1. holder[m] \in Tasks /\ arc[holder[m]] = m /\ pc[holder[m]] # "cloned"
          BY <1>2, <3>2, <3>3, <4>2 DEF Queued, TypeOK
        <5>2. QED
          BY <2>2, <3>2, <4>2, <5>1
      <4>3. QED
        BY <4>1, <4>2
    <3>4. Queued'
      BY <1>2, <2>2, <2>6, <3>1, <3>2, <3>3 DEF Queued
    <3>5. QED
      BY <2>3, <2>5, <3>4
  <2>8. CASE holder[l] # None
    <3>1. waiters' = [waiters EXCEPT ![l] = Append(waiters[l], t)] /\ holder' = holder
      BY <1>5, <2>8 DEF Enqueue
    <3>2. waiters[l] \in Seq(Tasks)
      BY <1>2, <2>1 DEF TypeOK
    <3>3. /\ Append(waiters[l], t) \in Seq(Tasks)
          /\ Len(Append(waiters[l], t)) = Len(waiters[l]) + 1 /\ Len(waiters[l]) \in Nat
          /\ \A i \in 1..Len(waiters[l]) : Append(waiters[l], t)[i] = waiters[l][i]
          /\ Append(waiters[l], t)[Len(waiters[l]) + 1] = t
      BY <3>2, AppendProperties, LenProperties
    <3>4. /\ waiters'[l] = Append(waiters[l], t)
          /\ \A m \in Locks \ {l} : waiters'[m] = waiters[m]
      BY <1>2, <2>1, <3>1 DEF TypeOK
    <3>5. /\ DOMAIN waiters'[l] = 1..(Len(waiters[l]) + 1)
          /\ DOMAIN waiters[l] = 1..Len(waiters[l])
      BY <3>2, <3>3, <3>4, LenProperties
    <3>6. \A i \in DOMAIN waiters'[l] :
            \/ i \in DOMAIN waiters[l] /\ waiters'[l][i] = waiters[l][i]
            \/ i = Len(waiters[l]) + 1 /\ waiters'[l][i] = t
      BY <3>3, <3>4, <3>5
    <3>7. ASSUME NEW m \in Locks, holder'[m] # None
          PROVE  arc'[holder'[m]] = m /\ pc'[holder'[m]] # "cloned"
      <4>1. holder[m] \in Tasks /\ arc[holder[m]] = m /\ pc[holder[m]] # "cloned"
        BY <1>2, <3>1, <3>7 DEF Queued, TypeOK
      <4>2. QED
        BY <2>1, <2>2, <3>1, <4>1
    <3>8. ASSUME NEW m \in Locks, NEW i \in DOMAIN waiters'[m]
          PROVE  LET u == waiters'[m][i] IN pc'[u] = "waiting" /\ arc'[u] = m /\ holder'[m] # u
      <4>1. CASE m = l
        <5>1. holder[l] # t
          BY <1>2, <2>1, <2>8 DEF Queued
        <5>2. QED
          BY <2>1, <2>2, <2>6, <3>1, <3>6, <3>8, <4>1, <5>1
      <4>2. CASE m # l
        BY <2>2, <2>6, <3>1, <3>4, <3>8, <4>2
      <4>3. QED
        BY <4>1, <4>2
    <3>9. ASSUME NEW m \in Locks, NEW i \in DOMAIN waiters'[m], NEW j \in DOMAIN waiters'[m],
                 waiters'[m][i] = waiters'[m][j]
          PROVE  i = j
      <4>1. CASE m = l
        BY <1>2, <2>1, <2>6, <3>6, <3>9, <4>1 DEF Queued
      <4>2. CASE m # l
        BY <1>2, <3>4, <3>9, <4>2 DEF Queued
      <4>3. QED
        BY <4>1, <4>2
    <3>10. Queued'
      BY <3>7, <3>8, <3>9 DEF Queued
    <3>11. QED
      BY <2>3, <2>5, <3>10
  <2>9. QED
    BY <2>7, <2>8
<1>6. ASSUME NEW t \in Tasks, Leave(t) \/ Abandon(t) PROVE Placed' /\ OwnLocks' /\ Queued'
  BY <1>1, <1>6, DropLockKeeps DEF Leave, Abandon
(* The steps of a task that has entered, or enters, its session. *)
<1>7. ASSUME NEW t \in Tasks, MayEnter(t) \/ pc[t] = "running",
             UNCHANGED lockVars,
             \A u \in Tasks \ {t} : pc'[u] = pc[u] /\ run'[u] = run[u],
             pc'[t] \in {"running", "leaving"},
             run'[t] \in Run, run'[t].key = run[t].key, run'[t].nested = run[t].nested
      PROVE  Placed' /\ OwnLocks' /\ Queued'
  <2>1. arc[t] # None => holder[arc[t]] = t
    BY <1>2, <1>7 DEF Placed, MayEnter, InTurn
  <2>2. arc[t] = None => ~(InTurn(t)')
    BY <1>2, <1>7 DEF Placed, MayEnter, InTurn
  <2>3. QED
    BY <1>1, <1>7, <2>1, <2>2, LockKept
<1>8. ASSUME NEW t \in Tasks, Begin(t) \/ Resume(t) \/ Speak(t) \/ Compact(t) \/ Finish(t) \/ Suspend(t)
      PROVE  Placed' /\ OwnLocks' /\ Queued'
  <2>1. MayEnter(t) \/ pc[t] = "running"
    BY <1>8 DEF Begin, Resume, Speak, Compact, Finish, Suspend
  <2>2. run[t] \in Run
    BY <1>2, <2>1 DEF Placed, MayEnter
  <2>3. UNCHANGED lockVars
    BY <1>8 DEF Begin, Resume, Speak, Compact, Finish, Suspend
  <2>4. /\ \A u \in Tasks \ {t} : pc'[u] = pc[u]
        /\ pc'[t] \in {"running", "leaving"}
    BY <1>2, <1>8 DEF Begin, Resume, Speak, Compact, Finish, Suspend, TypeOK
  <2>5. /\ \A u \in Tasks \ {t} : run'[u] = run[u]
        /\ run'[t].key = run[t].key /\ run'[t].nested = run[t].nested
        /\ run'[t] \in Run
    BY <1>2, <1>8, RunStep DEF TypeOK
  <2>6. QED
    BY <1>7, <2>1, <2>3, <2>4, <2>5
<1>9. ASSUME NEW t \in Tasks, NEW a \in approvals, Resolve(t, a)
      PROVE  Placed' /\ OwnLocks' /\ Queued'
  <2>1. a.run \in Run /\ arc[t] = None
    BY <1>2, <1>9 DEF TypeOK, Suspended, Placed, Resolve
  <2>2. /\ [a.run EXCEPT !.resumed = TRUE] \in Run
        /\ [a.run EXCEPT !.resumed = TRUE].nested = a.run.nested
    BY <2>1 DEF Run
  <2>3. UNCHANGED lockVars
    BY <1>9 DEF Resolve
  <2>4. CASE a \in Pending
    <3>1. /\ \A u \in Tasks \ {t} : pc'[u] = pc[u] /\ run'[u] = run[u]
          /\ run'[t] = [a.run EXCEPT !.resumed = TRUE]
          /\ pc'[t] = IF a.run.nested THEN "entering" ELSE "arrived"
      BY <1>2, <1>9, <2>4 DEF Resolve, TypeOK
    <3>2. ~(InTurn(t)')
      BY <3>1 DEF InTurn
    <3>3. QED
      BY <1>1, <2>1, <2>2, <2>3, <3>1, <3>2, LockKept
  <2>5. CASE a \notin Pending
    <3>1. pc' = pc /\ run' = run
      BY <1>9, <2>5 DEF Resolve
    <3>2. QED
      BY <1>2, <2>3, <3>1 DEF lockVars, Placed, InTurn, OwnLocks, Queued
  <2>6. QED
    BY <2>4, <2>5
<1>10. ASSUME ListApprovals \/ SessionExpires \/ ApprovalExpires \/ UNCHANGED vars
       PROVE  Placed' /\ OwnLocks' /\ Queued'
  <2>1. pc' = pc /\ run' = run /\ UNCHANGED lockVars
    BY <1>10 DEF ListApprovals, SessionExpires, ApprovalExpires, vars
  <2>2. QED
    BY <1>2, <2>1 DEF lockVars, Placed, InTurn, OwnLocks, Queued
<1>11. QED
  BY <1>1, <1>3, <1>4, <1>5, <1>6, <1>8, <1>9, <1>10 DEF Next

-----------------------------------------------------------------------------
(* The saved history *)

(* A run carries what it did when sessions go, or are saved anew. *)
LEMMA StillCarries ==
    ASSUME NEW r \in Run, NEW saved, NEW newest \in Nat, NEW saved2, NEW newest2 \in Nat,
           Carries(r, saved, newest), newest <= newest2,
           \A k \in Keys : \/ saved2[k] = saved[k] \/ saved2[k] = None
                           \/ saved2[k].rev \in Nat /\ saved2[k].rev > newest
    PROVE  Carries(r, saved2, newest2)
<1>1. r.key \in Keys /\ r.rev \in Nat
  BY DEF Run
<1>2. r.rev <= newest2
  BY <1>1 DEF Carries
<1>3. saved2[r.key] # None /\ saved2[r.key].rev = r.rev => saved2[r.key] = saved[r.key]
  BY <1>1 DEF Carries
<1>4. QED
  BY <1>2, <1>3 DEF Carries

(* It carries no less when its conversation grows. *)
LEMMA GrownCarries ==
    ASSUME NEW r \in Run, NEW r2 \in Run, NEW saved, NEW newest,
           Carries(r, saved, newest),
           r2.key = r.key, r2.nested = r.nested, r2.rev = r.rev,
           Carried(r.conv) \subseteq Carried(r2.conv)
    PROVE  Carries(r2, saved, newest)
  BY DEF Carries

LEMMA OneTurn == LockInv => OneTurnAtATime
<1>1. SUFFICES ASSUME LockInv, NEW t \in Tasks, NEW u \in Tasks,
                      InTurn(t), InTurn(u), run[t].key = run[u].key
               PROVE  t = u
  BY DEF OneTurnAtATime
<1>2. /\ arc[t] # None /\ holder[arc[t]] = t /\ lockOf[run[t].key] = arc[t]
      /\ arc[u] # None /\ holder[arc[u]] = u /\ lockOf[run[u].key] = arc[u]
  BY <1>1 DEF LockInv, Placed
<1>3. QED
  BY <1>1, <1>2

(* What a step does to the saved sessions. *)
LEMMA StoreStep ==
    ASSUME TypeOK, Placed, [Next]_vars
    PROVE  \/ /\ \A k \in Keys : store'[k] = store[k] \/ store'[k] = None
              /\ revisions' = revisions
           \/ \E t \in Tasks :
                /\ Finish(t) /\ revisions' = revisions + 1
                /\ store'[run[t].key].rev = revisions + 1
                /\ Carried(store'[run[t].key].conv) \subseteq Carried(run[t].conv)
                /\ \A k \in Keys \ {run[t].key} : store'[k] = store[k] \/ store'[k] = None
<1>1. ASSUME NEW t \in Tasks, Begin(t) \/ Resume(t)
      PROVE  /\ \A k \in Keys : store'[k] = store[k] \/ store'[k] = None
             /\ revisions' = revisions
  <2>1. run[t].key \in Keys
    BY <1>1, RunStep DEF Run
  <2>2. Load(run[t].key) \/ Remove(run[t].key)
    BY <1>1 DEF Begin, Resume
  <2>3. QED
    BY <2>1, <2>2, EnterType
<1>2. ASSUME NEW t \in Tasks, Finish(t)
      PROVE  /\ revisions' = revisions + 1
             /\ store'[run[t].key].rev = revisions + 1
             /\ Carried(store'[run[t].key].conv) \subseteq Carried(run[t].conv)
             /\ \A k \in Keys \ {run[t].key} : store'[k] = store[k] \/ store'[k] = None
  <2>1. run[t].key \in Keys /\ run[t].conv \in Seq(Message)
    BY <1>2, RunStep DEF Run
  <2>2. Save(run[t].key, run[t].conv)
    BY <1>2 DEF Finish
  <2>3. /\ store'[run[t].key] = [conv |-> Bound(run[t].conv), rev |-> revisions + 1]
        /\ \A k \in Keys \ {run[t].key} : store'[k] = store[k] \/ store'[k] = None
        /\ revisions' = revisions + 1
    BY <2>1, <2>2, SaveType
  <2>4. Carried(Bound(run[t].conv)) \subseteq Carried(run[t].conv)
    BY <2>1, BoundType
  <2>5. QED
    BY <2>3, <2>4
<1>3. CASE UNCHANGED <<store, revisions>>
  BY <1>3
<1>4. ASSUME ~(UNCHANGED <<store, revisions>>)
      PROVE  \E t \in Tasks : Begin(t) \/ Resume(t) \/ Finish(t)
  BY <1>4 DEF Next, vars, storeVars, Arrive, CloneLock, Enqueue, Speak, Compact, Suspend, Leave,
              Abandon, Resolve, ListApprovals, SessionExpires, ApprovalExpires
<1>5. QED
  BY <1>1, <1>2, <1>3, <1>4

(* Every run's revision stays a witness of the history it carries. *)
LEMMA VersionStep == LockInv /\ Versioned /\ [Next]_vars => Versioned'
<1>1. SUFFICES ASSUME LockInv, Versioned, [Next]_vars PROVE Versioned'
  OBVIOUS
<1>2. TypeOK /\ Placed /\ TypeOK'
  BY <1>1, TypeStep DEF LockInv
<1>3. revisions \in Nat /\ revisions' \in Nat /\ revisions <= revisions'
  BY <1>2, <1>1, StoreStep DEF TypeOK
<1>4. /\ \A k \in Keys : store'[k] # None => store'[k].rev \in 1..revisions'
      /\ \A k \in Keys : \/ store'[k] = store[k] \/ store'[k] = None
                         \/ store'[k].rev \in Nat /\ store'[k].rev > revisions
  <2>1. CASE \A k \in Keys : store'[k] = store[k] \/ store'[k] = None
    BY <1>1, <1>3, <2>1 DEF Versioned
  <2>2. ASSUME NEW t \in Tasks, revisions' = revisions + 1,
               store'[run[t].key].rev = revisions + 1,
               \A k \in Keys \ {run[t].key} : store'[k] = store[k] \/ store'[k] = None
        PROVE  /\ \A k \in Keys : store'[k] # None => store'[k].rev \in 1..revisions'
               /\ \A k \in Keys : \/ store'[k] = store[k] \/ store'[k] = None
                                  \/ store'[k].rev \in Nat /\ store'[k].rev > revisions
    BY <1>1, <1>3, <2>2 DEF Versioned
  <2>3. QED
    BY <1>1, <1>2, <2>1, <2>2, StoreStep
<1>5. \A r \in Run : Carries(r, store, revisions) => Carries(r, store', revisions')
  BY <1>3, <1>4, StillCarries
<1>6. \A a \in approvals : a.run \in Run /\ Carries(a.run, store, revisions)
  BY <1>1, <1>2 DEF Versioned, TypeOK, Suspended
<1>7. \A t \in Tasks : pc[t] # "idle" => run[t] \in Run /\ Carries(run[t], store, revisions)
  BY <1>1, <1>2 DEF Versioned, Placed
(* The mover's run; the other tasks' and the suspended runs stay. *)
<1>8. ASSUME \A a \in approvals' : a \in approvals \/ Carries(a.run, store', revisions'),
             \A t \in Tasks : \/ pc'[t] = "idle"
                              \/ pc[t] # "idle" /\ run'[t] = run[t]
                              \/ Carries(run'[t], store', revisions')
      PROVE  Versioned'
  BY <1>4, <1>5, <1>6, <1>7, <1>8 DEF Versioned
<1>9. ASSUME NEW t \in Tasks, NEW k \in Keys, NEW nested \in BOOLEAN, NEW reset \in BOOLEAN,
             Arrive(t, k, nested, reset)
      PROVE  Versioned'
  <2> DEFINE r == [turn |-> nextTurn, key |-> k, nested |-> nested, reset |-> reset,
                   conv |-> <<>>, turn_start |-> 0, rev |-> 0, resumed |-> FALSE]
  <2>1. /\ r.key = k /\ r.rev = 0 /\ r.nested = nested
        /\ nested => k \in NestedKeys
    BY <1>9 DEF Arrive
  <2> HIDE DEF r
  <2>2. /\ \A u \in Tasks \ {t} : pc'[u] = pc[u] /\ run'[u] = run[u]
        /\ run'[t] = r /\ approvals' = approvals
    BY <1>2, <1>9 DEF Arrive, TypeOK, approvalVars, r
  <2>3. Carries(r, store', revisions')
    BY <1>3, <1>4, <2>1 DEF Carries
  <2>4. QED
    BY <1>8, <2>2, <2>3
<1>10. ASSUME NEW t \in Tasks, CloneLock(t) \/ Enqueue(t) PROVE Versioned'
  <2>1. pc[t] # "idle" /\ run' = run /\ approvals' = approvals
    BY <1>10 DEF CloneLock, Enqueue, approvalVars
  <2>2. \A u \in Tasks \ {t} : pc'[u] = pc[u]
    BY <1>2, <1>10 DEF CloneLock, Enqueue, TypeOK
  <2>3. QED
    BY <1>8, <2>1, <2>2
<1>11. ASSUME NEW t \in Tasks, Leave(t) \/ Abandon(t) PROVE Versioned'
  <2>1. /\ \A u \in Tasks \ {t} : pc'[u] = pc[u] /\ run'[u] = run[u]
        /\ pc'[t] = "idle" /\ approvals' = approvals
    BY <1>2, <1>11 DEF Leave, Abandon, TypeOK, approvalVars
  <2>2. QED
    BY <1>8, <2>1
<1>12. ASSUME NEW t \in Tasks,
              Begin(t) \/ Resume(t) \/ Speak(t) \/ Compact(t) \/ Finish(t) \/ Suspend(t)
       PROVE  Versioned'
  <2>1. /\ run[t] \in Run /\ run'[t] \in Run /\ pc[t] # "idle"
        /\ run[t].key \in Keys /\ run'[t].key = run[t].key /\ run'[t].nested = run[t].nested
        /\ \A u \in Tasks \ {t} : pc'[u] = pc[u] /\ run'[u] = run[u]
    <3>1. pc[t] # "idle"
      BY <1>12 DEF Begin, Resume, MayEnter, Speak, Compact, Finish, Suspend
    <3>2. \A u \in Tasks \ {t} : pc'[u] = pc[u]
      BY <1>2, <1>12 DEF Begin, Resume, Speak, Compact, Finish, Suspend, TypeOK
    <3>3. QED
      BY <1>2, <1>12, <3>1, <3>2, RunStep DEF TypeOK, Run
  <2>2. Carries(run[t], store', revisions')
    BY <1>5, <1>7, <2>1
  <2>3. Carries(run'[t], store', revisions')
    <3>1. CASE Speak(t) \/ Compact(t) \/ Finish(t) \/ Suspend(t)
      <4>1. ~Begin(t) /\ ~Resume(t)
        BY <3>1 DEF Begin, Resume, MayEnter, Speak, Compact, Finish, Suspend
      <4>2. run'[t].rev = run[t].rev /\ Carried(run[t].conv) \subseteq Carried(run'[t].conv)
        BY <1>2, <3>1, <4>1, RunStep
      <4>3. QED
        BY <2>1, <2>2, <4>2, GrownCarries
    <3>2. CASE Begin(t)
      <4>1. CASE run[t].reset
        <5>1. run'[t].rev = 0
          BY <1>2, <3>2, <4>1, RunStep
        <5>2. QED
          BY <1>3, <1>4, <2>1, <2>2, <5>1 DEF Carries
      <4>2. CASE ~run[t].reset
        <5>1. /\ run'[t].rev = Revision(run[t].key)
              /\ Carried(History(run[t].key)) \subseteq Carried(run'[t].conv)
          BY <1>2, <3>2, <4>2, RunStep
        <5>2. Load(run[t].key)
          BY <3>2, <4>2 DEF Begin
        <5>3. QED
          BY <1>1, <1>2, <1>3, <1>4, <2>1, <2>2, <5>1, <5>2, EnterType, HistoryType
             DEF Carries, Versioned, Live, Revision
      <4>3. QED
        BY <4>1, <4>2
    <3>3. CASE Resume(t)
      <4>1. run'[t] = Rebased(run[t]) /\ Load(run[t].key)
        BY <1>2, <3>3 DEF Resume, TypeOK
      <4>2. CASE Rebased(run[t]) = run[t]
        BY <2>2, <4>1, <4>2
      <4>3. CASE /\ Rebased(run[t]).rev = Revision(run[t].key)
                 /\ Carried(History(run[t].key)) \subseteq Carried(Rebased(run[t]).conv)
        BY <1>1, <1>2, <1>3, <1>4, <2>1, <2>2, <4>1, <4>3, EnterType, HistoryType
           DEF Carries, Versioned, Live, Revision
      <4>4. QED
        BY <1>2, <2>1, <4>2, <4>3, RebasedType
    <3>4. QED
      BY <1>12, <3>1, <3>2, <3>3
  <2>4. \A a \in approvals' : a \in approvals \/ a.run = run'[t]
    <3>1. CASE Suspend(t)
      <4>1. approvals' \subseteq approvals \cup {[id |-> nextApproval, run |-> run[t]]}
        BY <3>1 DEF Suspend, Pending
      <4>2. run' = run
        BY <3>1 DEF Suspend
      <4>3. QED
        BY <4>1, <4>2
    <3>2. CASE approvals' = approvals
      BY <3>2
    <3>3. QED
      BY <1>12, <3>1, <3>2 DEF Begin, Resume, Speak, Compact, Finish, approvalVars
  <2>5. \A a \in approvals' : a \in approvals \/ Carries(a.run, store', revisions')
    BY <2>3, <2>4
  <2>6. QED
    BY <1>8, <2>1, <2>3, <2>5
<1>13. ASSUME NEW t \in Tasks, NEW a \in approvals, Resolve(t, a) PROVE Versioned'
  <2>1. approvals' \subseteq approvals
    BY <1>13 DEF Resolve
  <2>2. a.run \in Run /\ Carries(a.run, store', revisions')
    BY <1>5, <1>6
  <2>3. CASE a \in Pending
    <3> DEFINE r == [a.run EXCEPT !.resumed = TRUE]
    <3>1. r.nested = a.run.nested /\ r.key = a.run.key /\ r.rev = a.run.rev /\ r.conv = a.run.conv
      BY <2>2 DEF Run
    <3> HIDE DEF r
    <3>2. /\ \A u \in Tasks \ {t} : pc'[u] = pc[u] /\ run'[u] = run[u]
          /\ run'[t] = r
      BY <1>2, <1>13, <2>3 DEF Resolve, TypeOK, r
    <3>3. Carries(r, store', revisions')
      BY <2>2, <3>1 DEF Carries
    <3>4. QED
      BY <1>8, <2>1, <3>2, <3>3
  <2>4. CASE a \notin Pending
    BY <1>8, <1>13, <2>1, <2>4 DEF Resolve
  <2>5. QED
    BY <2>3, <2>4
<1>14. ASSUME ListApprovals \/ SessionExpires \/ ApprovalExpires \/ UNCHANGED vars
       PROVE  Versioned'
  <2>1. pc' = pc /\ run' = run /\ approvals' \subseteq approvals
    BY <1>14 DEF ListApprovals, SessionExpires, ApprovalExpires, vars, approvalVars, Pending
  <2>2. QED
    BY <1>8, <2>1
<1>15. QED
  BY <1>1, <1>9, <1>10, <1>11, <1>12, <1>13, <1>14 DEF Next

(* A task that is inside its session, and one that is not, both stay so    *)
(* unless the task itself moves.                                           *)
LEMMA HistoryStep == IInv /\ [Next]_vars => HistoryKept'
<1>1. SUFFICES ASSUME IInv, [Next]_vars, NEW t \in Tasks, InTurn(t)',
                      run'[t].key \notin NestedKeys, store'[run'[t].key] # None
               PROVE  Carried(store'[run'[t].key].conv) \subseteq Carried(run'[t].conv)
  BY DEF HistoryKept
<1>2. TypeOK /\ Placed /\ Versioned /\ HistoryKept /\ OneTurnAtATime
  BY <1>1, OneTurn DEF IInv, LockInv
<1>3. CASE Begin(t)
  <2>1. /\ run[t].key \in Keys /\ run'[t].key = run[t].key
        /\ IF run[t].reset THEN TRUE
           ELSE Carried(History(run[t].key)) \subseteq Carried(run'[t].conv)
    BY <1>2, <1>3, RunStep DEF Run
  <2>2. IF run[t].reset THEN Remove(run[t].key) ELSE Load(run[t].key)
    BY <1>3 DEF Begin
  <2>3. /\ store'[run[t].key] = store[run[t].key]
        /\ Live(run[t].key) /\ ~run[t].reset
    BY <1>1, <1>2, <2>1, <2>2, EnterType
  <2>4. QED
    BY <1>2, <2>1, <2>3, HistoryType
<1>4. CASE Resume(t)
  <2>1. run[t] \in Run /\ run[t].key \in Keys /\ run'[t].key = run[t].key
    BY <1>2, <1>4, RunStep DEF Run
  <2>2. run'[t] = Rebased(run[t]) /\ Load(run[t].key) /\ pc[t] # "idle"
    BY <1>2, <1>4 DEF Resume, MayEnter, TypeOK
  <2>3. /\ store'[run[t].key] = store[run[t].key] /\ store[run[t].key] # None
        /\ Live(run[t].key)
    BY <1>1, <1>2, <2>1, <2>2, EnterType
  <2>4. /\ History(run[t].key) = store[run[t].key].conv
        /\ Revision(run[t].key) = store[run[t].key].rev
    BY <1>2, <2>1, <2>3, HistoryType
  <2>5. Carries(run[t], store, revisions)
    BY <1>2, <2>2 DEF Versioned
  <2>6. CASE Rebased(run[t]) = run[t] /\ Revision(run[t].key) = run[t].rev
    BY <2>2, <2>3, <2>4, <2>5, <2>6 DEF Carries
  <2>7. CASE Carried(History(run[t].key)) \subseteq Carried(Rebased(run[t]).conv)
    BY <2>1, <2>2, <2>3, <2>4, <2>7
  <2>8. QED
    BY <1>2, <2>1, <2>6, <2>7, RebasedType
<1>5. CASE Finish(t)
  <2>1. run[t].key \in Keys /\ run[t].conv \in Seq(Message) /\ run' = run
    BY <1>2, <1>5, RunStep DEF Run, Finish
  <2>2. store'[run[t].key] = [conv |-> Bound(run[t].conv), rev |-> revisions + 1]
    BY <1>2, <1>5, <2>1, SaveType DEF Finish
  <2>3. QED
    BY <2>1, <2>2, BoundType
<1>6. CASE Speak(t) \/ Compact(t) \/ Suspend(t)
  <2>1. InTurn(t) /\ ~Begin(t) /\ ~Resume(t) /\ store' = store
    <3>1. pc[t] = "running" /\ UNCHANGED storeVars /\ ~Begin(t) /\ ~Resume(t)
      BY <1>6 DEF Speak, Compact, Suspend, Begin, Resume, MayEnter
    <3>2. run'[t].nested = run[t].nested
      BY <1>2, <1>6, RunStep
    <3>3. QED
      BY <1>1, <3>1, <3>2 DEF InTurn, storeVars
  <2>2. run'[t].key = run[t].key /\ Carried(run[t].conv) \subseteq Carried(run'[t].conv)
    BY <1>2, <1>6, <2>1, RunStep
  <2>3. QED
    BY <1>1, <1>2, <2>1, <2>2 DEF HistoryKept
<1>7. CASE /\ ~Begin(t) /\ ~Resume(t) /\ ~Finish(t)
           /\ ~Speak(t) /\ ~Compact(t) /\ ~Suspend(t)
  <2>1. InTurn(t) /\ run'[t] = run[t]
    <3>1. ASSUME NEW u \in Tasks, NEW k \in Keys, NEW nested \in BOOLEAN, NEW reset \in BOOLEAN,
                 Arrive(u, k, nested, reset)
          PROVE  t # u /\ pc'[t] = pc[t] /\ run'[t] = run[t]
      BY <1>1, <1>2, <3>1 DEF Arrive, InTurn, TypeOK
    <3>2. ASSUME NEW u \in Tasks, CloneLock(u) \/ Enqueue(u)
          PROVE  t # u /\ pc'[t] = pc[t] /\ run'[t] = run[t]
      BY <1>1, <1>2, <3>2 DEF CloneLock, Enqueue, InTurn, TypeOK
    <3>3. ASSUME NEW u \in Tasks, Leave(u) \/ Abandon(u)
          PROVE  t # u /\ pc'[t] = pc[t] /\ run'[t] = run[t]
      BY <1>1, <1>2, <3>3 DEF Leave, Abandon, InTurn, TypeOK
    <3>4. ASSUME NEW u \in Tasks,
                 Begin(u) \/ Resume(u) \/ Speak(u) \/ Compact(u) \/ Finish(u) \/ Suspend(u)
          PROVE  t # u /\ pc'[t] = pc[t] /\ run'[t] = run[t]
      <4>1. t # u
        BY <1>7, <3>4
      <4>2. pc'[t] = pc[t]
        BY <1>2, <3>4, <4>1 DEF Begin, Resume, Speak, Compact, Finish, Suspend, TypeOK
      <4>3. run'[t] = run[t]
        BY <1>2, <3>4, <4>1, RunStep DEF TypeOK
      <4>4. QED
        BY <4>1, <4>2, <4>3
    <3>5. ASSUME NEW u \in Tasks, NEW a \in approvals, Resolve(u, a)
          PROVE  pc'[t] = pc[t] /\ run'[t] = run[t]
      <4>1. CASE a \in Pending
        BY <1>1, <1>2, <3>5, <4>1 DEF Resolve, InTurn, TypeOK
      <4>2. CASE a \notin Pending
        BY <3>5, <4>2 DEF Resolve
      <4>3. QED
        BY <4>1, <4>2
    <3>6. ASSUME ListApprovals \/ SessionExpires \/ ApprovalExpires \/ UNCHANGED vars
          PROVE  pc' = pc /\ run' = run
      BY <3>6 DEF ListApprovals, SessionExpires, ApprovalExpires, vars
    <3>7. pc'[t] = pc[t] /\ run'[t] = run[t]
      BY <1>1, <3>1, <3>2, <3>3, <3>4, <3>5, <3>6 DEF Next
    <3>8. QED
      BY <1>1, <3>7 DEF InTurn
  <2>2. run[t].key \in Keys
    BY <1>2, <2>1 DEF Placed, InTurn, Run
  <2>3. CASE store'[run[t].key] = store[run[t].key] \/ store'[run[t].key] = None
    BY <1>1, <1>2, <2>1, <2>3 DEF HistoryKept
  <2>4. ASSUME NEW u \in Tasks, Finish(u), run[u].key = run[t].key
        PROVE  FALSE
    <3>1. pc[u] = "running" /\ Carries(run[u], store, revisions)
      BY <1>2, <2>4 DEF Finish, Versioned
    <3>2. InTurn(u)
      BY <1>1, <2>1, <2>4, <3>1 DEF Carries, InTurn
    <3>3. t = u
      BY <1>2, <2>1, <2>4, <3>2 DEF OneTurnAtATime
    <3>4. QED
      BY <1>7, <2>4, <3>3
  <2>5. QED
    BY <1>1, <1>2, <2>2, <2>3, <2>4, StoreStep
<1>8. QED
  BY <1>3, <1>4, <1>5, <1>6, <1>7

-----------------------------------------------------------------------------
(* A turn's one life *)

Carrying(t) == pc[t] \notin {"idle", "leaving"}

(* OneLifePerTurn without counting: no two of the tasks and the suspended  *)
(* runs have one turn, and the next turn is nobody's yet.                  *)
OneLife ==
    /\ \A t, u \in Tasks :
        Carrying(t) /\ Carrying(u) /\ run[t].turn = run[u].turn => t = u
    /\ \A t \in Tasks, a \in approvals : Carrying(t) => run[t].turn # a.run.turn
    /\ \A a, b \in approvals : a.run.turn = b.run.turn => a = b
    /\ \A t \in Tasks : Carrying(t) => run[t].turn < nextTurn
    /\ \A a \in approvals : a.run.turn < nextTurn

(* A run keeps its turn through everything it does. *)
LEMMA TurnStays ==
  ASSUME TypeOK, Placed, NEW t \in Tasks,
         Begin(t) \/ Resume(t) \/ Speak(t) \/ Compact(t) \/ Finish(t) \/ Suspend(t)
  PROVE  run'[t].turn = run[t].turn
<1>1. run[t] \in Run /\ run \in [Tasks -> Run \cup {None}]
  BY RunStep DEF TypeOK
<1>2. CASE Begin(t) \/ Speak(t)
  <2>1. CASE Begin(t)
    <3>1. PICK conv, turn_start, rev :
            run' = [run EXCEPT ![t] = [run[t] EXCEPT !.conv = conv, !.turn_start = turn_start,
                                                     !.rev = rev]]
      BY <2>1, ZenonT(60) DEF Begin
    <3>2. QED
      BY <1>1, <3>1 DEF Run
  <2>2. CASE Speak(t)
    <3>1. PICK conv : run' = [run EXCEPT ![t] = [run[t] EXCEPT !.conv = conv]]
      BY <2>2 DEF Speak
    <3>2. QED
      BY <1>1, <3>1 DEF Run
  <2>3. QED
    BY <1>2, <2>1, <2>2
<1>3. CASE Finish(t) \/ Suspend(t)
  BY <1>3 DEF Finish, Suspend
<1>4. CASE Resume(t)
  <2>1. run'[t] = Rebased(run[t])
    BY <1>1, <1>4 DEF Resume
  <2>2. Rebased(run[t]).turn = run[t].turn
    BY <1>1 DEF Rebased, Run
  <2>3. QED
    BY <2>1, <2>2
<1>5. CASE Compact(t)
  <2>1. PICK cut \in 2 .. Len(run[t].conv) - 1 : run'[t] = Compacted(run[t], cut)
    BY <1>1, <1>5 DEF Compact
  <2>2. Compacted(run[t], cut).turn = run[t].turn
    BY <1>1 DEF Compacted, Run
  <2>3. QED
    BY <2>1, <2>2
<1>6. QED
  BY <1>2, <1>3, <1>4, <1>5

LEMMA OneLifeStep == IInv /\ OneLife /\ [Next]_vars => OneLife'
<1> SUFFICES ASSUME IInv, OneLife, [Next]_vars PROVE OneLife'
  OBVIOUS
<1>1. TypeOK /\ Placed
  BY DEF IInv, LockInv
<1>2. \A t \in Tasks : Carrying(t) => run[t] \in Run /\ run[t].turn \in Nat
  BY <1>1, TurnsAssumption DEF Placed, Carrying, Run, Turns
<1>3. \A a \in approvals : a.run \in Run /\ a.run.turn \in Nat
  BY <1>1, TurnsAssumption DEF TypeOK, Suspended, Run, Turns
<1>4. nextTurn \in Nat
  BY <1>1 DEF TypeOK
(* Nobody new, and the others as they were. *)
<1>5. ASSUME \A t \in Tasks : Carrying(t)' => Carrying(t) /\ run'[t].turn = run[t].turn,
             approvals' \subseteq approvals, nextTurn' = nextTurn
      PROVE  OneLife'
  BY <1>5 DEF OneLife
<1>6. ASSUME NEW t \in Tasks, NEW k \in Keys, NEW nested \in BOOLEAN, NEW reset \in BOOLEAN,
             Arrive(t, k, nested, reset)
      PROVE  OneLife'
  <2>1. /\ run'[t].turn = nextTurn /\ nextTurn' = nextTurn + 1 /\ approvals' = approvals
        /\ \A u \in Tasks \ {t} : pc'[u] = pc[u] /\ run'[u] = run[u]
    BY <1>1, <1>6 DEF Arrive, TypeOK, approvalVars
  <2>2. \A u \in Tasks \ {t} : Carrying(u)' => Carrying(u) /\ run'[u].turn = run[u].turn
    BY <2>1 DEF Carrying
  <2>3. QED
    BY <1>2, <1>3, <1>4, <2>1, <2>2 DEF OneLife
<1>7. ASSUME NEW t \in Tasks, CloneLock(t) \/ Enqueue(t) PROVE OneLife'
  BY <1>1, <1>5, <1>7 DEF CloneLock, Enqueue, Carrying, TypeOK, approvalVars
<1>8. ASSUME NEW t \in Tasks, Leave(t) \/ Abandon(t) PROVE OneLife'
  BY <1>1, <1>5, <1>8 DEF Leave, Abandon, Carrying, TypeOK, approvalVars
<1>9. ASSUME NEW t \in Tasks,
             Begin(t) \/ Resume(t) \/ Speak(t) \/ Compact(t) \/ Finish(t)
      PROVE  OneLife'
  <2>1. \A u \in Tasks : run'[u].turn = run[u].turn
    BY <1>1, <1>9, RunStep, TurnStays DEF TypeOK
  <2>2. \A u \in Tasks : Carrying(u)' => Carrying(u)
    BY <1>1, <1>9 DEF Begin, MayEnter, Resume, Speak, Compact, Finish, Carrying, TypeOK
  <2>3. approvals' = approvals /\ nextTurn' = nextTurn
    BY <1>9 DEF Begin, Resume, Speak, Compact, Finish, approvalVars
  <2>4. QED
    BY <1>5, <2>1, <2>2, <2>3
<1>10. ASSUME NEW t \in Tasks, Suspend(t) PROVE OneLife'
  <2> DEFINE new == [id |-> nextApproval, run |-> run[t]]
  <2>1. /\ approvals' \subseteq approvals \cup {new} /\ nextTurn' = nextTurn /\ run' = run
        /\ Carrying(t) /\ ~Carrying(t)'
        /\ \A u \in Tasks : Carrying(u)' => Carrying(u)
    BY <1>1, <1>10 DEF Suspend, Pending, Carrying, TypeOK
  <2>2. new.run = run[t]
    OBVIOUS
  <2> HIDE DEF new
  <2>3. QED
    BY <2>1, <2>2 DEF OneLife
<1>11. ASSUME NEW t \in Tasks, NEW a \in approvals, Resolve(t, a) PROVE OneLife'
  <2>1. approvals' = approvals \ {a} /\ nextTurn' = nextTurn
    BY <1>11 DEF Resolve
  <2>2. CASE a \in Pending
    <3>1. [a.run EXCEPT !.resumed = TRUE].turn = a.run.turn
      BY <1>3 DEF Run
    <3>2. /\ run'[t].turn = a.run.turn
          /\ \A u \in Tasks \ {t} : pc'[u] = pc[u] /\ run'[u] = run[u]
      BY <1>1, <1>11, <2>2, <3>1 DEF Resolve, TypeOK
    <3>3. \A u \in Tasks \ {t} : Carrying(u)' => Carrying(u) /\ run'[u].turn = run[u].turn
      BY <3>2 DEF Carrying
    <3>4. QED
      BY <2>1, <3>2, <3>3 DEF OneLife
  <2>3. CASE a \notin Pending
    BY <1>5, <1>11, <2>1, <2>3 DEF Resolve, Carrying
  <2>4. QED
    BY <2>2, <2>3
<1>12. ASSUME ListApprovals \/ SessionExpires \/ ApprovalExpires \/ UNCHANGED vars
       PROVE  OneLife'
  <2>1. pc' = pc /\ run' = run /\ approvals' \subseteq approvals /\ nextTurn' = nextTurn
    BY <1>12 DEF ListApprovals, SessionExpires, ApprovalExpires, vars, approvalVars, Pending
  <2>2. QED
    BY <1>5, <2>1 DEF Carrying
<1>13. QED
  BY <1>6, <1>7, <1>8, <1>9, <1>10, <1>11, <1>12 DEF Next

LEMMA OneLifeCounts == OneLife => OneLifePerTurn
<1> SUFFICES ASSUME OneLife, NEW u \in Turns
             PROVE  LET carrying == {t \in Tasks : pc[t] \notin {"idle", "leaving"} /\ run[t].turn = u}
                        parked == {a \in approvals : a.run.turn = u}
                    IN  Cardinality(carrying) + Cardinality(parked) <= 1
  BY DEF OneLifePerTurn
<1> DEFINE carrying == {t \in Tasks : pc[t] \notin {"idle", "leaving"} /\ run[t].turn = u}
           parked == {a \in approvals : a.run.turn = u}
<1>1. carrying = {} \/ \E t \in Tasks : carrying = {t}
  BY DEF OneLife, Carrying
<1>2. parked = {} \/ \E a \in approvals : parked = {a}
  BY DEF OneLife
<1>3. carrying = {} \/ parked = {}
  BY DEF OneLife, Carrying
<1> HIDE DEF carrying, parked
<1>4. Cardinality(carrying) \in {0, 1} /\ (carrying = {} => Cardinality(carrying) = 0)
  BY <1>1, FS_EmptySet, FS_Singleton
<1>5. Cardinality(parked) \in {0, 1} /\ (parked = {} => Cardinality(parked) = 0)
  BY <1>2, FS_EmptySet, FS_Singleton
<1>6. Cardinality(carrying) + Cardinality(parked) <= 1
  BY <1>3, <1>4, <1>5
<1>7. QED
  BY <1>6 DEF carrying, parked

-----------------------------------------------------------------------------
(* A run's own messages *)

(* OwnTurnMovable, of one run: none before turn_start has its turn's words, *)
(* all after it have, and all but the first of these have no one else's.    *)
Movable(r) ==
    /\ r.turn_start < Len(r.conv)
    /\ \A i \in 1..r.turn_start : r.turn \notin r.conv[i].turns
    /\ \A i \in r.turn_start + 1 .. Len(r.conv) : r.turn \in r.conv[i].turns
    /\ \A i \in r.turn_start + 2 .. Len(r.conv) : r.conv[i].turns = {r.turn}

LEMMA MovableExact ==
  ASSUME NEW r \in Run, Movable(r)
  PROVE  /\ r.turn_start < Len(r.conv)
         /\ \A i \in DOMAIN r.conv :
             /\ r.turn \in r.conv[i].turns <=> i > r.turn_start
             /\ i > r.turn_start + 1 => r.conv[i].turns = {r.turn}
<1> DEFINE at == r.turn_start
           L == Len(r.conv)
<1>1. /\ at \in Nat /\ L \in Nat /\ at < L /\ DOMAIN r.conv = 1..L
  BY LenProperties DEF Run, Movable
<1>2. \A i \in 1..L : /\ i \in 1..at <=> ~(i > at)
                      /\ i \in at + 1 .. L <=> i > at
                      /\ i \in at + 2 .. L <=> i > at + 1
  <2> HIDE DEF at, L
  <2>1. QED
    BY <1>1
<1>3. QED
  BY <1>1, <1>2 DEF Movable

(* A part of a conversation, and two joined, message by message. *)
LEMMA Sliced ==
  ASSUME NEW conv \in Seq(Message), NEW m \in Nat, NEW n \in Nat, m <= n, n <= Len(conv)
  PROVE  /\ SubSeq(conv, m + 1, n) \in Seq(Message) /\ Len(SubSeq(conv, m + 1, n)) = n - m
         /\ \A i \in 1 .. n - m : SubSeq(conv, m + 1, n)[i] = conv[m + i]
         /\ Carried(SubSeq(conv, m + 1, n)) \subseteq Carried(conv)
<1> DEFINE k == m + 1
           s == SubSeq(conv, k, n)
<1>1. k \in Nat /\ k >= 1
  OBVIOUS
<1>2. n - k + 1 = n - m /\ (IF k <= n THEN n - k + 1 ELSE 0) = n - m
      /\ \A i \in 1 .. n - m : k + i - 1 = m + i
  OBVIOUS
<1> HIDE DEF k
<1>3. /\ s \in Seq(Message) /\ Carried(s) \subseteq Carried(conv)
      /\ Len(s) = IF k <= n THEN n - k + 1 ELSE 0
      /\ \A i \in 1 .. n - k + 1 : s[i] = conv[k + i - 1]
  BY <1>1, SliceType
<1> HIDE DEF s
<1>4. s \in Seq(Message) /\ Len(s) = n - m /\ \A i \in 1 .. n - m : s[i] = conv[m + i]
  BY <1>2, <1>3
<1>5. QED
  BY <1>3, <1>4 DEF s, k

LEMMA Joined ==
  ASSUME NEW p \in Seq(Message), NEW q \in Seq(Message)
  PROVE  /\ Len(p \o q) = Len(p) + Len(q)
         /\ \A i \in 1..Len(p) : (p \o q)[i] = p[i]
         /\ \A i \in 1..Len(q) : (p \o q)[Len(p) + i] = q[i]
<1> DEFINE s == p \o q
           m == Len(p)
           n == Len(q)
<1>1. /\ m \in Nat /\ n \in Nat /\ Len(s) = m + n
      /\ \A i \in 1 .. m + n : s[i] = IF i <= m THEN p[i] ELSE q[i - m]
  BY ConcatProperties, LenProperties
<1> HIDE DEF s, m, n
<1>2. \A i \in 1..m : i \in 1 .. m + n /\ i <= m
  BY <1>1
<1>3. \A i \in 1..n : m + i \in 1 .. m + n /\ ~(m + i <= m) /\ m + i - m = i
  BY <1>1
<1>4. /\ \A i \in 1..m : s[i] = p[i]
      /\ \A i \in 1..n : s[m + i] = q[i]
  BY <1>1, <1>2, <1>3
<1>5. QED
  BY <1>1, <1>4 DEF s, m, n

(* Beginning and speaking. *)
LEMMA SaidMovable ==
  ASSUME NEW conv \in Seq(Message), NEW m \in Message
  PROVE  /\ Carried(Append(conv, m)) = Carried(conv) \cup m.turns
         /\ Len(Append(conv, m)) = Len(conv) + 1
         /\ Append(conv, m)[Len(conv) + 1] = m
         /\ \A i \in 1..Len(conv) : Append(conv, m)[i] = conv[i]
<1> DEFINE new == Append(conv, m)
<1>1. /\ new \in Seq(Message) /\ Len(new) = Len(conv) + 1 /\ new[Len(conv) + 1] = m
      /\ \A i \in 1..Len(conv) : new[i] = conv[i]
  BY AppendProperties
<1>2. Len(conv) \in Nat /\ DOMAIN conv = 1..Len(conv) /\ DOMAIN new = 1..(Len(conv) + 1)
  BY <1>1, LenProperties
<1> HIDE DEF new
<1>3. /\ \A i \in DOMAIN new : i \in DOMAIN conv \/ i = Len(conv) + 1
      /\ \A i \in DOMAIN conv : i \in DOMAIN new
      /\ Len(conv) + 1 \in DOMAIN new
  BY <1>2
<1>4. Carried(new) \subseteq Carried(conv) \cup m.turns
  BY <1>1, <1>2, <1>3 DEF Carried
<1>5. Carried(conv) \cup m.turns \subseteq Carried(new)
  BY <1>1, <1>2, <1>3 DEF Carried
<1>6. QED
  BY <1>1, <1>4, <1>5 DEF new

(* maybe_compact: turn_start moves with the cut. *)
LEMMA CompactedMovable ==
  ASSUME NEW r \in Run, Movable(r), NEW cut \in 2 .. Len(r.conv) - 1
  PROVE  /\ Movable(Compacted(r, cut)) /\ Compacted(r, cut).turn = r.turn
         /\ Carried(Compacted(r, cut).conv) \subseteq Carried(r.conv)
<1> DEFINE L == Len(r.conv)
           at == r.turn_start
           u == r.turn
           n == L - cut
           start == IF at >= cut THEN at - cut + 1 ELSE 0
<1>1. r.conv \in Seq(Message) /\ L \in Nat /\ at \in Nat /\ at < L
  BY LenProperties DEF Run, Movable
<1>2. cut \in Nat /\ 2 <= cut /\ cut < L /\ n \in Nat /\ start \in Nat /\ start < n + 1
  <2>1. cut \in 2 .. L - 1
    OBVIOUS
  <2> HIDE DEF L, at
  <2>2. cut \in Nat /\ 2 <= cut /\ cut < L
    BY <1>1, <2>1
  <2>3. n \in Nat
    BY <1>1, <2>2
  <2>4. start \in Nat /\ start < n + 1
    BY <1>1, <2>2
  <2>5. QED
    BY <2>2, <2>3, <2>4
<1>3. /\ \A i \in 1..at : u \notin r.conv[i].turns
      /\ \A i \in at + 1 .. L : u \in r.conv[i].turns
      /\ \A i \in at + 2 .. L : r.conv[i].turns = {u}
  BY DEF Movable
<1> DEFINE head == SubSeq(r.conv, 1, cut)
           tail == SubSeq(r.conv, cut + 1, L)
           first == Carried(head)
           summary == [turns |-> first, start |-> TRUE, size |-> 1]
           front == <<summary>>
           new == front \o tail
<1>4. /\ head \in Seq(Message) /\ Len(head) = cut /\ \A i \in 1..cut : head[i] = r.conv[i]
      /\ first \subseteq Carried(r.conv)
  <2> DEFINE part(m) == SubSeq(r.conv, m + 1, cut)
  <2>1. /\ part(0) \in Seq(Message) /\ Len(part(0)) = cut - 0
        /\ \A i \in 1 .. cut - 0 : part(0)[i] = r.conv[0 + i]
        /\ Carried(part(0)) \subseteq Carried(r.conv)
    <3>1. 0 \in Nat /\ 0 <= cut /\ cut <= Len(r.conv)
      BY <1>2
    <3>2. QED
      BY <1>1, <1>2, <3>1, Sliced
  <2>2. part(0) = head /\ cut - 0 = cut /\ \A i \in 1..cut : 0 + i = i
    BY <1>2
  <2> HIDE DEF part, head
  <2>3. QED
    BY <2>1, <2>2
<1>5. /\ tail \in Seq(Message) /\ Len(tail) = n /\ \A i \in 1..n : tail[i] = r.conv[cut + i]
      /\ Carried(tail) \subseteq Carried(r.conv)
  <2>1. cut <= L /\ L <= Len(r.conv)
    BY <1>1, <1>2
  <2>2. QED
    BY <1>1, <1>2, <2>1, Sliced
<1>6. /\ Compacted(r, cut) = [r EXCEPT !.conv = new, !.turn_start = start]
      /\ summary.turns = first
  BY DEF Compacted
<1>7. /\ Compacted(r, cut).turn = u /\ Compacted(r, cut).conv = new
      /\ Compacted(r, cut).turn_start = start
  BY <1>6 DEF Run
<1> HIDE DEF head, tail
<1>8. DOMAIN head = 1..cut /\ \A i \in DOMAIN head : head[i] \in Message
  BY <1>4, ElementOfSeq, LenProperties
<1>9. first \subseteq Turns /\ \A v : v \in first <=> \E i \in 1..cut : v \in r.conv[i].turns
  <2>1. \A i \in DOMAIN head : head[i].turns \subseteq Turns
    BY <1>8 DEF Message
  <2>2. QED
    BY <1>4, <1>8, <2>1 DEF Carried
<1> HIDE DEF first
<1>10. summary \in Message
  BY <1>9 DEF Message
<1> HIDE DEF summary
<1>11. front \in Seq(Message) /\ Len(front) = 1 /\ front[1] = summary /\ Carried(front) = first
  <2>1. front \in Seq(Message) /\ DOMAIN front = {1} /\ front[1] = summary /\ Len(front) = 1
    BY <1>10
  <2>2. QED
    BY <1>6, <2>1 DEF Carried
<1> HIDE DEF front, n
<1>12. /\ Len(new) = 1 + n /\ new[1] = summary /\ \A i \in 1..n : new[1 + i] = r.conv[cut + i]
       /\ Carried(new) = first \cup Carried(tail)
  <2>1. /\ Len(new) = Len(front) + Len(tail)
        /\ \A i \in 1..Len(front) : new[i] = front[i]
        /\ \A i \in 1..Len(tail) : new[Len(front) + i] = tail[i]
        /\ Carried(new) = Carried(front) \cup Carried(tail)
    BY <1>5, <1>11, Joined, JoinType
  <2> HIDE DEF new
  <2>2. QED
    BY <1>5, <1>11, <2>1
<1> HIDE DEF new, L, at, u
<1>13. ASSUME NEW i \in 1..start PROVE u \notin new[i].turns
  <2>1. at >= cut /\ i \in Nat /\ 1 <= i /\ i <= at - cut + 1
    BY <1>1, <1>2, <1>13
  <2>2. CASE i = 1
    <3>1. ASSUME NEW j \in 1..cut PROVE u \notin r.conv[j].turns
      <4>1. j \in 1..at
        BY <1>1, <1>2, <2>1
      <4>2. QED
        BY <1>3, <4>1
    <3>2. QED
      BY <1>6, <1>9, <1>12, <2>2, <3>1
  <2>3. CASE i # 1
    <3> DEFINE j == i - 1
    <3>1. j \in 1..n /\ cut + j \in 1..at /\ 1 + j = i
      BY <1>1, <1>2, <2>1, <2>3 DEF n
    <3> HIDE DEF j
    <3>2. QED
      BY <1>3, <1>12, <3>1
  <2>4. QED
    BY <2>2, <2>3
<1>14. ASSUME NEW i \in start + 1 .. 1 + n PROVE u \in new[i].turns
  <2>1. CASE i = 1
    <3>1. start = 0 /\ at + 1 \in 1..cut /\ at + 1 \in at + 1 .. L
      BY <1>1, <1>2, <2>1
    <3>2. QED
      BY <1>3, <1>6, <1>9, <1>12, <2>1, <3>1
  <2>2. CASE i # 1
    <3> DEFINE k == i - 1
    <3>1. k \in 1..n /\ 1 + k = i /\ cut + k \in at + 1 .. L
      BY <1>1, <1>2, <2>2 DEF n
    <3> HIDE DEF k
    <3>2. QED
      BY <1>3, <1>12, <3>1
  <2>3. QED
    BY <2>1, <2>2
<1>15. ASSUME NEW i \in start + 2 .. 1 + n PROVE new[i].turns = {u}
  <2> DEFINE k == i - 1
  <2>1. k \in 1..n /\ 1 + k = i /\ cut + k \in at + 2 .. L
    BY <1>1, <1>2 DEF n
  <2> HIDE DEF k
  <2>2. QED
    BY <1>3, <1>12, <2>1
<1> HIDE DEF start
<1>16. Movable(Compacted(r, cut))
  <2>1. start < Len(new)
    BY <1>2, <1>12
  <2>2. QED
    BY <1>7, <1>12, <1>13, <1>14, <1>15, <2>1 DEF Movable
<1>17. QED
  BY <1>4, <1>5, <1>7, <1>12, <1>16 DEF u

(* rebase_onto_session moves all of them, and nothing else. *)
LEMMA RebasedMovable ==
  ASSUME TypeOK, NEW r \in Run, Movable(r), r.turn \notin Carried(History(r.key))
  PROVE  /\ Movable(Rebased(r)) /\ Rebased(r).turn = r.turn
         /\ Carried(Rebased(r).conv) \subseteq Carried(r.conv) \cup Carried(History(r.key))
<1> DEFINE L == Len(r.conv)
           at == r.turn_start
           u == r.turn
           n == L - at
           base == History(r.key)
           own == SubSeq(r.conv, at + 1, L)
           both == base \o own
           m == Len(base)
<1>1. /\ r.key \in Keys /\ r.conv \in Seq(Message) /\ at \in Nat /\ L \in Nat /\ at < L
      /\ base \in Seq(Message) /\ m \in Nat /\ DOMAIN base = 1..m
  BY HistoryType, LenProperties DEF Run, Movable
<1>2. n \in Nat /\ 0 < n
  BY <1>1
<1>3. /\ \A i \in at + 1 .. L : u \in r.conv[i].turns
      /\ \A i \in at + 2 .. L : r.conv[i].turns = {u}
  BY DEF Movable
<1>4. CASE Revision(r.key) = r.rev
  BY <1>4 DEF Rebased
<1>5. CASE Revision(r.key) # r.rev
  <2>1. Rebased(r) = [r EXCEPT !.conv = both, !.turn_start = m, !.rev = Revision(r.key)]
    BY <1>5 DEF Rebased
  <2>2. Rebased(r).turn = u /\ Rebased(r).conv = both /\ Rebased(r).turn_start = m
    BY <2>1 DEF Run
  <2>3. /\ own \in Seq(Message) /\ Len(own) = n /\ Carried(own) \subseteq Carried(r.conv)
        /\ \A i \in 1..n : own[i] = r.conv[at + i]
    <3> DEFINE conv == r.conv
    <3>1. conv \in Seq(Message) /\ at \in Nat /\ L \in Nat /\ at <= L /\ L <= Len(conv)
      BY <1>1
    <3> HIDE DEF conv, at, L
    <3>2. /\ SubSeq(conv, at + 1, L) \in Seq(Message) /\ Len(SubSeq(conv, at + 1, L)) = L - at
          /\ \A i \in 1 .. L - at : SubSeq(conv, at + 1, L)[i] = conv[at + i]
          /\ Carried(SubSeq(conv, at + 1, L)) \subseteq Carried(conv)
      BY <3>1, Sliced
    <3>3. QED
      BY <3>2 DEF conv
  <2>4. \A i \in 1..m : u \notin base[i].turns
    BY <1>1 DEF Carried
  <2> HIDE DEF base, own, m, n
  <2>5. /\ Len(both) = m + n /\ Carried(both) = Carried(base) \cup Carried(own)
        /\ \A i \in 1..m : both[i] = base[i]
        /\ \A i \in 1..n : both[m + i] = r.conv[at + i]
    <3>1. /\ Len(both) = Len(base) + Len(own)
          /\ \A i \in 1..Len(base) : both[i] = base[i]
          /\ \A i \in 1..Len(own) : both[Len(base) + i] = own[i]
          /\ Carried(both) = Carried(base) \cup Carried(own)
      BY <1>1, <2>3, Joined, JoinType
    <3> HIDE DEF both
    <3>2. QED
      BY <2>3, <3>1 DEF m
  <2> HIDE DEF both, L, at, u
  <2>6. ASSUME NEW i \in m + 1 .. m + n
        PROVE  u \in both[i].turns /\ (i \in m + 2 .. m + n => both[i].turns = {u})
    <3> DEFINE k == i - m
    <3>1. /\ k \in 1..n /\ m + k = i /\ at + k \in at + 1 .. L
          /\ i \in m + 2 .. m + n => at + k \in at + 2 .. L
      BY <1>1, <1>2 DEF n
    <3> HIDE DEF k
    <3>2. QED
      BY <1>3, <2>5, <3>1
  <2>7. m < m + n /\ \A i \in m + 2 .. m + n : i \in m + 1 .. m + n
    BY <1>1, <1>2
  <2>8. Movable(Rebased(r))
    BY <2>2, <2>4, <2>5, <2>6, <2>7 DEF Movable
  <2>9. QED
    BY <2>2, <2>3, <2>5, <2>8 DEF base, u
<1>6. QED
  BY <1>4, <1>5

(* The runs under way or parked, and what the sessions carry. *)
LiveRuns == {run[t] : t \in {u \in Tasks : Carrying(u)}} \cup {a.run : a \in approvals}

Stored == UNION {Carried(store[k].conv) : k \in {j \in Keys : store[j] # None}}

Begun == 1 .. nextTurn - 1

(* A turn's words are nowhere but in its own run until that is over. *)
Unmixed ==
    /\ \A r \in LiveRuns : r.turn \in Begun /\ r.turn \notin Stored
    /\ \A r, q \in LiveRuns : r.turn # q.turn => r.turn \notin Carried(q.conv)
    /\ Stored \subseteq Begun
    /\ \A q \in LiveRuns : Carried(q.conv) \subseteq Begun

AllMovable ==
    /\ \A t \in Tasks : pc[t] = "running" \/ (Carrying(t) /\ run[t].resumed) => Movable(run[t])
    /\ \A a \in approvals : Movable(a.run)

LEMMA BegunGrows ==
  ASSUME NEW n \in Nat \ {0}, NEW m \in Nat, n <= m
  PROVE  /\ 1 .. n - 1 \subseteq 1 .. m - 1 /\ n \notin 1 .. n - 1
         /\ m = n + 1 => n \in 1 .. m - 1
  OBVIOUS

(* What a step may do to the runs and the sessions: a run keeps its turn   *)
(* and takes up what is stored, or is new; one that is over may be stored. *)
LEMMA StaysUnmixed ==
  ASSUME Unmixed, nextTurn \in Nat \ {0}, nextTurn' \in Nat, nextTurn <= nextTurn',
         \A q \in LiveRuns' :
            \/ \E r \in LiveRuns : /\ q.turn = r.turn
                                   /\ Carried(q.conv) \subseteq Carried(r.conv) \cup Stored \cup {q.turn}
            \/ q.turn = nextTurn /\ nextTurn' = nextTurn + 1 /\ Carried(q.conv) = {},
         \/ Stored' \subseteq Stored
         \/ \E r \in LiveRuns : /\ Stored' \subseteq Stored \cup Carried(r.conv)
                                /\ \A q \in LiveRuns' : q.turn # r.turn
  PROVE  Unmixed'
<1>1. /\ Begun \subseteq Begun' /\ nextTurn \notin Begun
      /\ nextTurn' = nextTurn + 1 => nextTurn \in Begun'
  BY BegunGrows DEF Begun
<1>2. Stored' \subseteq Begun
  BY DEF Unmixed
<1>3. ASSUME NEW q \in LiveRuns'
      PROVE  q.turn \in Begun' /\ q.turn \notin Stored' /\ Carried(q.conv) \subseteq Begun'
  <2>1. CASE q.turn = nextTurn /\ nextTurn' = nextTurn + 1 /\ Carried(q.conv) = {}
    BY <1>1, <1>2, <2>1
  <2>2. ASSUME NEW r \in LiveRuns, q.turn = r.turn,
               Carried(q.conv) \subseteq Carried(r.conv) \cup Stored \cup {q.turn}
        PROVE  q.turn \in Begun' /\ q.turn \notin Stored' /\ Carried(q.conv) \subseteq Begun'
    <3>1. r.turn \in Begun /\ r.turn \notin Stored /\ Carried(r.conv) \subseteq Begun /\ Stored \subseteq Begun
      BY DEF Unmixed
    <3>2. q.turn \notin Stored'
      BY <1>3, <2>2, <3>1 DEF Unmixed
    <3>3. QED
      BY <1>1, <2>2, <3>1, <3>2
  <2>3. QED
    BY <1>3, <2>1, <2>2
<1>4. ASSUME NEW p \in LiveRuns', NEW q \in LiveRuns', p.turn # q.turn
      PROVE  p.turn \notin Carried(q.conv)
  <2>1. CASE Carried(q.conv) = {}
    BY <2>1
  <2>2. ASSUME NEW r \in LiveRuns, q.turn = r.turn,
               Carried(q.conv) \subseteq Carried(r.conv) \cup Stored \cup {q.turn}
        PROVE  p.turn \notin Carried(q.conv)
    <3>1. CASE p.turn = nextTurn
      BY <1>1, <1>4, <2>2, <3>1 DEF Unmixed
    <3>2. ASSUME NEW o \in LiveRuns, p.turn = o.turn PROVE p.turn \notin Carried(q.conv)
      BY <1>4, <2>2, <3>2 DEF Unmixed
    <3>3. QED
      BY <1>4, <3>1, <3>2
  <2>3. QED
    BY <1>4, <2>1, <2>2
<1>5. QED
  BY <1>1, <1>2, <1>3, <1>4 DEF Unmixed

LEMMA HistoryStored ==
  ASSUME TypeOK, NEW k \in Keys
  PROVE  Carried(History(k)) \subseteq Stored
<1>1. CASE Live(k)
  <2>1. History(k) = store[k].conv /\ store[k] # None
    BY <1>1 DEF History, Live
  <2>2. QED
    BY <2>1 DEF Stored
<1>2. CASE ~Live(k)
  BY <1>2 DEF History, Carried
<1>3. QED
  BY <1>1, <1>2

LEMMA StoredShrinks ==
  ASSUME \A k \in Keys : store'[k] = store[k] \/ store'[k] = None
  PROVE  Stored' \subseteq Stored
  BY DEF Stored

Moved == nextTurn # 0 /\ Unmixed /\ AllMovable

(* A run under way takes up only what is stored, and its own words stay    *)
(* after turn_start.                                                       *)
LEMMA RunMoves ==
  ASSUME TypeOK, Placed, Moved, NEW t \in Tasks,
         Begin(t) \/ Resume(t) \/ Speak(t) \/ Compact(t) \/ Finish(t) \/ Suspend(t)
  PROVE  /\ Carried(run'[t].conv) \subseteq Carried(run[t].conv) \cup Stored \cup {run[t].turn}
         /\ Movable(run'[t])
<1> DEFINE r == run[t]
           u == run[t].turn
<1>1. /\ r \in Run /\ r.key \in Keys /\ r.conv \in Seq(Message) /\ u \in Turns
      /\ run \in [Tasks -> Run \cup {None}]
  BY RunStep DEF Run, TypeOK
<1>2. Carrying(t) /\ r \in LiveRuns
  BY DEF Carrying, LiveRuns, Begin, Resume, MayEnter, Speak, Compact, Finish, Suspend
<1>3. u \notin Stored
  BY <1>2 DEF Moved, Unmixed
<1>4. u \notin Carried(History(r.key)) /\ Carried(History(r.key)) \subseteq Stored
  BY <1>1, <1>3, HistoryStored
<1>5. ASSUME NEW m \in Message, m.turns = {u}, NEW base \in Seq(Message),
             Carried(base) \subseteq Stored \cup {u} \cup Carried(r.conv)
      PROVE  /\ Carried(Append(base, m)) \subseteq Carried(r.conv) \cup Stored \cup {u}
             /\ Len(Append(base, m)) = Len(base) + 1 /\ Len(base) \in Nat
             /\ Append(base, m)[Len(base) + 1].turns = {u}
             /\ \A i \in 1..Len(base) : Append(base, m)[i] = base[i]
  BY <1>5, SaidMovable, LenProperties
<1>6. CASE Begin(t)
  <2> DEFINE base == IF r.reset THEN <<>> ELSE History(r.key)
             m == Said(u, TRUE)
             new == Append(base, m)
             rev == IF r.reset THEN 0 ELSE Revision(r.key)
  <2>1. run'[t] = [r EXCEPT !.conv = new, !.turn_start = Len(base), !.rev = rev]
    BY <1>1, <1>6 DEF Begin
  <2>2. run'[t].conv = new /\ run'[t].turn_start = Len(base) /\ run'[t].turn = u
    BY <1>1, <2>1 DEF Run
  <2>3. base \in Seq(Message) /\ Carried(base) \subseteq Stored
    <3>1. CASE r.reset
      BY <3>1, EmptySeq DEF Carried
    <3>2. CASE ~r.reset
      BY <1>1, <1>4, <3>2, HistoryType
    <3>3. QED
      BY <3>1, <3>2
  <2>4. m \in Message /\ m.turns = {u}
    BY <1>1, SaidMessage DEF Said
  <2> HIDE DEF base, m
  <2>5. /\ Carried(new) \subseteq Carried(r.conv) \cup Stored \cup {u}
        /\ Len(new) = Len(base) + 1 /\ Len(base) \in Nat
        /\ new[Len(base) + 1].turns = {u}
        /\ \A i \in 1..Len(base) : new[i] = base[i]
    BY <1>5, <2>3, <2>4
  <2>6. \A i \in 1..Len(base) : u \notin base[i].turns
    <3>1. DOMAIN base = 1..Len(base)
      BY <2>3, LenProperties
    <3>2. QED
      BY <1>3, <2>3, <3>1 DEF Carried
  <2> HIDE DEF new
  <2>7. Movable(run'[t])
    <3> DEFINE at == Len(base)
    <3>1. /\ at < Len(new) /\ \A i \in at + 1 .. Len(new) : i = at + 1
          /\ \A i \in at + 2 .. Len(new) : i = at + 1
      BY <2>5
    <3> HIDE DEF at
    <3>2. QED
      BY <2>2, <2>5, <2>6, <3>1 DEF Movable, at
  <2>8. QED
    BY <2>2, <2>5, <2>7
<1>7. CASE Speak(t)
  <2> DEFINE m == Said(u, FALSE)
             new == Append(r.conv, m)
             at == r.turn_start
             n == Len(r.conv)
  <2>1. run'[t] = [r EXCEPT !.conv = new]
    BY <1>1, <1>7 DEF Speak
  <2>2. run'[t].conv = new /\ run'[t].turn_start = at /\ run'[t].turn = u /\ at \in Nat
    BY <1>1, <2>1 DEF Run
  <2>3. m \in Message /\ m.turns = {u}
    BY <1>1, SaidMessage DEF Said
  <2>4. Movable(r)
    BY <1>7 DEF Speak, Moved, AllMovable
  <2> HIDE DEF m
  <2>5. /\ Carried(new) \subseteq Carried(r.conv) \cup Stored \cup {u}
        /\ Len(new) = n + 1 /\ n \in Nat
        /\ new[n + 1].turns = {u}
        /\ \A i \in 1..n : new[i] = r.conv[i]
    BY <1>1, <1>5, <2>3
  <2>6. /\ at < n /\ \A i \in 1..at : u \notin r.conv[i].turns
        /\ \A i \in at + 1 .. n : u \in r.conv[i].turns
        /\ \A i \in at + 2 .. n : r.conv[i].turns = {u}
    BY <2>4 DEF Movable
  <2> HIDE DEF new, at, n
  <2>7. Movable(run'[t])
    <3>1. /\ at < n + 1 /\ \A i \in 1..at : i \in 1..n
          /\ \A i \in at + 1 .. n + 1 : i = n + 1 \/ (i \in 1..n /\ i \in at + 1 .. n)
          /\ \A i \in at + 2 .. n + 1 : i = n + 1 \/ (i \in 1..n /\ i \in at + 2 .. n)
      BY <2>2, <2>5, <2>6
    <3>2. \A i \in 1..at : u \notin new[i].turns
      BY <2>5, <2>6, <3>1
    <3>3. \A i \in at + 1 .. n + 1 : u \in new[i].turns
      BY <2>5, <2>6, <3>1
    <3>4. \A i \in at + 2 .. n + 1 : new[i].turns = {u}
      BY <2>5, <2>6, <3>1
    <3>5. QED
      BY <2>2, <2>5, <3>1, <3>2, <3>3, <3>4 DEF Movable
  <2>8. QED
    BY <2>2, <2>5, <2>7
<1>8. CASE Compact(t)
  <2>1. Movable(r)
    BY <1>8 DEF Compact, Moved, AllMovable
  <2>2. PICK cut \in 2 .. Len(r.conv) - 1 : run'[t] = Compacted(r, cut)
    BY <1>1, <1>8 DEF Compact
  <2>3. QED
    BY <1>1, <2>1, <2>2, CompactedMovable
<1>9. CASE Resume(t)
  <2>1. Movable(r)
    BY <1>2, <1>9 DEF Resume, Moved, AllMovable
  <2>2. run'[t] = Rebased(r)
    BY <1>1, <1>9 DEF Resume
  <2>3. /\ Movable(Rebased(r))
        /\ Carried(Rebased(r).conv) \subseteq Carried(r.conv) \cup Carried(History(r.key))
    BY <1>1, <1>4, <2>1, RebasedMovable
  <2>4. QED
    BY <1>4, <2>2, <2>3
<1>10. CASE Finish(t) \/ Suspend(t)
  BY <1>10 DEF Finish, Suspend, Moved, AllMovable
<1>11. QED
  BY <1>6, <1>7, <1>8, <1>9, <1>10

LEMMA MovedStep == IInv /\ OneLife /\ Moved /\ [Next]_vars => Moved'
<1> SUFFICES ASSUME IInv, OneLife, Moved, [Next]_vars PROVE Moved'
  OBVIOUS
<1>1. TypeOK /\ Placed /\ nextTurn \in Nat \ {0}
  BY DEF IInv, LockInv, TypeOK, Moved
<1>2. \A t \in Tasks : Carrying(t) => run[t] \in LiveRuns
  BY DEF LiveRuns
<1>3. \A a \in approvals : a.run \in LiveRuns /\ Movable(a.run) /\ a.run \in Run
  BY <1>1 DEF LiveRuns, Moved, AllMovable, TypeOK, Suspended
<1>4. \A q \in LiveRuns' : \/ \E u \in Tasks : Carrying(u)' /\ q = run'[u]
                           \/ \E a \in approvals' : q = a.run
  BY DEF LiveRuns
(* Nobody new, and the others as they were. *)
<1>5. ASSUME \A u \in Tasks : Carrying(u)' => Carrying(u) /\ run'[u] = run[u],
             \A u \in Tasks : pc'[u] = "running" => pc[u] = "running",
             approvals' \subseteq approvals, nextTurn' = nextTurn, Stored' \subseteq Stored
      PROVE  Moved'
  <2>1. \A q \in LiveRuns' : q \in LiveRuns
    BY <1>2, <1>3, <1>4, <1>5
  <2>2. Unmixed'
    BY <1>1, <1>5, <2>1, StaysUnmixed DEF Moved
  <2>3. AllMovable'
    <3>1. ASSUME NEW u \in Tasks, (pc[u] = "running")' \/ (Carrying(u)' /\ run'[u].resumed)
          PROVE  Movable(run'[u])
      <4>1. Carrying(u)'
        BY <3>1 DEF Carrying
      <4>2. QED
        BY <1>5, <3>1, <4>1 DEF Moved, AllMovable
    <3>2. QED
      BY <1>3, <1>5, <3>1 DEF AllMovable
  <2>4. QED
    BY <1>1, <1>5, <2>2, <2>3 DEF Moved
<1>6. ASSUME NEW t \in Tasks, NEW k \in Keys, NEW nested \in BOOLEAN, NEW reset \in BOOLEAN,
             Arrive(t, k, nested, reset)
      PROVE  Moved'
  <2>1. /\ nextTurn' = nextTurn + 1 /\ approvals' = approvals /\ store' = store
        /\ run'[t].turn = nextTurn /\ run'[t].conv = <<>> /\ run'[t].resumed = FALSE
        /\ pc'[t] # "running"
        /\ \A u \in Tasks \ {t} : pc'[u] = pc[u] /\ run'[u] = run[u]
    BY <1>1, <1>6 DEF Arrive, TypeOK, approvalVars, storeVars
  <2>2. \A u \in Tasks \ {t} : Carrying(u)' => Carrying(u)
    BY <2>1 DEF Carrying
  <2>3. Carried(run'[t].conv) = {}
    BY <2>1 DEF Carried
  <2>4. Stored' \subseteq Stored
    BY <2>1, StoredShrinks
  <2>5. ASSUME NEW q \in LiveRuns'
        PROVE  q \in LiveRuns \/ (q.turn = nextTurn /\ Carried(q.conv) = {})
    BY <1>2, <1>3, <1>4, <2>1, <2>2, <2>3
  <2>6. Unmixed'
    BY <1>1, <2>1, <2>4, <2>5, StaysUnmixed DEF Moved
  <2>7. AllMovable'
    <3>1. ASSUME NEW u \in Tasks, (pc[u] = "running")' \/ (Carrying(u)' /\ run'[u].resumed)
          PROVE  Movable(run'[u])
      BY <2>1, <2>2, <3>1 DEF Moved, AllMovable
    <3>2. QED
      BY <1>3, <2>1, <3>1 DEF AllMovable
  <2>8. QED
    BY <1>1, <2>1, <2>6, <2>7 DEF Moved
<1>7. ASSUME NEW t \in Tasks, CloneLock(t) \/ Enqueue(t) PROVE Moved'
  <2>1. /\ run' = run /\ approvals' = approvals /\ nextTurn' = nextTurn /\ store' = store
        /\ \A u \in Tasks : pc'[u] = pc[u] \/ (u = t /\ pc[u] \in {"arrived", "cloned"}
                                               /\ pc'[u] \in {"cloned", "waiting"})
    BY <1>1, <1>7 DEF CloneLock, Enqueue, TypeOK, approvalVars, storeVars
  <2>2. Stored' \subseteq Stored
    BY <2>1, StoredShrinks
  <2>3. QED
    BY <1>5, <2>1, <2>2 DEF Carrying
<1>8. ASSUME NEW t \in Tasks, Leave(t) \/ Abandon(t) PROVE Moved'
  <2>1. /\ approvals' = approvals /\ nextTurn' = nextTurn /\ store' = store /\ pc'[t] = "idle"
        /\ \A u \in Tasks \ {t} : pc'[u] = pc[u] /\ run'[u] = run[u]
    BY <1>1, <1>8 DEF Leave, Abandon, TypeOK, approvalVars, storeVars
  <2>2. Stored' \subseteq Stored
    BY <2>1, StoredShrinks
  <2>3. QED
    BY <1>5, <2>1, <2>2 DEF Carrying
<1>9. ASSUME NEW t \in Tasks, Begin(t) \/ Resume(t) \/ Speak(t) \/ Compact(t) PROVE Moved'
  <2>1. /\ Carried(run'[t].conv) \subseteq Carried(run[t].conv) \cup Stored \cup {run[t].turn}
        /\ Movable(run'[t])
    BY <1>1, <1>9, RunMoves
  <2>2. run'[t].turn = run[t].turn /\ run' = [run EXCEPT ![t] = run'[t]]
    BY <1>1, <1>9, TurnStays, RunStep
  <2>3. /\ Carrying(t) /\ approvals' = approvals /\ nextTurn' = nextTurn
        /\ \A u \in Tasks \ {t} : pc'[u] = pc[u]
    BY <1>1, <1>9 DEF Begin, Resume, MayEnter, Speak, Compact, Carrying, TypeOK, approvalVars
  <2>4. \A u \in Tasks \ {t} : run'[u] = run[u] /\ (Carrying(u)' => Carrying(u))
    BY <1>1, <2>2, <2>3 DEF Carrying, TypeOK
  <2>5. Stored' \subseteq Stored
    <3>1. CASE Begin(t) \/ Resume(t)
      <4>1. run[t].key \in Keys
        BY <1>1, <3>1, RunStep DEF Run
      <4>2. Load(run[t].key) \/ Remove(run[t].key)
        BY <3>1 DEF Begin, Resume
      <4>3. QED
        BY <1>1, <4>1, <4>2, EnterType, StoredShrinks
    <3>2. CASE Speak(t) \/ Compact(t)
      BY <3>2, StoredShrinks DEF Speak, Compact, storeVars
    <3>3. QED
      BY <1>9, <3>1, <3>2
  <2>6. ASSUME NEW q \in LiveRuns'
        PROVE  \E r \in LiveRuns : /\ q.turn = r.turn
                                   /\ Carried(q.conv) \subseteq Carried(r.conv) \cup Stored \cup {q.turn}
    <3>1. q \in LiveRuns \/ q = run'[t]
      BY <1>2, <1>3, <1>4, <2>3, <2>4
    <3>2. QED
      BY <1>2, <2>1, <2>2, <2>3, <3>1
  <2>7. Unmixed'
    BY <1>1, <2>3, <2>5, <2>6, StaysUnmixed DEF Moved
  <2>8. AllMovable'
    <3>1. ASSUME NEW u \in Tasks, (pc[u] = "running")' \/ (Carrying(u)' /\ run'[u].resumed)
          PROVE  Movable(run'[u])
      BY <2>1, <2>3, <2>4, <3>1 DEF Moved, AllMovable
    <3>2. QED
      BY <1>3, <2>3, <3>1 DEF AllMovable
  <2>9. QED
    BY <1>1, <2>3, <2>7, <2>8 DEF Moved
<1>10. ASSUME NEW t \in Tasks, Finish(t) PROVE Moved'
  <2>1. /\ run' = run /\ approvals' = approvals /\ nextTurn' = nextTurn
        /\ Carrying(t) /\ ~Carrying(t)' /\ pc'[t] # "running"
        /\ \A u \in Tasks \ {t} : pc'[u] = pc[u]
    BY <1>1, <1>10 DEF Finish, Carrying, TypeOK, approvalVars
  <2>2. \A u \in Tasks : Carrying(u)' => Carrying(u) /\ u # t
    BY <2>1 DEF Carrying
  <2>3. run[t].key \in Keys /\ run[t].conv \in Seq(Message)
    BY <1>1, <1>10, RunStep DEF Run
  <2>4. Stored' \subseteq Stored \cup Carried(run[t].conv)
    <3>1. Save(run[t].key, run[t].conv)
      BY <1>10 DEF Finish
    <3>2. /\ store'[run[t].key] = [conv |-> Bound(run[t].conv), rev |-> revisions + 1]
          /\ \A j \in Keys \ {run[t].key} : store'[j] = store[j] \/ store'[j] = None
      BY <1>1, <2>3, <3>1, SaveType
    <3>3. store'[run[t].key].conv = Bound(run[t].conv)
      BY <3>2
    <3>4. Carried(store'[run[t].key].conv) \subseteq Carried(run[t].conv)
      BY <2>3, <3>3, BoundType
    <3>5. QED
      BY <3>2, <3>4 DEF Stored
  <2>5. ASSUME NEW q \in LiveRuns'
        PROVE  q \in LiveRuns /\ q.turn # run[t].turn
    <3>1. ASSUME NEW u \in Tasks, Carrying(u)', q = run'[u] PROVE q \in LiveRuns /\ q.turn # run[t].turn
      BY <1>2, <2>1, <2>2, <3>1 DEF OneLife
    <3>2. ASSUME NEW a \in approvals', q = a.run PROVE q \in LiveRuns /\ q.turn # run[t].turn
      BY <1>3, <2>1, <3>2 DEF OneLife
    <3>3. QED
      BY <1>4, <3>1, <3>2
  <2>6. Unmixed'
    BY <1>1, <1>2, <2>1, <2>4, <2>5, StaysUnmixed DEF Moved
  <2>7. AllMovable'
    <3>1. ASSUME NEW u \in Tasks, (pc[u] = "running")' \/ (Carrying(u)' /\ run'[u].resumed)
          PROVE  Movable(run'[u])
      BY <2>1, <2>2, <3>1 DEF Moved, AllMovable
    <3>2. QED
      BY <1>3, <2>1, <3>1 DEF AllMovable
  <2>8. QED
    BY <1>1, <2>1, <2>6, <2>7 DEF Moved
<1>11. ASSUME NEW t \in Tasks, Suspend(t) PROVE Moved'
  <2> DEFINE new == [id |-> nextApproval, run |-> run[t]]
  <2>1. /\ approvals' \subseteq approvals \cup {new} /\ nextTurn' = nextTurn /\ run' = run
        /\ store' = store /\ pc[t] = "running" /\ pc'[t] = "leaving"
        /\ \A u \in Tasks \ {t} : pc'[u] = pc[u]
    BY <1>1, <1>11 DEF Suspend, Pending, TypeOK, storeVars
  <2>2. new.run = run[t]
    OBVIOUS
  <2> HIDE DEF new
  <2>3. Carrying(t) /\ Movable(run[t]) /\ \A u \in Tasks : Carrying(u)' => Carrying(u)
    BY <2>1 DEF Carrying, Moved, AllMovable
  <2>4. Stored' \subseteq Stored
    BY <2>1, StoredShrinks
  <2>5. \A q \in LiveRuns' : q \in LiveRuns
    BY <1>2, <1>3, <1>4, <2>1, <2>2, <2>3
  <2>6. Unmixed'
    BY <1>1, <2>1, <2>4, <2>5, StaysUnmixed DEF Moved
  <2>7. AllMovable'
    <3>1. ASSUME NEW u \in Tasks, (pc[u] = "running")' \/ (Carrying(u)' /\ run'[u].resumed)
          PROVE  Movable(run'[u])
      BY <2>1, <2>3, <3>1 DEF Moved, AllMovable
    <3>2. ASSUME NEW a \in approvals' PROVE Movable(a.run)
      BY <1>3, <2>1, <2>2, <2>3, <3>2
    <3>3. QED
      BY <3>1, <3>2 DEF AllMovable
  <2>8. QED
    BY <1>1, <2>1, <2>6, <2>7 DEF Moved
<1>12. ASSUME NEW t \in Tasks, NEW a \in approvals, Resolve(t, a) PROVE Moved'
  <2>1. approvals' = approvals \ {a} /\ nextTurn' = nextTurn /\ store' = store
    BY <1>12 DEF Resolve, storeVars
  <2>2. Stored' \subseteq Stored
    BY <2>1, StoredShrinks
  <2>3. CASE a \in Pending
    <3> DEFINE new == [a.run EXCEPT !.resumed = TRUE]
    <3>1. /\ new.turn = a.run.turn /\ new.conv = a.run.conv
          /\ new.turn_start = a.run.turn_start
      BY <1>3 DEF Run
    <3>2. /\ run'[t] = new
          /\ \A u \in Tasks \ {t} : pc'[u] = pc[u] /\ run'[u] = run[u]
      BY <1>1, <1>12, <2>3 DEF Resolve, TypeOK
    <3> HIDE DEF new
    <3>3. \A u \in Tasks \ {t} : Carrying(u)' => Carrying(u)
      BY <3>2 DEF Carrying
    <3>4. Movable(new)
      BY <1>3, <3>1 DEF Movable
    <3>5. ASSUME NEW q \in LiveRuns'
          PROVE  q \in LiveRuns \/ q = new
      BY <1>2, <1>3, <1>4, <2>1, <3>2, <3>3
    <3>6. \A q \in LiveRuns' :
             \E r \in LiveRuns : /\ q.turn = r.turn
                                 /\ Carried(q.conv) \subseteq Carried(r.conv) \cup Stored \cup {q.turn}
      BY <1>3, <3>1, <3>5
    <3>7. Unmixed'
      BY <1>1, <2>1, <2>2, <3>6, StaysUnmixed DEF Moved
    <3>8. AllMovable'
      <4>1. ASSUME NEW u \in Tasks, (pc[u] = "running")' \/ (Carrying(u)' /\ run'[u].resumed)
            PROVE  Movable(run'[u])
        BY <3>2, <3>3, <3>4, <4>1 DEF Moved, AllMovable
      <4>2. QED
        BY <1>3, <2>1, <4>1 DEF AllMovable
    <3>9. QED
      BY <1>1, <2>1, <3>7, <3>8 DEF Moved
  <2>4. CASE a \notin Pending
    <3>1. pc' = pc /\ run' = run
      BY <1>12, <2>4 DEF Resolve
    <3>2. QED
      BY <1>5, <2>1, <2>2, <3>1 DEF Carrying
  <2>5. QED
    BY <2>3, <2>4
<1>13. ASSUME ListApprovals \/ SessionExpires \/ ApprovalExpires \/ UNCHANGED vars
       PROVE  Moved'
  <2>1. /\ pc' = pc /\ run' = run /\ approvals' \subseteq approvals /\ nextTurn' = nextTurn
        /\ store' = store
    BY <1>13 DEF ListApprovals, SessionExpires, ApprovalExpires, vars, approvalVars, storeVars, Pending
  <2>2. Stored' \subseteq Stored
    BY <2>1, StoredShrinks
  <2>3. QED
    BY <1>5, <2>1, <2>2 DEF Carrying
<1>14. QED
  BY <1>6, <1>7, <1>8, <1>9, <1>10, <1>11, <1>12, <1>13 DEF Next

LEMMA MovedHolds == TypeOK /\ Placed /\ Moved => OwnTurnMovable
<1> SUFFICES ASSUME TypeOK, Placed, Moved PROVE OwnTurnMovable
  OBVIOUS
<1>1. \A t \in Tasks : pc[t] = "running" => run[t] \in Run /\ Movable(run[t])
  BY DEF Placed, Moved, AllMovable
<1>2. \A a \in approvals : a.run \in Run /\ Movable(a.run)
  BY DEF TypeOK, Suspended, Moved, AllMovable
<1>3. QED
  BY <1>1, <1>2, MovableExact DEF OwnTurnMovable

-----------------------------------------------------------------------------
(* The results *)

LEMMA Invariance == Spec => []IInv
<1>1. IInv /\ [Next]_vars => IInv'
  BY LockStep, VersionStep, HistoryStep DEF IInv
<1>2. QED
  BY InitIInv, <1>1, PTL DEF Spec

(* Every variable keeps its type: bound() and the shifts of turn_start     *)
(* (maybe_compact, rebase_onto_session) never leave their ranges.          *)
THEOREM TypeCorrect == Spec => []TypeOK
<1>1. IInv => TypeOK
  BY DEF IInv, LockInv
<1>2. QED
  BY Invariance, <1>1, PTL

(* lock_turn: no two top-level turns are ever inside one session.          *)
THEOREM MutualExclusion == Spec => []OneTurnAtATime
<1>1. IInv => OneTurnAtATime
  BY OneTurn DEF IInv
<1>2. QED
  BY Invariance, <1>1, PTL

(* lock_turn, save and rebase_onto_session together: what a turn will save *)
(* carries every turn already saved in its session.                        *)
THEOREM NothingOverwritten == Spec => []HistoryKept
<1>1. IInv => HistoryKept
  BY DEF IInv
<1>2. QED
  BY Invariance, <1>1, PTL

(* resolve_approval: the map of suspended runs gives a run out at most     *)
(* once, so a turn is never continued by two tasks, nor both carried and   *)
(* still waiting for its human.                                            *)
THEOREM ContinuedOnce == Spec => []OneLifePerTurn
<1>1. Init => OneLife
  BY DEF Init, OneLife, Carrying
<1>2. QED
  BY <1>1, Invariance, OneLifeStep, OneLifeCounts, PTL DEF Spec

(* maybe_compact and rebase_onto_session keep turn_start where the run's   *)
(* own messages begin, no later and no earlier: a rebase of a resumed run  *)
(* moves each of them, and repeats no message of the history.              *)
THEOREM RebaseMovesAll == Spec => []OwnTurnMovable
<1>1. Init => OneLife /\ Moved
  BY DEF Init, OneLife, Carrying, Moved, Unmixed, AllMovable, LiveRuns, Stored, Begun
<1>2. IInv /\ OneLife /\ Moved => OwnTurnMovable
  BY MovedHolds DEF IInv, LockInv
<1>3. QED
  BY <1>1, <1>2, Invariance, OneLifeStep, MovedStep, PTL DEF Spec

=============================================================================
