--------------------------- MODULE AgentRunProofs ---------------------------
(* Proofs about AgentRun, for any agents, tools, scopes, gates and bounds. *)
EXTENDS AgentRun, SequenceTheorems, FiniteSetTheorems, WellFoundedInduction, TLAPS

-----------------------------------------------------------------------------
(* Conversations: what the steps that cut and join them yield *)

LEMMA LeastExists ==
    ASSUME NEW S \in SUBSET Nat, S # {}
    PROVE  \E x \in S : \A y \in S : x <= y
<1>1. \E x \in S : \A y \in S : ~(<<y, x>> \in OpToRel(<, Nat))
  BY NatLessThanWellFounded, WFMin
<1>2. \A x, y \in Nat : <<y, x>> \in OpToRel(<, Nat) <=> y < x
  BY Zenon DEF OpToRel
<1>3. \E x \in S : \A y \in S : ~(y < x)
  BY <1>1, <1>2
<1>4. \A x, y \in S : ~(y < x) => x <= y
  OBVIOUS
<1>5. QED
  BY <1>3, <1>4

LEMMA GreatestExists ==
    ASSUME NEW n \in Nat, NEW S \in SUBSET (1..n), S # {}
    PROVE  Max(S) \in S
<1> DEFINE T == {n - x : x \in S}
<1>1. \A x \in S : n - x \in Nat
  OBVIOUS
<1>2. T \in SUBSET Nat /\ T # {}
  BY <1>1
<1>3. \E z \in T : \A y \in T : z <= y
  BY <1>2, LeastExists
<1>4. PICK x \in S : \A y \in S : n - x <= n - y
  BY <1>3
<1>5. \A y \in S : x >= y
  BY <1>4
<1>6. QED
  BY <1>5 DEF Max

(* What a cut keeps was there before it. *)
LEMMA SliceType ==
    ASSUME NEW conv \in Seq(Message), NEW m \in 1..Len(conv)
    PROVE  /\ SubSeq(conv, m, Len(conv)) \in Seq(Message)
           /\ Len(SubSeq(conv, m, Len(conv))) = Len(conv) - m + 1
           /\ \A i \in 1 .. Len(conv) - m + 1 :
                SubSeq(conv, m, Len(conv))[i] = conv[m + i - 1]
<1>1. Len(conv) \in Nat
  BY LenProperties
<1>2. \A i \in m..Len(conv) : conv[i] \in Message
  BY <1>1, ElementOfSeq
<1>3. QED
  BY <1>1, <1>2, SubSeqProperties

(* bound() keeps everything, or what follows a message that starts a turn. *)
LEMMA BoundCuts ==
    ASSUME NEW conv \in Seq(Message)
    PROVE  \/ Bound(conv) = conv
           \/ \E k \in 1..Len(conv) : conv[k].start /\ Bound(conv) = SubSeq(conv, k, Len(conv))
<1> DEFINE seen == TurnStartsSeen(conv)
           fitting == {i \in seen : Fits(conv, i)}
<1>1. Len(conv) \in Nat /\ DOMAIN conv = 1..Len(conv)
  BY LenProperties
<1>2. /\ seen \in SUBSET (1..Len(conv)) /\ fitting \in SUBSET seen
      /\ \A i \in seen : conv[i].start
  BY <1>1 DEF TurnStartsSeen
<1>3. FirstKept(conv) =
        IF conv = <<>> \/ Fits(conv, 1) THEN 1
        ELSE IF fitting # {} THEN Min(fitting)
        ELSE IF seen # {} THEN Max(seen)
        ELSE 1
  BY Zenon DEF FirstKept
<1> HIDE DEF seen, fitting
<1>4. fitting # {} => Min(fitting) \in fitting
  <2>1. SUFFICES ASSUME fitting # {} PROVE Min(fitting) \in fitting
    OBVIOUS
  <2>2. fitting \in SUBSET Nat
    BY <1>1, <1>2
  <2>3. \E x \in fitting : \A y \in fitting : x <= y
    BY <2>1, <2>2, LeastExists
  <2>4. QED
    BY <2>3, Zenon DEF Min
<1>5. seen # {} => Max(seen) \in seen
  BY <1>1, <1>2, GreatestExists
<1>6. FirstKept(conv) = 1 \/ FirstKept(conv) \in seen
  BY <1>2, <1>3, <1>4, <1>5, Zenon
<1>7. CASE FirstKept(conv) = 1
  BY <1>7, SubSeqFull DEF Bound
<1>8. CASE FirstKept(conv) \in seen
  BY <1>2, <1>8 DEF Bound
<1>9. QED
  BY <1>6, <1>7, <1>8

-----------------------------------------------------------------------------
(* The inductive invariant *)

Decided == ran \cup declined

(* A run that has looked at the calls `cs` up to `pos` and answered them    *)
(* with `rs`: the calls are named after the step that asked for them,      *)
(* nothing was decided of any at or after `pos`, each gated one that ran   *)
(* was approved, and its agent holds no more than its caller.              *)
Orderly(r, cs, pos, rs) ==
    /\ r.turn < nextTurn
    /\ \A i \in DOMAIN cs : cs[i].id = <<r.turn, r.steps, i>>
    /\ pos <= Len(cs) + 1
    /\ Len(rs) = pos - 1 /\ \A i \in DOMAIN rs : rs[i] = cs[i].id
    /\ \A id \in Decided :
        id[1] = r.turn => id[2] < r.steps \/ (id[2] = r.steps /\ id[3] < pos)
    /\ \A i \in DOMAIN cs : cs[i].id \in ran /\ cs[i].to \in Gated => cs[i].id \in approved
    /\ Allows(r.actor) \subseteq Allows(r.caller)

(* Each call is answered by the results right after it, but perhaps the    *)
(* last answer of a conversation that is open.                             *)
Whole(conv, open) ==
    /\ conv # <<>> => conv[1].start
    /\ \A i \in DOMAIN conv :
        /\ conv[i].start => conv[i].kind # "results"
        /\ conv[i].kind = "answer" /\ conv[i].ids # <<>> =>
            \/ open /\ i = Len(conv)
            \/ i < Len(conv) /\ conv[i + 1].kind = "results" /\ conv[i + 1].ids = conv[i].ids
        /\ conv[i].kind = "results" => i > 1 /\ conv[i - 1].ids = conv[i].ids

(* A run's own messages open with its question, or with the summary that   *)
(* stands for it.                                                          *)
OwnPart(r) == r.turn_start < Len(r.conv) /\ r.conv[r.turn_start + 1].start

(* A run among its calls: its last message asks for them. *)
Asking(r, cs) ==
    /\ Whole(r.conv, TRUE) /\ OwnPart(r)
    /\ r.conv[Len(r.conv)].kind = "answer" /\ r.conv[Len(r.conv)].ids = Ids(cs)
    /\ cs # <<>>

(* The run in control, and what a human has let through. *)
InControl ==
    /\ st = NoRun => calls = <<>> /\ results = <<>>
    /\ st # NoRun => Orderly(st, calls, at, results)
    /\ phase # "calling" => at = Len(calls) + 1 /\ ~cleared
    /\ cleared => at \in DOMAIN calls /\ calls[at].id \in approved

Waiting == \A p \in parked : Orderly(p.st, p.calls, p.gated, p.results) /\ Asking(p.st, p.calls)

(* The runs on the session are told apart by their turns. *)
Apart ==
    /\ st # NoRun => \A p \in parked : p.st.turn # st.turn
    /\ \A p, q \in parked : p.st.turn = q.st.turn => p = q

Audited == ran \cap declined = {} /\ \A id \in Decided : id[1] < nextTurn

Conversations ==
    /\ Whole(saved.conv, FALSE)
    /\ phase \in {"top", "compacting", "asking"} => Whole(st.conv, FALSE) /\ OwnPart(st)
    /\ phase = "calling" => Asking(st, calls)

IInv == TypeOK /\ InControl /\ Waiting /\ Apart /\ Audited /\ Conversations

-----------------------------------------------------------------------------
(* What keeps a conversation whole *)

LEMMA PlainType ==
    ASSUME NEW kind \in {"question", "summary", "answer", "results"}, NEW ids \in Seq(CallId)
    PROVE  /\ Plain(kind, ids) \in Message
           /\ Plain(kind, ids).kind = kind /\ Plain(kind, ids).ids = ids
           /\ kind \in {"question", "summary"} => Plain(kind, ids).start
           /\ kind \notin {"question", "summary"} => ~Plain(kind, ids).start
<1>1. CASE kind \in {"question", "summary"}
  <2>1. Plain(kind, ids) = [kind |-> kind, ids |-> ids, start |-> TRUE, size |-> 1]
    BY <1>1 DEF Plain
  <2>2. QED
    BY <1>1, <2>1 DEF Message
<1>2. CASE kind \notin {"question", "summary"}
  <2>1. Plain(kind, ids) = [kind |-> kind, ids |-> ids, start |-> FALSE, size |-> 1]
    <3>1. (kind \in {"question", "summary"}) = FALSE
      BY <1>2
    <3>2. QED
      BY <3>1, Zenon DEF Plain
  <2>2. QED
    BY <1>2, <2>1 DEF Message
<1>3. QED
  BY <1>1, <1>2

LEMMA WholePaired ==
    ASSUME NEW conv \in Seq(Message), Whole(conv, FALSE)
    PROVE  Paired(conv)
  BY DEF Whole, Paired

(* A run starts with a question, and an answer without calls ends one.     *)
LEMMA WholeSaid ==
    ASSUME NEW conv \in Seq(Message), Whole(conv, FALSE), NEW m \in Message,
           m.kind # "results", conv = <<>> => m.start,
           NEW open \in BOOLEAN, m.kind = "answer" /\ m.ids # <<>> => open
    PROVE  Whole(Append(conv, m), open)
<1> DEFINE c == Append(conv, m)
<1>1. /\ c \in Seq(Message) /\ Len(c) = Len(conv) + 1
      /\ \A i \in 1..Len(conv) : c[i] = conv[i]
      /\ c[Len(conv) + 1] = m
  BY AppendProperties
<1>2. /\ Len(conv) \in Nat /\ DOMAIN conv = 1..Len(conv) /\ DOMAIN c = 1..Len(conv) + 1
      /\ conv = <<>> <=> Len(conv) = 0
  BY <1>1, LenProperties, EmptySeq
<1>3. conv = <<>> => m.start
  OBVIOUS
<1> HIDE DEF c
<1>4. c[1].start
  BY <1>1, <1>2, <1>3 DEF Whole
<1>5. ASSUME NEW i \in 1..Len(conv)
      PROVE  /\ c[i].start => c[i].kind # "results"
             /\ c[i].kind = "answer" /\ c[i].ids # <<>> =>
                 i < Len(c) /\ c[i + 1].kind = "results" /\ c[i + 1].ids = c[i].ids
             /\ c[i].kind = "results" => i > 1 /\ c[i - 1].ids = c[i].ids
  <2>1. /\ conv[i].start => conv[i].kind # "results"
        /\ conv[i].kind = "answer" /\ conv[i].ids # <<>> =>
             i < Len(conv) /\ conv[i + 1].kind = "results" /\ conv[i + 1].ids = conv[i].ids
        /\ conv[i].kind = "results" => i > 1 /\ conv[i - 1].ids = conv[i].ids
    BY <1>2 DEF Whole
  <2>2. c[i] = conv[i]
    BY <1>1
  <2>3. i < Len(conv) => c[i + 1] = conv[i + 1]
    BY <1>1, <1>2
  <2>4. i > 1 => c[i - 1] = conv[i - 1]
    BY <1>1, <1>2
  <2>5. QED
    BY <1>1, <1>2, <2>1, <2>2, <2>3, <2>4
<1>6. QED
  BY <1>1, <1>2, <1>4, <1>5 DEF Whole, c

(* The results that answer the last message close a conversation.          *)
LEMMA WholeAnswered ==
    ASSUME NEW conv \in Seq(Message), Whole(conv, TRUE), conv # <<>>,
           NEW m \in Message, ~m.start, m.kind = "results", m.ids = conv[Len(conv)].ids
    PROVE  Whole(Append(conv, m), FALSE)
<1> DEFINE c == Append(conv, m)
           n == Len(conv)
<1>1. /\ c \in Seq(Message) /\ Len(c) = n + 1
      /\ \A i \in 1..n : c[i] = conv[i]
      /\ c[n + 1] = m
  BY AppendProperties
<1>2. n \in Nat \ {0} /\ DOMAIN conv = 1..n /\ DOMAIN c = 1..n + 1
  BY <1>1, LenProperties, EmptySeq
<1> HIDE DEF c, n
<1>3. c[1].start
  BY <1>1, <1>2 DEF Whole
<1>4. c # <<>> => c[1].start
  BY <1>3
<1>5. ASSUME NEW i \in 1..n
      PROVE  /\ c[i].start => c[i].kind # "results"
             /\ c[i].kind = "answer" /\ c[i].ids # <<>> =>
                 i < n + 1 /\ c[i + 1].kind = "results" /\ c[i + 1].ids = c[i].ids
             /\ c[i].kind = "results" => i > 1 /\ c[i - 1].ids = c[i].ids
  <2>1. /\ conv[i].start => conv[i].kind # "results"
        /\ conv[i].kind = "answer" /\ conv[i].ids # <<>> =>
             \/ i = n
             \/ i < n /\ conv[i + 1].kind = "results" /\ conv[i + 1].ids = conv[i].ids
        /\ conv[i].kind = "results" => i > 1 /\ conv[i - 1].ids = conv[i].ids
    BY <1>2 DEF Whole, n
  <2>2. c[i] = conv[i]
    BY <1>1
  <2>3. i < n => c[i + 1] = conv[i + 1]
    BY <1>1, <1>2
  <2>4. i > 1 => c[i - 1] = conv[i - 1]
    BY <1>1, <1>2
  <2>5. i = n => c[i + 1].kind = "results" /\ c[i + 1].ids = c[i].ids
    BY <1>1, <2>2 DEF n
  <2>6. QED
    BY <1>2, <2>1, <2>2, <2>3, <2>4, <2>5
<1>6. /\ c[n + 1].kind = "results" /\ ~c[n + 1].start
      /\ n + 1 > 1 /\ c[n].ids = c[n + 1].ids
  BY <1>1, <1>2 DEF n
<1>7. QED
  BY <1>1, <1>2, <1>4, <1>5, <1>6 DEF Whole, c

(* What follows a message that starts a turn is whole by itself.           *)
LEMMA WholeTail ==
    ASSUME NEW conv \in Seq(Message), NEW open \in BOOLEAN, Whole(conv, open),
           NEW k \in 1..Len(conv), conv[k].start
    PROVE  Whole(SubSeq(conv, k, Len(conv)), open)
<1> DEFINE c == SubSeq(conv, k, Len(conv))
           n == Len(conv)
<1>1. /\ c \in Seq(Message) /\ Len(c) = n - k + 1
      /\ \A i \in 1 .. n - k + 1 : c[i] = conv[k + i - 1]
  BY SliceType
<1>2. n \in Nat /\ k \in 1..n /\ DOMAIN conv = 1..n /\ DOMAIN c = 1 .. n - k + 1
  BY <1>1, LenProperties
<1> HIDE DEF c, n
<1>3. c[1] = conv[k]
  BY <1>1, <1>2
<1>4. ASSUME NEW i \in 1 .. n - k + 1
      PROVE  /\ c[i].start => c[i].kind # "results"
             /\ c[i].kind = "answer" /\ c[i].ids # <<>> =>
                 \/ open /\ i = Len(c)
                 \/ i < Len(c) /\ c[i + 1].kind = "results" /\ c[i + 1].ids = c[i].ids
             /\ c[i].kind = "results" => i > 1 /\ c[i - 1].ids = c[i].ids
  <2> DEFINE j == k + i - 1
  <2>1. j \in 1..n /\ (i < n - k + 1 <=> j < n) /\ (i = n - k + 1 <=> j = n)
    BY <1>2
  <2>2. /\ conv[j].start => conv[j].kind # "results"
        /\ conv[j].kind = "answer" /\ conv[j].ids # <<>> =>
             \/ open /\ j = n
             \/ j < n /\ conv[j + 1].kind = "results" /\ conv[j + 1].ids = conv[j].ids
        /\ conv[j].kind = "results" => j > 1 /\ conv[j - 1].ids = conv[j].ids
    BY <1>2, <2>1 DEF Whole, n
  <2>3. c[i] = conv[j]
    BY <1>1
  <2>4. i < n - k + 1 => c[i + 1] = conv[j + 1]
    <3>1. ASSUME i < n - k + 1 PROVE c[i + 1] = conv[j + 1]
      <4>1. i + 1 \in 1 .. n - k + 1 /\ k + (i + 1) - 1 = j + 1
        BY <1>2, <3>1
      <4>2. QED
        BY <1>1, <4>1
    <3>2. QED
      BY <3>1
  <2>5. i > 1 => c[i - 1] = conv[j - 1]
    <3>1. ASSUME i > 1 PROVE c[i - 1] = conv[j - 1]
      <4>1. i - 1 \in 1 .. n - k + 1 /\ k + (i - 1) - 1 = j - 1
        BY <1>2, <3>1
      <4>2. QED
        BY <1>1, <4>1
    <3>2. QED
      BY <3>1
  <2>6. i = 1 => c[i].kind # "results"
    <3>1. conv[k].kind # "results"
      BY <1>2 DEF Whole
    <3>2. QED
      BY <1>3, <3>1
  <2> HIDE DEF j
  <2>7. c[i].start => c[i].kind # "results"
    BY <2>2, <2>3
  <2>8. c[i].kind = "results" => i > 1 /\ c[i - 1].ids = c[i].ids
    BY <1>2, <2>2, <2>3, <2>5, <2>6
  <2>9. c[i].kind = "answer" /\ c[i].ids # <<>> =>
            \/ open /\ i = Len(c)
            \/ i < Len(c) /\ c[i + 1].kind = "results" /\ c[i + 1].ids = c[i].ids
    BY <1>1, <2>1, <2>2, <2>3, <2>4
  <2>10. QED
    BY <2>7, <2>8, <2>9
<1>5. QED
  BY <1>1, <1>2, <1>3, <1>4 DEF Whole, c

LEMMA WholeBound ==
    ASSUME NEW conv \in Seq(Message), Whole(conv, FALSE)
    PROVE  Bound(conv) \in Seq(Message) /\ Whole(Bound(conv), FALSE)
  BY BoundCuts, WholeTail, SliceType

(* A run's own messages go on after any other conversation.                *)
LEMMA WholeJoin ==
    ASSUME NEW c1 \in Seq(Message), Whole(c1, FALSE),
           NEW c2 \in Seq(Message), NEW open \in BOOLEAN, Whole(c2, open), c2 # <<>>
    PROVE  Whole(c1 \o c2, open)
<1> DEFINE c == c1 \o c2
           m == Len(c1)
           n == Len(c2)
<1>1. /\ c \in Seq(Message) /\ Len(c) = m + n
      /\ \A i \in 1 .. m + n : c[i] = IF i <= m THEN c1[i] ELSE c2[i - m]
  BY ConcatProperties
<1>2. /\ m \in Nat /\ n \in Nat \ {0}
      /\ DOMAIN c1 = 1..m /\ DOMAIN c2 = 1..n /\ DOMAIN c = 1 .. m + n
  BY <1>1, LenProperties, EmptySeq
<1>3. c1 # <<>> <=> m > 0
  BY <1>2, EmptySeq, LenProperties
<1> HIDE DEF c, m, n
<1>4. c[1].start
  <2>1. CASE m > 0
    <3>1. c[1] = c1[1] /\ c1[1].start
      BY <1>1, <1>2, <1>3, <2>1 DEF Whole
    <3>2. QED
      BY <3>1
  <2>2. CASE m = 0
    <3>1. c[1] = c2[1] /\ c2[1].start
      BY <1>1, <1>2, <2>2 DEF Whole
    <3>2. QED
      BY <3>1
  <2>3. QED
    BY <1>2, <2>1, <2>2
<1> DEFINE Good(i) ==
        /\ c[i].start => c[i].kind # "results"
        /\ c[i].kind = "answer" /\ c[i].ids # <<>> =>
            \/ open /\ i = Len(c)
            \/ i < Len(c) /\ c[i + 1].kind = "results" /\ c[i + 1].ids = c[i].ids
        /\ c[i].kind = "results" => i > 1 /\ c[i - 1].ids = c[i].ids
<1>5. ASSUME NEW i \in 1..m PROVE Good(i)
  <2>1. /\ c1[i].start => c1[i].kind # "results"
        /\ c1[i].kind = "answer" /\ c1[i].ids # <<>> =>
             i < m /\ c1[i + 1].kind = "results" /\ c1[i + 1].ids = c1[i].ids
        /\ c1[i].kind = "results" => i > 1 /\ c1[i - 1].ids = c1[i].ids
    BY <1>2 DEF Whole, m
  <2>2. c[i] = c1[i]
    BY <1>1, <1>2
  <2>3. i < m => c[i + 1] = c1[i + 1]
    BY <1>1, <1>2
  <2>4. i > 1 => c[i - 1] = c1[i - 1]
    BY <1>1, <1>2
  <2>5. QED
    BY <1>1, <1>2, <2>1, <2>2, <2>3, <2>4
<1>6. ASSUME NEW j \in 1..n PROVE Good(m + j)
  <2>1. /\ c2[j].start => c2[j].kind # "results"
        /\ c2[j].kind = "answer" /\ c2[j].ids # <<>> =>
             \/ open /\ j = n
             \/ j < n /\ c2[j + 1].kind = "results" /\ c2[j + 1].ids = c2[j].ids
        /\ c2[j].kind = "results" => j > 1 /\ c2[j - 1].ids = c2[j].ids
    BY <1>2 DEF Whole, n
  <2>2. \A h \in 1..n : c[m + h] = c2[h]
    <3>1. \A i \in 1 .. m + n : ~(i <= m) => c[i] = c2[i - m]
      BY <1>1
    <3>2. ASSUME NEW h \in 1..n PROVE c[m + h] = c2[h]
      <4>1. m + h \in 1 .. m + n /\ ~(m + h <= m) /\ (m + h) - m = h
        BY <1>2
      <4>2. c[m + h] = c2[(m + h) - m]
        BY <3>1, <4>1, Zenon
      <4>3. QED
        BY <4>1, <4>2
    <3>3. QED
      BY <3>2
  <2>3. c[m + j] = c2[j]
    BY <2>2
  <2>4. j < n => c[m + j + 1] = c2[j + 1]
    <3>1. ASSUME j < n PROVE j + 1 \in 1..n /\ m + (j + 1) = m + j + 1
      BY <1>2, <3>1
    <3>2. QED
      BY <2>2, <3>1
  <2>5. j > 1 => c[(m + j) - 1] = c2[j - 1]
    <3>1. ASSUME j > 1 PROVE j - 1 \in 1..n /\ m + (j - 1) = (m + j) - 1
      BY <1>2, <3>1
    <3>2. QED
      BY <2>2, <3>1
  <2>6. /\ (j < n => m + j < Len(c)) /\ (j = n => m + j = Len(c))
        /\ (j > 1 => m + j > 1)
    BY <1>1, <1>2
  <2>7. c[m + j].kind = "results" => m + j > 1 /\ c[(m + j) - 1].ids = c[m + j].ids
    BY <2>1, <2>3, <2>5, <2>6
  <2>8. c[m + j].kind = "answer" /\ c[m + j].ids # <<>> =>
            \/ open /\ m + j = Len(c)
            \/ m + j < Len(c) /\ c[m + j + 1].kind = "results" /\ c[m + j + 1].ids = c[m + j].ids
    BY <2>1, <2>3, <2>4, <2>6
  <2>9. c[m + j].start => c[m + j].kind # "results"
    BY <2>1, <2>3
  <2>10. QED
    BY <2>7, <2>8, <2>9
<1>7. \A i \in 1 .. m + n : Good(i)
  <2>1. ASSUME NEW i \in 1 .. m + n, i > m PROVE Good(i)
    <3>1. i - m \in 1..n /\ m + (i - m) = i
      BY <1>2, <2>1
    <3> HIDE DEF Good
    <3>2. Good(m + (i - m))
      BY <1>6, <3>1
    <3>3. QED
      BY <3>1, <3>2
  <2>2. \A i \in 1 .. m + n : i \in 1..m \/ i > m
    BY <1>2
  <2> HIDE DEF Good
  <2>3. QED
    BY <1>5, <2>1, <2>2
<1>8. QED
  BY <1>1, <1>2, <1>4, <1>7 DEF Whole, c

(* A summary stands for what comes before an answer.                       *)
LEMMA WholeCompacted ==
    ASSUME NEW conv \in Seq(Message), Whole(conv, FALSE),
           NEW k \in 1..Len(conv), conv[k].kind = "answer"
    PROVE  LET c == <<Plain("summary", <<>>)>> \o SubSeq(conv, k, Len(conv))
           IN  /\ Whole(c, FALSE)
               /\ c \in Seq(Message) /\ Len(c) = Len(conv) - k + 2 /\ c[1].start
               /\ \A i \in 2 .. Len(conv) - k + 2 : c[i] = conv[k + i - 2]
<1> DEFINE s == Plain("summary", <<>>)
           t == SubSeq(conv, k, Len(conv))
           n == Len(conv)
           c == <<s>> \o t
<1>1. /\ t \in Seq(Message) /\ Len(t) = n - k + 1
      /\ \A i \in 1 .. n - k + 1 : t[i] = conv[k + i - 1]
  BY SliceType
<1>2. s \in Message /\ s.kind = "summary" /\ s.start
  <2>1. <<>> \in Seq(CallId)
    BY EmptySeq
  <2>2. QED
    BY <2>1, PlainType
<1> HIDE DEF s, t
<1>3. <<s>> \in Seq(Message) /\ Len(<<s>>) = 1 /\ <<s>>[1] = s
  BY <1>2
<1>4. /\ n \in Nat /\ k \in 1..n /\ DOMAIN conv = 1..n
  BY LenProperties
<1>5. /\ c \in Seq(Message) /\ Len(c) = n - k + 2
      /\ \A i \in 1 .. n - k + 2 : c[i] = IF i <= 1 THEN <<s>>[i] ELSE t[i - 1]
  <2>1. /\ c \in Seq(Message) /\ Len(c) = Len(<<s>>) + Len(t)
        /\ \A i \in 1 .. Len(<<s>>) + Len(t) :
             c[i] = IF i <= Len(<<s>>) THEN <<s>>[i] ELSE t[i - Len(<<s>>)]
    BY <1>1, <1>3, ConcatProperties
  <2>2. Len(<<s>>) + Len(t) = n - k + 2
    BY <1>1, <1>3, <1>4
  <2> HIDE DEF c
  <2>3. QED
    BY <1>3, <2>1, <2>2
<1>6. DOMAIN c = 1 .. n - k + 2
  BY <1>5, LenProperties
<1> HIDE DEF c, n
<1>7. c[1] = s
  BY <1>3, <1>4, <1>5
<1>8. \A i \in 2 .. n - k + 2 : c[i] = conv[k + i - 2]
  <2>1. ASSUME NEW i \in 2 .. n - k + 2 PROVE c[i] = conv[k + i - 2]
    <3>1. i - 1 \in 1 .. n - k + 1 /\ ~(i <= 1) /\ i \in 1 .. n - k + 2
          /\ k + (i - 1) - 1 = k + i - 2
      BY <1>4
    <3>2. c[i] = t[i - 1]
      BY <1>5, <3>1
    <3>3. t[i - 1] = conv[k + (i - 1) - 1]
      BY <1>1, <3>1
    <3>4. QED
      BY <3>1, <3>2, <3>3
  <2>2. QED
    BY <2>1
<1>9. ASSUME NEW i \in 2 .. n - k + 2
      PROVE  /\ c[i].start => c[i].kind # "results"
             /\ c[i].kind = "answer" /\ c[i].ids # <<>> =>
                 i < Len(c) /\ c[i + 1].kind = "results" /\ c[i + 1].ids = c[i].ids
             /\ c[i].kind = "results" => i > 1 /\ c[i - 1].ids = c[i].ids
  <2> DEFINE j == k + i - 2
  <2>1. j \in 1..n /\ (i < n - k + 2 <=> j < n)
    BY <1>4
  <2>2. /\ conv[j].start => conv[j].kind # "results"
        /\ conv[j].kind = "answer" /\ conv[j].ids # <<>> =>
             j < n /\ conv[j + 1].kind = "results" /\ conv[j + 1].ids = conv[j].ids
        /\ conv[j].kind = "results" => j > 1 /\ conv[j - 1].ids = conv[j].ids
    BY <1>4, <2>1 DEF Whole, n
  <2>3. c[i] = conv[j]
    BY <1>8
  <2>4. i < n - k + 2 => c[i + 1] = conv[j + 1]
    <3>1. ASSUME i < n - k + 2 PROVE i + 1 \in 2 .. n - k + 2 /\ k + (i + 1) - 2 = j + 1
      BY <1>4, <3>1
    <3>2. QED
      BY <1>8, <3>1
  <2>5. i > 2 => c[i - 1] = conv[j - 1]
    <3>1. ASSUME i > 2 PROVE i - 1 \in 2 .. n - k + 2 /\ k + (i - 1) - 2 = j - 1
      BY <1>4, <3>1
    <3>2. QED
      BY <1>8, <3>1
  <2>6. i = 2 => c[i].kind # "results"
    <3>1. i = 2 => j = k
      BY <1>4
    <3>2. QED
      BY <2>3, <3>1
  <2> HIDE DEF j
  <2>7. c[i].kind = "results" => i > 1 /\ c[i - 1].ids = c[i].ids
    BY <1>4, <2>2, <2>3, <2>5, <2>6
  <2>8. QED
    BY <1>5, <2>1, <2>2, <2>3, <2>4, <2>7
<1>10. 1 .. n - k + 2 = {1} \cup 2 .. n - k + 2
  BY <1>4
<1>11. Whole(c, FALSE)
  BY <1>2, <1>6, <1>7, <1>9, <1>10 DEF Whole
<1>12. c[1].start
  BY <1>2, <1>7
<1>13. QED
  BY <1>5, <1>8, <1>11, <1>12 DEF c, s, t, n

-----------------------------------------------------------------------------
(* Type correctness *)

LEMMA PowersAreNaturals == \A n \in Nat : 2^n \in Nat
<1>1. ASSUME NEW n \in Nat PROVE 2^n \in Nat
  <2>1. IsFiniteSet(1..n) /\ Cardinality(1..n) = n
    BY FS_Interval
  <2>2. IsFiniteSet(SUBSET (1..n)) /\ Cardinality(SUBSET (1..n)) = 2^n
    BY <2>1, FS_SUBSET
  <2>3. QED
    BY <2>2, FS_CardinalityType
<1>2. QED
  BY <1>1

LEMMA IdsType ==
    ASSUME NEW cs \in Seq(Call)
    PROVE  /\ Ids(cs) \in Seq(CallId) /\ Len(Ids(cs)) = Len(cs)
           /\ \A i \in 1..Len(cs) : Ids(cs)[i] = cs[i].id
<1>1. Len(cs) \in Nat /\ DOMAIN cs = 1..Len(cs)
  BY LenProperties
<1>2. \A i \in 1..Len(cs) : cs[i].id \in CallId
  <2>1. \A i \in 1..Len(cs) : cs[i] \in Call
    BY ElementOfSeq
  <2>2. QED
    BY <2>1 DEF Call
<1>3. Ids(cs) = [i \in 1..Len(cs) |-> cs[i].id]
  BY <1>1 DEF Ids
<1>4. QED
  BY <1>1, <1>2, <1>3

LEMMA DelegatedType ==
    ASSUME NEW held \in SUBSET Grant, NEW declared \in SUBSET Grant
    PROVE  /\ Delegated(held, declared) \in SUBSET Grant
           /\ Allows(Delegated(held, declared)) \subseteq Allows(held)
  BY DEF Delegated, Allows, HasScope

LEMMA HandoffActorType ==
    ASSUME NEW caller \in SUBSET Grant, NEW actor \in SUBSET Grant, NEW next \in Agents
    PROVE  /\ HandoffActor(caller, actor, next) \in SUBSET Grant
           /\ Allows(HandoffActor(caller, actor, next)) \subseteq Allows(actor)
<1>1. ScopesOf[next] \in SUBSET Grant
  BY AgentAssumption
<1>2. Delegated(caller, ScopesOf[next]) \in SUBSET Grant
  BY <1>1, DelegatedType
<1>3. QED
  BY <1>2 DEF HandoffActor, Allows, HasScope

(* Paying for an answer changes nothing else of a run. *)
SameRun(c, r) ==
    /\ c.turn = r.turn /\ c.caller = r.caller /\ c.actor = r.actor
    /\ c.conv = r.conv /\ c.turn_start = r.turn_start /\ c.steps = r.steps

LEMMA ChargedType ==
    ASSUME NEW r \in RunState, NEW c \in Charged(r)
    PROVE  c \in RunState /\ SameRun(c, r)
  BY DEF Charged, RunState, SameRun

(* What a run's parts are made of. *)
LEMMA RunParts ==
    ASSUME NEW r \in RunState
    PROVE  /\ r.turn \in 1..MaxTurns /\ r.def \in Agents
           /\ r.caller \in SUBSET Grant /\ r.actor \in SUBSET Grant
           /\ r.conv \in Seq(Message) /\ r.turn_start \in Nat /\ r.steps \in Nat
           /\ r.rev \in Nat /\ r.failures \in Nat
  BY DEF RunState

LEMMA AnsweredType ==
    ASSUME st \in RunState, NEW c \in Answered
    PROVE  /\ c \in RunState
           /\ c.turn = st.turn /\ c.caller = st.caller /\ c.actor = st.actor
           /\ c.turn_start = st.turn_start /\ c.steps = st.steps + 1
<1> DEFINE n == st.steps + 1
           next(b) == [st EXCEPT !.steps = n, !.big = b]
<1>1. n \in Nat
  BY RunParts
<1>2. PICK b \in BOOLEAN : c \in Charged(next(b))
  BY DEF Answered
<1> HIDE DEF n
<1>3. /\ next(b) \in RunState
      /\ next(b).turn = st.turn /\ next(b).caller = st.caller /\ next(b).actor = st.actor
      /\ next(b).turn_start = st.turn_start /\ next(b).steps = n
  BY <1>1 DEF RunState
<1> HIDE DEF next
<1>4. c \in RunState /\ SameRun(c, next(b))
  BY <1>2, <1>3, ChargedType
<1>5. QED
  BY <1>3, <1>4 DEF SameRun, n

LEMMA SaidType ==
    ASSUME NEW r \in RunState, NEW conv \in Seq(Message)
    PROVE  /\ [r EXCEPT !.conv = conv] \in RunState
           /\ [r EXCEPT !.conv = conv].conv = conv
  BY DEF RunState

(* Rebasing keeps a run's type. *)
LEMMA RebasedType ==
    ASSUME TypeOK, NEW r \in RunState, r.turn_start < Len(r.conv)
    PROVE  /\ Rebased(r) \in RunState
           /\ Rebased(r).turn = r.turn /\ Rebased(r).steps = r.steps
           /\ Rebased(r).caller = r.caller /\ Rebased(r).actor = r.actor
           /\ Rebased(r).def = r.def
           /\ \/ Rebased(r) = r
              \/ /\ Rebased(r).conv = saved.conv
                                      \o SubSeq(r.conv, r.turn_start + 1, Len(r.conv))
                 /\ Rebased(r).turn_start = Len(saved.conv)
<1> DEFINE own == SubSeq(r.conv, r.turn_start + 1, Len(r.conv))
           both == saved.conv \o own
           start == Len(saved.conv)
           rev == saved.rev
<1>1. r.conv \in Seq(Message) /\ r.turn_start + 1 \in 1..Len(r.conv)
  <2>1. r.conv \in Seq(Message) /\ r.turn_start \in Nat
    BY DEF RunState
  <2>2. Len(r.conv) \in Nat
    BY <2>1, LenProperties
  <2>3. QED
    BY <2>1, <2>2
<1>2. own \in Seq(Message)
  BY <1>1, SliceType
<1>3. both \in Seq(Message) /\ start \in Nat /\ rev \in Nat
  BY <1>2, ConcatProperties, LenProperties DEF TypeOK
<1>4. \/ Rebased(r) = r
      \/ Rebased(r) = [r EXCEPT !.conv = both, !.turn_start = start, !.rev = rev]
  BY DEF Rebased
<1> HIDE DEF both, start, rev
<1>5. QED
  <2>1. CASE Rebased(r) = r
    BY <2>1
  <2>2. CASE Rebased(r) = [r EXCEPT !.conv = both, !.turn_start = start, !.rev = rev]
    <3>1. Rebased(r) \in RunState
      BY <1>3, <2>2 DEF RunState
    <3>2. /\ Rebased(r).turn = r.turn /\ Rebased(r).steps = r.steps
          /\ Rebased(r).caller = r.caller /\ Rebased(r).actor = r.actor
          /\ Rebased(r).def = r.def
      BY <2>2 DEF RunState
    <3>3. Rebased(r).conv = both /\ Rebased(r).turn_start = start
      BY <2>2 DEF RunState
    <3>4. QED
      BY <3>1, <3>2, <3>3 DEF both, start
  <2>3. QED
    BY <1>4, <2>1, <2>2

-----------------------------------------------------------------------------
(* The steps keep the invariant *)

LEMMA InitIInv == Init => IInv
<1>1. SUFFICES ASSUME Init PROVE IInv
  OBVIOUS
<1>2. <<>> \in Seq(Message) /\ <<>> \in Seq(Call) /\ <<>> \in Seq(CallId)
  BY EmptySeq
<1>3. Len(<<>>) = 0
  BY EmptySeq
<1>4. saved.conv = <<>> /\ saved.rev = 0
  BY <1>1 DEF Init
<1>5. TypeOK
  <2>1. /\ st = NoRun /\ phase = "idle" /\ calls = <<>> /\ at = 1 /\ results = <<>>
        /\ cleared = FALSE /\ parked = {} /\ revisions = 0 /\ nextTurn = 1
        /\ ran = {} /\ approved = {} /\ declined = {}
    BY <1>1 DEF Init
  <2>2. calls \in Seq(Call) /\ results \in Seq(CallId) /\ saved.conv \in Seq(Message)
    BY <1>2, <1>4, <2>1, Zenon
  <2>3. /\ st \in RunState \cup {NoRun}
        /\ phase \in {"idle", "top", "compacting", "asking", "calling"}
        /\ phase = "idle" <=> st = NoRun
    BY <2>1
  <2>4. cleared \in BOOLEAN
    BY <2>1, Zenon
  <2>5. /\ at \in Nat \ {0}
        /\ saved.rev \in Nat /\ revisions \in Nat /\ nextTurn \in Nat \ {0}
    BY <1>4, <2>1
  <2>6. /\ ran \subseteq CallId /\ approved \subseteq CallId /\ declined \subseteq CallId
        /\ \A p \in parked : FALSE
    BY <2>1
  <2>7. QED
    BY <2>2, <2>3, <2>4, <2>5, <2>6, Zenon DEF TypeOK
<1>6. Whole(<<>>, FALSE)
  BY EmptySeq DEF Whole
<1>7. InControl /\ Waiting /\ Apart /\ Audited
  BY <1>1, <1>3 DEF Init, InControl, Waiting, Apart, Audited, Decided
<1>8. Conversations
  <2>1. phase = "idle" /\ Whole(saved.conv, FALSE)
    BY <1>1, <1>4, <1>6, Zenon DEF Init
  <2>2. QED
    BY <2>1 DEF Conversations
<1>9. QED
  BY <1>5, <1>7, <1>8 DEF IInv

(* What is decided of other runs' calls leaves a run in order. *)
LEMMA WaitingKept ==
    ASSUME TypeOK, Waiting, NEW p \in parked,
           nextTurn' \in Nat, nextTurn <= nextTurn', approved \subseteq approved',
           \A id \in (ran' \ ran) \cup (declined' \ declined) : id[1] # p.st.turn
    PROVE  Orderly(p.st, p.calls, p.gated, p.results)' /\ Asking(p.st, p.calls)'
<1>1. Orderly(p.st, p.calls, p.gated, p.results) /\ Asking(p.st, p.calls)
  BY DEF Waiting
<1>2. p.st.turn \in Nat /\ nextTurn \in Nat
  BY RunParts DEF TypeOK
<1>3. p.st.turn < nextTurn'
  BY <1>1, <1>2 DEF Orderly
<1>4. \A id \in Decided' : id[1] = p.st.turn => id \in Decided
  BY DEF Decided
<1>5. \A i \in DOMAIN p.calls : p.calls[i].id[1] = p.st.turn
  BY <1>1 DEF Orderly
<1>6. \A i \in DOMAIN p.calls : p.calls[i].id \in ran' => p.calls[i].id \in ran
  BY <1>5
<1>7. QED
  BY <1>1, <1>3, <1>4, <1>6 DEF Orderly, Asking

(* Control ends: the run is over, dropped, or parked with its calls.       *)
LEMMA FreedKeeps ==
    ASSUME IInv, Free, UNCHANGED <<nextTurn, auditVars>>,
           saved'.conv \in Seq(Message), saved'.rev \in Nat, revisions' \in Nat,
           Whole(saved'.conv, FALSE),
           \A p \in parked' :
              \/ p \in parked
              \/ /\ phase = "calling" /\ at \in DOMAIN calls
                 /\ p = [st |-> st, calls |-> calls, gated |-> at, results |-> results],
           \A p, q \in parked' : p \in parked \/ q \in parked \/ p = q
    PROVE  IInv'
<1>1. /\ TypeOK /\ InControl /\ Waiting /\ Apart /\ Audited /\ Conversations
      /\ st' = NoRun /\ phase' = "idle" /\ calls' = <<>> /\ at' = 1 /\ results' = <<>>
      /\ cleared' = FALSE
      /\ nextTurn' = nextTurn /\ ran' = ran /\ approved' = approved /\ declined' = declined
  BY DEF IInv, Free, auditVars
<1>2. \A p \in parked' \ parked :
        /\ phase = "calling" /\ st # NoRun /\ at \in DOMAIN calls
        /\ p.st = st /\ p.calls = calls /\ p.gated = at /\ p.results = results
  BY <1>1 DEF TypeOK
<1>3. ASSUME NEW p \in parked'
      PROVE  /\ p.st \in RunState /\ p.calls \in Seq(Call)
             /\ p.gated \in DOMAIN p.calls /\ p.results \in Seq(CallId)
             /\ Orderly(p.st, p.calls, p.gated, p.results) /\ Asking(p.st, p.calls)
  <2>1. CASE p \in parked
    BY <1>1, <2>1 DEF TypeOK, Waiting
  <2>2. CASE p \notin parked
    BY <1>1, <1>2, <2>2 DEF TypeOK, InControl, Conversations
  <2>3. QED
    BY <2>1, <2>2
<1>4. <<>> \in Seq(Call) /\ <<>> \in Seq(CallId) /\ Len(<<>>) = 0
  BY EmptySeq
<1>5. TypeOK'
  <2>1. calls' \in Seq(Call) /\ results' \in Seq(CallId)
    BY <1>1, <1>4, Zenon
  <2>2. /\ st' \in RunState \cup {NoRun}
        /\ phase' \in {"idle", "top", "compacting", "asking", "calling"}
        /\ phase' = "idle" <=> st' = NoRun
    BY <1>1
  <2>3. cleared' \in BOOLEAN
    BY <1>1, Zenon
  <2>4. at' \in Nat \ {0}
    BY <1>1
  <2>5. \A p \in parked' : /\ p.st \in RunState /\ p.calls \in Seq(Call)
                           /\ p.gated \in DOMAIN p.calls /\ p.results \in Seq(CallId)
    BY <1>3
  <2>6. /\ nextTurn' \in Nat \ {0} /\ ran' \subseteq CallId
        /\ approved' \subseteq CallId /\ declined' \subseteq CallId
    BY <1>1 DEF TypeOK
  <2>7. QED
    BY <2>1, <2>2, <2>3, <2>4, <2>5, <2>6, Zenon DEF TypeOK
<1>6. Waiting'
  BY <1>1, <1>3 DEF Waiting, Orderly, Decided, Asking
<1>7. InControl'
  BY <1>1, <1>4 DEF InControl
<1>8. Apart'
  <2>1. ASSUME NEW p \in parked', NEW q \in parked', p.st.turn = q.st.turn
        PROVE  p = q
    BY <1>1, <1>2, <2>1 DEF Apart
  <2>2. QED
    BY <1>1, <2>1 DEF Apart
<1>9. Audited' /\ Conversations'
  BY <1>1 DEF Audited, Decided, Conversations
<1>10. QED
  BY <1>5, <1>6, <1>7, <1>8, <1>9 DEF IInv

LEMMA FinishKeeps ==
    ASSUME IInv, NEW conv \in Seq(Message), Whole(conv, FALSE), Finish(conv)
    PROVE  IInv'
<1>1. /\ Free /\ saved' = [conv |-> Bound(conv), rev |-> revisions + 1]
      /\ revisions' = revisions + 1 /\ parked' = parked /\ UNCHANGED <<nextTurn, auditVars>>
  BY DEF Finish
<1>2. Bound(conv) \in Seq(Message) /\ Whole(Bound(conv), FALSE)
  BY WholeBound
<1>3. saved'.conv = Bound(conv) /\ saved'.rev = revisions + 1 /\ revisions \in Nat
  BY <1>1 DEF IInv, TypeOK
<1>4. QED
  BY <1>1, <1>2, <1>3, FreedKeeps

(* Nothing happens to the run in control; the session may be forgotten.    *)
LEMMA StillKeeps ==
    ASSUME IInv, UNCHANGED <<st, phase, callVars, revisions, auditVars>>,
           parked' \subseteq parked, nextTurn' \in Nat, nextTurn <= nextTurn',
           saved' = saved \/ saved' = [conv |-> <<>>, rev |-> 0]
    PROVE  IInv'
<1>1. /\ TypeOK /\ InControl /\ Waiting /\ Apart /\ Audited /\ Conversations
      /\ st' = st /\ phase' = phase /\ calls' = calls /\ at' = at /\ results' = results
      /\ cleared' = cleared /\ revisions' = revisions
      /\ ran' = ran /\ approved' = approved /\ declined' = declined
  BY DEF IInv, auditVars, callVars
<1>2. /\ saved'.conv \in Seq(Message) /\ saved'.rev \in Nat /\ Whole(saved'.conv, FALSE)
  <2>1. <<>> \in Seq(Message) /\ Whole(<<>>, FALSE)
    BY EmptySeq DEF Whole
  <2>2. CASE saved' = saved
    BY <1>1, <2>2 DEF TypeOK, Conversations
  <2>3. CASE saved' = [conv |-> <<>>, rev |-> 0]
    <3>1. saved'.conv = <<>> /\ saved'.rev = 0
      BY <2>3
    <3>2. saved'.conv \in Seq(Message) /\ Whole(saved'.conv, FALSE)
      BY <2>1, <3>1, Zenon
    <3>3. saved'.rev \in Nat
      BY <3>1
    <3>4. QED
      BY <3>2, <3>3, Zenon
  <2>4. QED
    BY <2>2, <2>3
<1>3. TypeOK'
  BY <1>1, <1>2 DEF TypeOK
<1>4. Waiting'
  <2>1. ASSUME NEW p \in parked'
        PROVE  Orderly(p.st, p.calls, p.gated, p.results)' /\ Asking(p.st, p.calls)'
    <3>1. p \in parked
      OBVIOUS
    <3>2. QED
      BY <1>1, <3>1, WaitingKept
  <2>2. QED
    BY <2>1 DEF Waiting
<1>5. st # NoRun => Orderly(st, calls, at, results)'
  <2>1. st # NoRun => st.turn \in Nat /\ nextTurn \in Nat
    BY <1>1, RunParts DEF TypeOK
  <2>2. st # NoRun => st.turn < nextTurn'
    BY <1>1, <2>1 DEF InControl, Orderly
  <2>3. QED
    BY <1>1, <2>2 DEF InControl, Orderly, Decided
<1>6. InControl'
  BY <1>1, <1>5 DEF InControl
<1>7. Audited'
  <2>1. \A id \in Decided : id[1] \in Nat /\ nextTurn \in Nat
    BY <1>1 DEF Decided, TypeOK, CallId
  <2>2. QED
    BY <1>1, <2>1 DEF Audited, Decided
<1>8. Apart' /\ Conversations'
  BY <1>1, <1>2 DEF Apart, Conversations, Asking, Whole, OwnPart
<1>9. QED
  BY <1>3, <1>4, <1>6, <1>7, <1>8 DEF IInv

(* The types of a run in control, put together. *)
LEMMA RunningType ==
    ASSUME TypeOK, st' \in RunState, phase' \in {"top", "compacting", "asking", "calling"},
           calls' \in Seq(Call), results' \in Seq(CallId), at' \in Nat \ {0},
           cleared' \in BOOLEAN, parked' \subseteq parked, nextTurn' \in Nat \ {0},
           saved'.conv \in Seq(Message), saved'.rev \in Nat, revisions' = revisions,
           ran' \subseteq CallId, approved' \subseteq CallId, declined' \subseteq CallId
    PROVE  TypeOK' /\ st' # NoRun
<1>1. st' # NoRun /\ phase' # "idle"
  BY NoRunAssumption
<1>2. \A p \in parked' : /\ p.st \in RunState /\ p.calls \in Seq(Call)
                         /\ p.gated \in DOMAIN p.calls /\ p.results \in Seq(CallId)
  BY DEF TypeOK
<1>3. revisions' \in Nat
  BY DEF TypeOK
<1>4. phase' \in {"idle", "top", "compacting", "asking", "calling"} /\ st' \in RunState \cup {NoRun}
  OBVIOUS
<1>5. TypeOK'
  BY <1>1, <1>2, <1>3, <1>4, Zenon DEF TypeOK
<1>6. QED
  BY <1>1, <1>5

LEMMA BeginKeeps == ASSUME IInv, Begin PROVE IInv'
<1>1. /\ TypeOK /\ InControl /\ Waiting /\ Apart /\ Audited /\ Conversations
      /\ phase = "idle" /\ st = NoRun /\ nextTurn <= MaxTurns
      /\ phase' = "top" /\ nextTurn' = nextTurn + 1
      /\ calls' = calls /\ at' = at /\ results' = results /\ cleared' = cleared
      /\ parked' = parked /\ revisions' = revisions
      /\ ran' = ran /\ approved' = approved /\ declined' = declined
  BY DEF IInv, TypeOK, Begin, callVars, auditVars
<1>2. PICK entry \in Agents, held \in Callers, reset \in BOOLEAN :
        LET base == IF reset THEN <<>> ELSE saved.conv
        IN  /\ st' = [turn |-> nextTurn, def |-> entry, caller |-> held,
                      actor |-> Delegated(held, ScopesOf[entry]),
                      conv |-> Append(base, Plain("question", <<>>)),
                      turn_start |-> Len(base), rev |-> IF reset THEN 0 ELSE saved.rev,
                      steps |-> 0, broke |-> FALSE, big |-> FALSE, failures |-> 0, retry_at |-> 0]
            /\ saved' = IF reset THEN [conv |-> <<>>, rev |-> 0] ELSE saved
  BY Zenon DEF Begin
<1> DEFINE base == IF reset THEN <<>> ELSE saved.conv
           conv == Append(base, Plain("question", <<>>))
           rev == IF reset THEN 0 ELSE saved.rev
           actor == Delegated(held, ScopesOf[entry])
           start == Len(base)
<1>3. st' = [turn |-> nextTurn, def |-> entry, caller |-> held, actor |-> actor,
             conv |-> conv, turn_start |-> start, rev |-> rev, steps |-> 0,
             broke |-> FALSE, big |-> FALSE, failures |-> 0, retry_at |-> 0]
  BY <1>2
<1>4. base \in Seq(Message) /\ Whole(base, FALSE)
  <2>1. <<>> \in Seq(Message) /\ Whole(<<>>, FALSE)
    BY EmptySeq DEF Whole
  <2>2. saved.conv \in Seq(Message) /\ Whole(saved.conv, FALSE)
    BY <1>1 DEF TypeOK, Conversations
  <2>3. QED
    BY <2>1, <2>2, Zenon
<1>5. saved'.conv \in Seq(Message) /\ saved'.rev \in Nat /\ Whole(saved'.conv, FALSE)
  <2>1. CASE reset
    <3>1. saved'.conv = <<>> /\ saved'.rev = 0 /\ base = <<>>
      BY <1>2, <2>1
    <3>2. saved'.conv = base
      BY <3>1
    <3>3. saved'.conv \in Seq(Message) /\ Whole(saved'.conv, FALSE)
      BY <1>4, <3>2, Zenon
    <3>4. saved'.rev \in Nat
      BY <3>1
    <3>5. QED
      BY <3>3, <3>4, Zenon
  <2>2. CASE ~reset
    <3>1. saved' = saved
      BY <1>2, <2>2
    <3>2. QED
      BY <1>1, <3>1 DEF TypeOK, Conversations
  <2>3. QED
    BY <2>1, <2>2
<1>6. rev \in Nat /\ start \in Nat
  BY <1>1, <1>4, LenProperties DEF TypeOK
<1>7. /\ Plain("question", <<>>) \in Message /\ Plain("question", <<>>).kind = "question"
      /\ Plain("question", <<>>).start
  <2>1. <<>> \in Seq(CallId)
    BY EmptySeq
  <2>2. QED
    BY <2>1, PlainType
<1>8. /\ conv \in Seq(Message) /\ Len(conv) = start + 1
      /\ conv[start + 1] = Plain("question", <<>>)
  BY <1>4, <1>7, AppendProperties
<1>9. Whole(conv, FALSE)
  BY <1>4, <1>7, WholeSaid
<1>10. /\ held \in SUBSET Grant /\ actor \in SUBSET Grant
       /\ Allows(actor) \subseteq Allows(held)
  <2>1. held \in SUBSET Grant /\ ScopesOf[entry] \in SUBSET Grant
    BY AgentAssumption
  <2>2. QED
    BY <2>1, DelegatedType
<1>11. nextTurn \in 1..MaxTurns /\ nextTurn \in Nat
  BY <1>1, AgentAssumption DEF TypeOK
<1> HIDE DEF base, conv, rev, actor, start
<1>12. st' \in RunState
  BY <1>3, <1>6, <1>8, <1>10, <1>11 DEF RunState
<1>13. TypeOK' /\ st' # NoRun
  <2>1. /\ phase' \in {"top", "compacting", "asking", "calling"} /\ parked' \subseteq parked
        /\ nextTurn' \in Nat \ {0}
    BY <1>1, <1>11
  <2>2. /\ calls' \in Seq(Call) /\ results' \in Seq(CallId) /\ at' \in Nat \ {0}
        /\ cleared' \in BOOLEAN /\ ran' \subseteq CallId /\ approved' \subseteq CallId
        /\ declined' \subseteq CallId
    BY <1>1, Zenon DEF TypeOK
  <2>3. QED
    BY <1>1, <1>5, <1>12, <2>1, <2>2, RunningType
<1>14. /\ st'.turn = nextTurn /\ st'.steps = 0 /\ st'.conv = conv /\ st'.turn_start = start
       /\ st'.actor = actor /\ st'.caller = held
  BY <1>3
<1>15. Waiting'
  <2>1. ASSUME NEW p \in parked'
        PROVE  Orderly(p.st, p.calls, p.gated, p.results)' /\ Asking(p.st, p.calls)'
    <3>1. p \in parked
      BY <1>1
    <3>2. QED
      BY <1>1, <1>11, <3>1, WaitingKept
  <2>2. QED
    BY <2>1 DEF Waiting
<1>16. InControl'
  <2>1. calls' = <<>> /\ results' = <<>> /\ at' = Len(calls') + 1 /\ ~cleared'
    BY <1>1 DEF InControl
  <2>2. Len(<<>>) = 0 /\ DOMAIN <<>> = {}
    BY EmptySeq
  <2>3. \A id \in Decided' : id[1] # nextTurn
    BY <1>1, <1>11 DEF Audited, Decided, CallId, TypeOK
  <2>4. nextTurn < nextTurn' /\ Allows(st'.actor) \subseteq Allows(st'.caller)
    BY <1>1, <1>10, <1>11, <1>14
  <2>5. Orderly(st, calls, at, results)'
    BY <1>14, <2>1, <2>2, <2>3, <2>4 DEF Orderly, Allows
  <2>6. QED
    BY <1>1, <1>13, <2>1, <2>5 DEF InControl
<1>17. Apart'
  <2>1. \A p \in parked : p.st.turn < nextTurn /\ p.st.turn \in Nat
    BY <1>1, RunParts DEF Waiting, Orderly, TypeOK
  <2>2. \A p \in parked : p.st.turn # nextTurn
    BY <1>11, <2>1
  <2>3. QED
    BY <1>1, <1>14, <2>2 DEF Apart
<1>18. Audited'
  <2>1. \A id \in Decided : id[1] < nextTurn /\ id[1] \in Nat
    BY <1>1 DEF Audited, Decided, CallId, TypeOK
  <2>2. \A id \in Decided : id[1] < nextTurn + 1
    BY <1>11, <2>1
  <2>3. QED
    BY <1>1, <2>2 DEF Audited, Decided
<1>19. Conversations'
  <2>1. OwnPart(st)'
    BY <1>6, <1>7, <1>8, <1>14 DEF OwnPart
  <2>2. Whole(st.conv, FALSE)'
    BY <1>9, <1>14 DEF Whole
  <2>3. QED
    BY <1>1, <1>5, <2>1, <2>2 DEF Conversations, Whole
<1>20. QED
  BY <1>13, <1>15, <1>16, <1>17, <1>18, <1>19 DEF IInv

(* The top of the loop: the run goes on, compacted or not.                 *)
LEMMA MovedKeeps ==
    ASSUME IInv, phase \in {"top", "compacting"}, phase' \in {"compacting", "asking"},
           st' \in RunState, st'.turn = st.turn, st'.steps = st.steps,
           st'.actor = st.actor, st'.caller = st.caller,
           Whole(st'.conv, FALSE), OwnPart(st'),
           UNCHANGED <<callVars, parked, sessionVars, nextTurn, auditVars>>
    PROVE  IInv'
<1>1. /\ TypeOK /\ InControl /\ Waiting /\ Apart /\ Audited /\ Conversations
      /\ st # NoRun
      /\ calls' = calls /\ at' = at /\ results' = results /\ cleared' = cleared
      /\ parked' = parked /\ saved' = saved /\ revisions' = revisions /\ nextTurn' = nextTurn
      /\ ran' = ran /\ approved' = approved /\ declined' = declined
  BY DEF IInv, TypeOK, callVars, sessionVars, auditVars
<1>2. TypeOK' /\ st' # NoRun
  <2>1. /\ phase' \in {"top", "compacting", "asking", "calling"} /\ parked' \subseteq parked
    BY <1>1
  <2>2. /\ calls' \in Seq(Call) /\ results' \in Seq(CallId) /\ at' \in Nat \ {0}
        /\ cleared' \in BOOLEAN /\ nextTurn' \in Nat \ {0} /\ ran' \subseteq CallId
        /\ approved' \subseteq CallId /\ declined' \subseteq CallId
        /\ saved'.conv \in Seq(Message) /\ saved'.rev \in Nat
    BY <1>1, Zenon DEF TypeOK
  <2>3. QED
    BY <1>1, <2>1, <2>2, RunningType
<1>3. Orderly(st, calls, at, results)'
  BY <1>1 DEF InControl, Orderly, Decided, Allows, HasScope
<1>4. InControl' /\ Apart' /\ Audited'
  BY <1>1, <1>2, <1>3 DEF InControl, Apart, Audited, Decided
<1>5. Waiting'
  BY <1>1 DEF Waiting, Orderly, Decided, Asking
<1>6. Conversations'
  BY <1>1 DEF Conversations, Whole, OwnPart
<1>7. QED
  BY <1>2, <1>4, <1>5, <1>6 DEF IInv

LEMMA AnswerAsksKeeps == ASSUME IInv, AnswerAsks PROVE IInv'
<1>1. /\ TypeOK /\ InControl /\ Waiting /\ Apart /\ Audited /\ Conversations
      /\ phase = "asking" /\ st # NoRun /\ st \in RunState
      /\ at' = 1 /\ results' = <<>> /\ cleared' = FALSE /\ phase' = "calling"
      /\ parked' = parked /\ saved' = saved /\ revisions' = revisions /\ nextTurn' = nextTurn
      /\ ran' = ran /\ approved' = approved /\ declined' = declined
  BY DEF IInv, TypeOK, AnswerAsks, sessionVars, auditVars
<1>2. PICK n \in 1..MaxCalls[st.def] :
      \E to \in [1..n -> Tools \cup Agents \cup {Garbled}], r \in Answered :
        LET asked == [i \in 1..n |-> [id |-> <<st.turn, st.steps + 1, i>>, to |-> to[i]]]
        IN  /\ calls' = asked
            /\ st' = [r EXCEPT !.conv = Append(st.conv, Plain("answer", Ids(asked)))]
  BY Zenon DEF AnswerAsks
<1>3. PICK to \in [1..n -> Tools \cup Agents \cup {Garbled}], r \in Answered :
        LET asked == [i \in 1..n |-> [id |-> <<st.turn, st.steps + 1, i>>, to |-> to[i]]]
        IN  /\ calls' = asked
            /\ st' = [r EXCEPT !.conv = Append(st.conv, Plain("answer", Ids(asked)))]
  BY <1>2, Zenon
<1> DEFINE asked == [i \in 1..n |-> [id |-> <<st.turn, st.steps + 1, i>>, to |-> to[i]]]
           m == Plain("answer", Ids(asked))
           conv == Append(st.conv, m)
<1>4. calls' = asked /\ st' = [r EXCEPT !.conv = conv]
  BY <1>3
<1>5. /\ st.turn \in 1..MaxTurns /\ st.turn \in Nat /\ st.steps \in Nat /\ st.def \in Agents
      /\ st.conv \in Seq(Message) /\ st.turn_start \in Nat
  BY <1>1, RunParts
<1>6. n \in Nat \ {0}
  BY <1>5, AgentAssumption
<1>7. asked \in Seq(Call) /\ Len(asked) = n /\ DOMAIN asked = 1..n
  <2>1. \A i \in 1..n : <<st.turn, st.steps + 1, i>> \in CallId
    BY <1>5, <1>6 DEF CallId
  <2>2. \A i \in 1..n : [id |-> <<st.turn, st.steps + 1, i>>, to |-> to[i]] \in Call
    BY <2>1 DEF Call
  <2>3. QED
    BY <1>6, <2>2
<1>8. \A i \in 1..n : asked[i].id = <<st.turn, st.steps + 1, i>>
  OBVIOUS
<1> HIDE DEF asked
<1>9. Ids(asked) \in Seq(CallId)
  BY <1>7, IdsType
<1>10. m \in Message /\ m.kind = "answer" /\ m.ids = Ids(asked)
  BY <1>9, PlainType
<1> HIDE DEF m
<1>11. /\ conv \in Seq(Message) /\ Len(conv) = Len(st.conv) + 1 /\ conv[Len(conv)] = m
       /\ \A i \in 1..Len(st.conv) : conv[i] = st.conv[i]
  <2>1. /\ conv \in Seq(Message) /\ Len(conv) = Len(st.conv) + 1
        /\ conv[Len(st.conv) + 1] = m
        /\ \A i \in 1..Len(st.conv) : conv[i] = st.conv[i]
    BY <1>5, <1>10, AppendProperties
  <2> HIDE DEF conv
  <2>2. QED
    BY <2>1
<1>12. Whole(st.conv, FALSE) /\ OwnPart(st) /\ Len(st.conv) \in Nat /\ st.conv # <<>>
  <2>1. Whole(st.conv, FALSE) /\ OwnPart(st) /\ Len(st.conv) \in Nat
    BY <1>1, <1>5, LenProperties DEF Conversations
  <2>2. Len(st.conv) # 0
    BY <1>5, <2>1 DEF OwnPart
  <2>3. QED
    BY <2>1, <2>2, EmptySeq
<1>13. Whole(conv, TRUE)
  BY <1>5, <1>10, <1>12, WholeSaid
<1> HIDE DEF conv
<1>14. /\ r \in RunState /\ r.turn = st.turn /\ r.caller = st.caller /\ r.actor = st.actor
       /\ r.turn_start = st.turn_start /\ r.steps = st.steps + 1
  BY <1>1, AnsweredType
<1>15. /\ st' \in RunState /\ st'.turn = st.turn /\ st'.caller = st.caller
       /\ st'.actor = st.actor /\ st'.turn_start = st.turn_start
       /\ st'.steps = st.steps + 1 /\ st'.conv = conv
  BY <1>4, <1>11, <1>14 DEF RunState
<1>16. <<>> \in Seq(CallId) /\ Len(<<>>) = 0
  BY EmptySeq
<1>17. TypeOK' /\ st' # NoRun
  <2>1. /\ phase' \in {"top", "compacting", "asking", "calling"} /\ parked' \subseteq parked
        /\ at' \in Nat \ {0} /\ calls' \in Seq(Call)
    BY <1>1, <1>4, <1>7
  <2>2. results' \in Seq(CallId) /\ cleared' \in BOOLEAN
    BY <1>1, <1>16, Zenon
  <2>3. /\ nextTurn' \in Nat \ {0} /\ ran' \subseteq CallId
        /\ approved' \subseteq CallId /\ declined' \subseteq CallId
        /\ saved'.conv \in Seq(Message) /\ saved'.rev \in Nat
    BY <1>1, Zenon DEF TypeOK
  <2>4. QED
    BY <1>1, <1>15, <2>1, <2>2, <2>3, RunningType
<1>18. \A id \in Decided : id[1] = st.turn => id[2] < st.steps + 1
  <2>1. \A id \in Decided : id[2] \in Nat
    BY <1>1 DEF Decided, TypeOK, CallId
  <2>2. \A id \in Decided : id[1] = st.turn => id[2] < st.steps \/ id[2] = st.steps
    BY <1>1 DEF InControl, Orderly
  <2>3. QED
    BY <1>5, <2>1, <2>2
<1>19. \A i \in 1..n : asked[i].id \notin ran
  <2>1. ASSUME NEW i \in 1..n, asked[i].id \in ran PROVE FALSE
    <3>1. asked[i].id[1] = st.turn /\ asked[i].id[2] = st.steps + 1 /\ asked[i].id \in Decided
      BY <1>8, <2>1 DEF Decided
    <3>2. QED
      BY <1>5, <1>18, <3>1
  <2>2. QED
    BY <2>1
<1>20. Orderly(st, calls, at, results)'
  <2>1. st'.turn < nextTurn' /\ Allows(st'.actor) \subseteq Allows(st'.caller)
    BY <1>1, <1>15 DEF InControl, Orderly
  <2>2. /\ \A i \in DOMAIN calls' : calls'[i].id = <<st'.turn, st'.steps, i>>
        /\ \A i \in DOMAIN calls' : calls'[i].id \notin ran'
    BY <1>1, <1>4, <1>7, <1>8, <1>15, <1>19
  <2>3. /\ at' <= Len(calls') + 1 /\ Len(results') = at' - 1
        /\ \A i \in DOMAIN results' : FALSE
    BY <1>1, <1>4, <1>6, <1>7, <1>16
  <2>4. \A id \in Decided' : id[1] = st'.turn => id[2] < st'.steps
    BY <1>1, <1>15, <1>18 DEF Decided
  <2>5. QED
    BY <2>1, <2>2, <2>3, <2>4 DEF Orderly, Allows
<1>21. InControl' /\ Apart' /\ Audited'
  BY <1>1, <1>15, <1>17, <1>20 DEF InControl, Apart, Audited, Decided
<1>22. Waiting'
  BY <1>1 DEF Waiting, Orderly, Decided, Asking
<1>23. Asking(st, calls)'
  <2>1. asked # <<>>
    BY <1>6, <1>7, EmptySeq
  <2>2. conv[st.turn_start + 1] = st.conv[st.turn_start + 1] /\ st.turn_start < Len(conv)
    <3>1. st.turn_start + 1 \in 1..Len(st.conv)
      BY <1>5, <1>12 DEF OwnPart
    <3>2. QED
      BY <1>5, <1>11, <1>12, <3>1
  <2>3. OwnPart(st)'
    BY <1>12, <1>15, <2>2 DEF OwnPart
  <2>4. Whole(st.conv, TRUE)'
    BY <1>13, <1>15 DEF Whole
  <2>5. QED
    BY <1>4, <1>10, <1>11, <1>15, <2>1, <2>3, <2>4 DEF Asking
<1>24. Conversations'
  BY <1>1, <1>23 DEF Conversations, Whole
<1>25. QED
  BY <1>17, <1>21, <1>22, <1>24 DEF IInv

(* A call is looked at and answered: passed on, refused or dispatched.     *)
LEMMA LookedKeeps ==
    ASSUME IInv, Calling, Answer, UNCHANGED <<approved, declined>>,
           st' \in RunState, st'.turn = st.turn, st'.steps = st.steps,
           st'.caller = st.caller, Allows(st'.actor) \subseteq Allows(st.actor),
           st'.conv = st.conv, st'.turn_start = st.turn_start,
           \/ ran' = ran
           \/ ran' = ran \cup {Current.id} /\ (cleared \/ Current.to \notin Gated)
    PROVE  IInv'
<1>1. /\ TypeOK /\ InControl /\ Waiting /\ Apart /\ Audited /\ Conversations
      /\ phase = "calling" /\ st # NoRun /\ at <= Len(calls)
      /\ calls' = calls /\ at' = at + 1 /\ results' = Append(results, Current.id)
      /\ cleared' = FALSE /\ phase' = phase
      /\ parked' = parked /\ saved' = saved /\ revisions' = revisions /\ nextTurn' = nextTurn
      /\ approved' = approved /\ declined' = declined
  BY DEF IInv, TypeOK, Calling, Answer, sessionVars
<1>2. /\ calls \in Seq(Call) /\ Len(calls) \in Nat /\ DOMAIN calls = 1..Len(calls)
      /\ at \in 1..Len(calls) /\ results \in Seq(CallId)
  BY <1>1, LenProperties DEF TypeOK
<1>3. /\ st \in RunState /\ st.turn \in Nat /\ st.steps \in Nat
      /\ Orderly(st, calls, at, results)
  BY <1>1, RunParts DEF InControl, TypeOK
<1>4. Current.id \in CallId /\ Current.id = <<st.turn, st.steps, at>>
  <2>1. Current \in Call
    BY <1>2, ElementOfSeq DEF Current
  <2>2. QED
    BY <1>2, <1>3, <2>1 DEF Call, Current, Orderly
<1>5. /\ results' \in Seq(CallId) /\ Len(results') = at
      /\ \A i \in 1 .. at - 1 : results'[i] = calls[i].id
      /\ results'[at] = calls[at].id
  <2>1. Len(results) = at - 1 /\ \A i \in 1 .. at - 1 : results[i] = calls[i].id
    BY <1>2, <1>3, LenProperties DEF Orderly
  <2>2. /\ results' \in Seq(CallId) /\ Len(results') = Len(results) + 1
        /\ \A i \in 1..Len(results) : results'[i] = results[i]
        /\ results'[Len(results) + 1] = Current.id
    BY <1>1, <1>2, <1>4, AppendProperties
  <2>3. QED
    BY <1>2, <2>1, <2>2 DEF Current
<1>6. ran' \subseteq ran \cup {Current.id} /\ ran \subseteq ran'
  OBVIOUS
<1>7. TypeOK' /\ st' # NoRun
  <2>1. /\ phase' \in {"top", "compacting", "asking", "calling"} /\ parked' \subseteq parked
        /\ at' \in Nat \ {0}
    BY <1>1, <1>2
  <2>2. cleared' \in BOOLEAN
    BY <1>1, Zenon
  <2>3. ran' \subseteq CallId
    BY <1>1, <1>4, <1>6 DEF TypeOK
  <2>4. /\ calls' \in Seq(Call) /\ nextTurn' \in Nat \ {0}
        /\ approved' \subseteq CallId /\ declined' \subseteq CallId
        /\ saved'.conv \in Seq(Message) /\ saved'.rev \in Nat
    BY <1>1, Zenon DEF TypeOK
  <2>5. QED
    BY <1>1, <1>5, <2>1, <2>2, <2>3, <2>4, RunningType
<1>8. Decided' \subseteq Decided \cup {Current.id}
  BY <1>1, <1>6 DEF Decided
<1>9. Orderly(st, calls, at, results)'
  <2>1. /\ st'.turn < nextTurn'
        /\ \A i \in DOMAIN calls' : calls'[i].id = <<st'.turn, st'.steps, i>>
    BY <1>1, <1>3 DEF Orderly
  <2>2. at' <= Len(calls') + 1 /\ Len(results') = at' - 1
    BY <1>1, <1>2, <1>5
  <2>3. \A i \in DOMAIN results' : results'[i] = calls'[i].id
    <3>1. DOMAIN results' = 1..at
      BY <1>5, LenProperties
    <3>2. \A i \in 1..at : i \in 1 .. at - 1 \/ i = at
      BY <1>2
    <3>3. QED
      BY <1>1, <1>5, <3>1, <3>2
  <2>4. \A id \in Decided' : id[1] = st'.turn =>
            id[2] < st'.steps \/ (id[2] = st'.steps /\ id[3] < at')
    <3>1. ASSUME NEW id \in Decided, id[1] = st.turn
          PROVE  id[2] < st.steps \/ (id[2] = st.steps /\ id[3] < at + 1)
      <4>1. id[2] < st.steps \/ (id[2] = st.steps /\ id[3] < at)
        BY <1>3, <3>1 DEF Orderly
      <4>2. id[3] \in Nat
        BY <1>1 DEF Decided, TypeOK, CallId
      <4>3. QED
        BY <1>2, <4>1, <4>2
    <3>2. Current.id[2] = st.steps /\ Current.id[3] < at + 1
      BY <1>2, <1>4
    <3>3. QED
      BY <1>1, <1>8, <3>1, <3>2
  <2>5. \A i \in DOMAIN calls' :
            calls'[i].id \in ran' /\ calls'[i].to \in Gated => calls'[i].id \in approved'
    <3>1. ASSUME NEW i \in DOMAIN calls, calls[i].id \in ran', calls[i].to \in Gated
          PROVE  calls[i].id \in approved
      <4>1. CASE calls[i].id \in ran
        BY <1>3, <3>1, <4>1 DEF Orderly
      <4>2. CASE calls[i].id \notin ran
        <5>1. calls[i].id = Current.id /\ (cleared \/ Current.to \notin Gated)
          BY <3>1, <4>2
        <5>2. i = at
          BY <1>3, <1>4, <5>1 DEF Orderly
        <5>3. cleared /\ calls[at].id \in approved
          BY <1>1, <3>1, <5>1, <5>2 DEF Current, InControl
        <5>4. QED
          BY <5>2, <5>3
      <4>3. QED
        BY <4>1, <4>2
    <3>2. QED
      BY <1>1, <3>1
  <2>6. Allows(st'.actor) \subseteq Allows(st'.caller)
    BY <1>3 DEF Orderly
  <2>7. QED
    BY <2>1, <2>2, <2>3, <2>4, <2>5, <2>6 DEF Orderly, Allows
<1>10. InControl'
  BY <1>1, <1>7, <1>9 DEF InControl
<1>11. Apart'
  BY <1>1 DEF Apart
<1>12. Waiting'
  <2>1. ASSUME NEW p \in parked'
        PROVE  Orderly(p.st, p.calls, p.gated, p.results)' /\ Asking(p.st, p.calls)'
    <3>1. p \in parked /\ p.st.turn # st.turn
      BY <1>1 DEF Apart
    <3>2. Current.id[1] # p.st.turn
      BY <1>4, <3>1
    <3>3. \A id \in (ran' \ ran) \cup (declined' \ declined) : id[1] # p.st.turn
      BY <1>1, <1>6, <3>2
    <3>4. nextTurn' \in Nat /\ nextTurn <= nextTurn' /\ approved \subseteq approved'
      BY <1>1 DEF TypeOK
    <3>5. QED
      BY <1>1, <3>1, <3>3, <3>4, WaitingKept
  <2>2. QED
    BY <2>1 DEF Waiting
<1>13. Audited'
  <2>1. Current.id \notin Decided
    <3>1. ASSUME Current.id \in Decided PROVE FALSE
      <4>1. Current.id[2] < st.steps \/ (Current.id[2] = st.steps /\ Current.id[3] < at)
        BY <1>3, <1>4, <3>1 DEF Orderly
      <4>2. QED
        BY <1>2, <1>3, <1>4, <4>1
    <3>2. QED
      BY <3>1
  <2>2. Current.id[1] < nextTurn
    BY <1>3, <1>4 DEF Orderly
  <2>3. QED
    BY <1>1, <1>6, <2>1, <2>2 DEF Audited, Decided
<1>14. Conversations'
  BY <1>1 DEF Conversations, Asking, Whole, OwnPart
<1>15. QED
  BY <1>7, <1>10, <1>11, <1>12, <1>13, <1>14 DEF IInv

(* All calls are answered: the conversation is whole again. *)
LEMMA ResultsKeeps == ASSUME IInv, Results PROVE IInv'
<1>1. /\ TypeOK /\ InControl /\ Waiting /\ Apart /\ Audited /\ Conversations
      /\ phase = "calling" /\ st # NoRun /\ st \in RunState /\ at > Len(calls)
      /\ st' = [st EXCEPT !.conv = Append(@, Plain("results", results))] /\ phase' = "top"
      /\ calls' = calls /\ at' = at /\ results' = results /\ cleared' = cleared
      /\ parked' = parked /\ saved' = saved /\ revisions' = revisions /\ nextTurn' = nextTurn
      /\ ran' = ran /\ approved' = approved /\ declined' = declined
  BY DEF IInv, TypeOK, Results, callVars, sessionVars, auditVars
<1>2. /\ calls \in Seq(Call) /\ Len(calls) \in Nat /\ DOMAIN calls = 1..Len(calls)
      /\ results \in Seq(CallId) /\ DOMAIN results = 1..Len(results) /\ at \in Nat
      /\ st.conv \in Seq(Message) /\ Len(st.conv) \in Nat /\ st.turn_start \in Nat
  BY <1>1, LenProperties, RunParts DEF TypeOK
<1>3. Orderly(st, calls, at, results) /\ Asking(st, calls)
  BY <1>1 DEF InControl, Conversations
<1>4. at = Len(calls) + 1 /\ Len(results) = Len(calls)
  BY <1>1, <1>2, <1>3 DEF Orderly
<1>5. results = Ids(calls)
  <2>1. /\ Ids(calls) \in Seq(CallId) /\ Len(Ids(calls)) = Len(calls)
        /\ \A i \in 1..Len(calls) : Ids(calls)[i] = calls[i].id
    BY <1>2, IdsType
  <2>2. \A i \in 1..Len(results) : results[i] = calls[i].id
    BY <1>2, <1>3 DEF Orderly
  <2>3. QED
    BY <1>2, <1>4, <2>1, <2>2, SeqEqual
<1> DEFINE m == Plain("results", results)
           conv == Append(st.conv, m)
<1>6. m \in Message /\ m.kind = "results" /\ m.ids = results /\ ~m.start
  BY <1>2, PlainType
<1> HIDE DEF m
<1>7. st.conv # <<>>
  BY <1>2, <1>3, EmptySeq DEF Asking, OwnPart
<1>8. Whole(conv, FALSE)
  <2>1. m.ids = st.conv[Len(st.conv)].ids
    BY <1>3, <1>5, <1>6 DEF Asking
  <2>2. Whole(st.conv, TRUE)
    BY <1>3 DEF Asking
  <2>3. QED
    BY <1>2, <1>6, <1>7, <2>1, <2>2, WholeAnswered
<1>9. /\ conv \in Seq(Message) /\ Len(conv) = Len(st.conv) + 1
      /\ \A i \in 1..Len(st.conv) : conv[i] = st.conv[i]
  BY <1>2, <1>6, AppendProperties
<1>10. st' = [st EXCEPT !.conv = conv]
  BY <1>1 DEF m
<1> HIDE DEF conv
<1>11. /\ st' \in RunState /\ st'.conv = conv /\ st'.turn = st.turn /\ st'.steps = st.steps
       /\ st'.actor = st.actor /\ st'.caller = st.caller /\ st'.turn_start = st.turn_start
  BY <1>1, <1>9, <1>10 DEF RunState
<1>12. TypeOK' /\ st' # NoRun
  <2>1. phase' \in {"top", "compacting", "asking", "calling"} /\ parked' \subseteq parked
    BY <1>1
  <2>2. /\ calls' \in Seq(Call) /\ results' \in Seq(CallId) /\ at' \in Nat \ {0}
        /\ cleared' \in BOOLEAN /\ nextTurn' \in Nat \ {0} /\ ran' \subseteq CallId
        /\ approved' \subseteq CallId /\ declined' \subseteq CallId
        /\ saved'.conv \in Seq(Message) /\ saved'.rev \in Nat
    BY <1>1, Zenon DEF TypeOK
  <2>3. QED
    BY <1>1, <1>11, <2>1, <2>2, RunningType
<1>13. Orderly(st, calls, at, results)'
  BY <1>1, <1>3, <1>11 DEF Orderly, Decided, Allows, HasScope
<1>14. ~cleared
  BY <1>1, <1>2 DEF InControl
<1>15. InControl' /\ Apart' /\ Audited'
  BY <1>1, <1>4, <1>11, <1>12, <1>13, <1>14 DEF InControl, Apart, Audited, Decided
<1>16. Waiting'
  BY <1>1 DEF Waiting, Orderly, Decided, Asking
<1>17. OwnPart(st)'
  <2>1. st.turn_start < Len(st.conv) /\ st.conv[st.turn_start + 1].start
    BY <1>3 DEF Asking, OwnPart
  <2>2. st.turn_start + 1 \in 1..Len(st.conv) /\ st.turn_start < Len(conv)
    BY <1>2, <1>9, <2>1
  <2>3. conv[st.turn_start + 1].start
    BY <1>9, <2>1, <2>2
  <2>4. QED
    BY <1>11, <2>2, <2>3 DEF OwnPart
<1>18. Conversations'
  <2>1. Whole(st.conv, FALSE)'
    BY <1>8, <1>11 DEF Whole
  <2>2. Whole(saved.conv, FALSE)'
    BY <1>1 DEF Conversations, Whole
  <2>3. phase' # "calling"
    BY <1>1
  <2>4. QED
    BY <1>17, <2>1, <2>2, <2>3 DEF Conversations
<1>19. QED
  BY <1>12, <1>15, <1>16, <1>18 DEF IInv

(* A run moved onto the session as it is now still asks for its calls.     *)
LEMMA RebasedAsking ==
    ASSUME TypeOK, Whole(saved.conv, FALSE), NEW r \in RunState, NEW cs, Asking(r, cs)
    PROVE  Asking(Rebased(r), cs)
<1> DEFINE own == SubSeq(r.conv, r.turn_start + 1, Len(r.conv))
           both == saved.conv \o own
           k == Len(saved.conv)
           n == Len(r.conv)
           b == r.turn_start
<1>1. /\ r.conv \in Seq(Message) /\ n \in Nat /\ b \in Nat
      /\ saved.conv \in Seq(Message) /\ k \in Nat
  BY RunParts, LenProperties DEF TypeOK
<1>2. /\ Whole(r.conv, TRUE) /\ b < n /\ r.conv[b + 1].start
      /\ r.conv[n].kind = "answer" /\ r.conv[n].ids = Ids(cs) /\ cs # <<>>
  BY DEF Asking, OwnPart
<1>3. b + 1 \in 1..n
  BY <1>1, <1>2
<1>4. /\ own \in Seq(Message) /\ Len(own) = n - b
      /\ own[1] = r.conv[b + 1] /\ own[n - b] = r.conv[n]
  <2>1. /\ own \in Seq(Message) /\ Len(own) = n - (b + 1) + 1
        /\ \A i \in 1 .. n - (b + 1) + 1 : own[i] = r.conv[(b + 1) + i - 1]
    BY <1>1, <1>3, SliceType
  <2> HIDE DEF own, n, b
  <2>2. n - (b + 1) + 1 = n - b /\ 1 \in 1 .. n - b /\ n - b \in 1 .. n - b
    BY <1>1, <1>2
  <2>3. \A i \in 1 .. n - b : (b + 1) + i - 1 = b + i
    BY <1>1, <1>2
  <2>4. \A i \in 1 .. n - b : own[i] = r.conv[b + i]
    BY <2>1, <2>2, <2>3
  <2>5. own[1] = r.conv[b + 1] /\ own[n - b] = r.conv[b + (n - b)]
    BY <2>2, <2>4
  <2>6. b + (n - b) = n
    BY <1>1
  <2>7. QED
    BY <2>1, <2>2, <2>5, <2>6
<1>5. Whole(own, TRUE)
  BY <1>1, <1>2, <1>3, WholeTail
<1> HIDE DEF own, n, b
<1>6. own # <<>>
  BY <1>1, <1>2, <1>4, EmptySeq
<1>7. Whole(both, TRUE)
  BY <1>1, <1>4, <1>5, <1>6, WholeJoin
<1>8. /\ both \in Seq(Message) /\ Len(both) = k + (n - b)
      /\ both[k + 1] = own[1] /\ both[k + (n - b)] = own[n - b]
  <2>1. /\ both \in Seq(Message) /\ Len(both) = Len(saved.conv) + Len(own)
        /\ \A i \in 1 .. Len(saved.conv) + Len(own) :
             both[i] = IF i <= Len(saved.conv) THEN saved.conv[i]
                       ELSE own[i - Len(saved.conv)]
    BY <1>1, <1>4, ConcatProperties
  <2>2. k = Len(saved.conv)
    OBVIOUS
  <2> HIDE DEF both, k
  <2>3. /\ Len(both) = k + (n - b)
        /\ \A i \in 1 .. k + (n - b) : ~(i <= k) => both[i] = own[i - k]
    BY <1>4, <2>1, <2>2
  <2>4. /\ k + 1 \in 1 .. k + (n - b) /\ ~(k + 1 <= k) /\ (k + 1) - k = 1
        /\ k + (n - b) \in 1 .. k + (n - b) /\ ~(k + (n - b) <= k) /\ (k + (n - b)) - k = n - b
    BY <1>1, <1>2
  <2>5. both[k + 1] = own[(k + 1) - k] /\ both[k + (n - b)] = own[(k + (n - b)) - k]
    BY <2>3, <2>4
  <2>6. QED
    BY <2>1, <2>3, <2>4, <2>5
<1>9. k < Len(both)
  BY <1>1, <1>2, <1>8
<1>10. \/ Rebased(r) = r
       \/ Rebased(r).conv = both /\ Rebased(r).turn_start = k
  BY <1>2, RebasedType DEF own, n, b
<1> HIDE DEF both, k
<1>11. CASE Rebased(r) = r
  BY <1>11
<1>12. CASE Rebased(r).conv = both /\ Rebased(r).turn_start = k
  BY <1>2, <1>4, <1>7, <1>8, <1>9, <1>12 DEF Asking, OwnPart
<1>13. QED
  BY <1>10, <1>11, <1>12

(* A human decides: the run goes on with its calls where it was parked,    *)
(* the gated one cleared, or answered with an error.                       *)
LEMMA ResumedKeeps ==
    ASSUME IInv, NEW p \in parked, phase = "idle", parked' = parked \ {p},
           st' = Rebased(p.st), calls' = p.calls, phase' = "calling",
           UNCHANGED <<sessionVars, nextTurn, ran>>,
           \/ /\ results' = p.results /\ at' = p.gated /\ cleared' = TRUE
              /\ approved' = approved \cup {p.calls[p.gated].id} /\ declined' = declined
           \/ /\ results' = Append(p.results, p.calls[p.gated].id)
              /\ at' = p.gated + 1 /\ cleared' = FALSE
              /\ declined' = declined \cup {p.calls[p.gated].id} /\ approved' = approved
    PROVE  IInv'
<1> DEFINE id == p.calls[p.gated].id
<1>1. /\ TypeOK /\ InControl /\ Waiting /\ Apart /\ Audited /\ Conversations
      /\ st = NoRun /\ saved' = saved /\ revisions' = revisions /\ nextTurn' = nextTurn
      /\ ran' = ran /\ approved \subseteq approved' /\ approved' \subseteq approved \cup {id}
      /\ declined \subseteq declined' /\ declined' \subseteq declined \cup {id}
  BY DEF IInv, TypeOK, sessionVars
<1>2. /\ p.st \in RunState /\ p.calls \in Seq(Call) /\ p.results \in Seq(CallId)
      /\ p.gated \in 1..Len(p.calls) /\ DOMAIN p.calls = 1..Len(p.calls)
      /\ Len(p.calls) \in Nat
      /\ DOMAIN p.results = 1..Len(p.results) /\ Len(p.results) \in Nat
  BY <1>1, LenProperties DEF TypeOK
<1>3. Orderly(p.st, p.calls, p.gated, p.results) /\ Asking(p.st, p.calls)
  BY <1>1 DEF Waiting
<1>4. /\ id \in CallId /\ id = <<p.st.turn, p.st.steps, p.gated>>
      /\ p.st.turn \in Nat /\ p.st.steps \in Nat
  <2>1. p.calls[p.gated] \in Call
    BY <1>2, ElementOfSeq
  <2>2. QED
    BY <1>2, <1>3, <2>1, RunParts DEF Call, Orderly
<1>5. /\ st' \in RunState /\ st'.turn = p.st.turn /\ st'.steps = p.st.steps
      /\ st'.caller = p.st.caller /\ st'.actor = p.st.actor
  BY <1>1, <1>2, <1>3, RebasedType DEF Asking, OwnPart
<1>6. Asking(st', p.calls)
  BY <1>1, <1>2, <1>3, RebasedAsking DEF Conversations
<1>7. id \notin Decided
  <2>1. ASSUME id \in Decided PROVE FALSE
    <3>1. id[2] < p.st.steps \/ (id[2] = p.st.steps /\ id[3] < p.gated)
      BY <1>3, <1>4, <2>1 DEF Orderly
    <3>2. QED
      BY <1>2, <1>4, <3>1
  <2>2. QED
    BY <2>1
<1>8. /\ results' \in Seq(CallId) /\ Len(results') = at' - 1
      /\ \A i \in 1..Len(results') : results'[i] = p.calls[i].id
      /\ at' \in 1 .. Len(p.calls) + 1 /\ at' \in Nat \ {0}
      /\ cleared' \in BOOLEAN
  <2>1. Len(p.results) = p.gated - 1 /\ \A i \in 1..Len(p.results) : p.results[i] = p.calls[i].id
    BY <1>2, <1>3 DEF Orderly
  <2>2. CASE results' = p.results /\ at' = p.gated /\ cleared' = TRUE
    BY <1>2, <2>1, <2>2
  <2>3. CASE results' = Append(p.results, id) /\ at' = p.gated + 1 /\ cleared' = FALSE
    <3>1. /\ results' \in Seq(CallId) /\ Len(results') = Len(p.results) + 1
          /\ \A i \in 1..Len(p.results) : results'[i] = p.results[i]
          /\ results'[Len(p.results) + 1] = id
      BY <1>2, <1>4, <2>3, AppendProperties, SMTT(30)
    <3>2. /\ Len(results') = p.gated /\ results'[p.gated] = id
          /\ \A i \in 1 .. p.gated - 1 : results'[i] = p.calls[i].id
      BY <1>2, <2>1, <3>1
    <3>3. \A i \in 1..p.gated : i \in 1 .. p.gated - 1 \/ i = p.gated
      BY <1>2
    <3>4. \A i \in 1..Len(results') : results'[i] = p.calls[i].id
      BY <3>2, <3>3
    <3>5. cleared' \in BOOLEAN
      BY <2>3, Zenon
    <3>6. Len(results') = at' - 1 /\ at' \in 1 .. Len(p.calls) + 1 /\ at' \in Nat \ {0}
      BY <1>2, <2>3, <3>2
    <3>7. QED
      BY <3>1, <3>4, <3>5, <3>6
  <2>4. QED
    BY <2>2, <2>3
<1>9. \A d \in Decided' : d \in Decided \/ (d = id /\ p.gated < at')
  <2>1. CASE declined' = declined
    BY <1>1, <2>1 DEF Decided
  <2>2. CASE at' = p.gated + 1
    BY <1>1, <1>2, <2>2 DEF Decided
  <2>3. QED
    BY <2>1, <2>2
<1>10. p.gated <= at'
  BY <1>2
<1> HIDE DEF id
<1>11. TypeOK' /\ st' # NoRun
  <2>1. phase' \in {"top", "compacting", "asking", "calling"} /\ parked' \subseteq parked
    OBVIOUS
  <2>2. /\ ran' \subseteq CallId /\ approved' \subseteq CallId /\ declined' \subseteq CallId
    BY <1>1, <1>4 DEF TypeOK
  <2>3. /\ calls' \in Seq(Call) /\ nextTurn' \in Nat \ {0}
        /\ saved'.conv \in Seq(Message) /\ saved'.rev \in Nat
    BY <1>1, <1>2, Zenon DEF TypeOK
  <2>4. QED
    BY <1>1, <1>5, <1>8, <2>1, <2>2, <2>3, RunningType
<1>12. Orderly(st, calls, at, results)'
  <2>1. /\ st'.turn < nextTurn' /\ Allows(st'.actor) \subseteq Allows(st'.caller)
        /\ \A i \in DOMAIN calls' : calls'[i].id = <<st'.turn, st'.steps, i>>
    BY <1>1, <1>3, <1>5 DEF Orderly, Allows, HasScope
  <2>2. /\ at' <= Len(calls') + 1 /\ Len(results') = at' - 1
        /\ \A i \in DOMAIN results' : results'[i] = calls'[i].id
    <3>1. DOMAIN results' = 1..Len(results')
      BY <1>8, LenProperties
    <3>2. QED
      BY <1>2, <1>8, <3>1
  <2>3. \A d \in Decided' : d[1] = st'.turn =>
            d[2] < st'.steps \/ (d[2] = st'.steps /\ d[3] < at')
    <3>1. ASSUME NEW d \in Decided', d[1] = st'.turn
          PROVE  d[2] < st'.steps \/ (d[2] = st'.steps /\ d[3] < at')
      <4>1. CASE d \in Decided
        <5>1. d[2] < p.st.steps \/ (d[2] = p.st.steps /\ d[3] < p.gated)
          BY <1>3, <1>5, <3>1, <4>1 DEF Orderly
        <5>2. d[3] \in Nat
          BY <1>1, <4>1 DEF Decided, TypeOK, CallId
        <5>3. QED
          BY <1>2, <1>5, <1>8, <1>10, <5>1, <5>2
      <4>2. CASE d = id /\ p.gated < at'
        BY <1>4, <1>5, <4>2
      <4>3. QED
        BY <1>9, <3>1, <4>1, <4>2
    <3>2. QED
      BY <3>1
  <2>4. \A i \in DOMAIN calls' :
            calls'[i].id \in ran' /\ calls'[i].to \in Gated => calls'[i].id \in approved'
    BY <1>1, <1>3 DEF Orderly
  <2>5. QED
    BY <2>1, <2>2, <2>3, <2>4 DEF Orderly, Allows
<1>13. InControl'
  <2>1. cleared' => at' \in DOMAIN calls' /\ calls'[at'].id \in approved'
    BY <1>2 DEF id
  <2>2. QED
    BY <1>11, <1>12, <2>1 DEF InControl
<1>14. Apart'
  BY <1>1, <1>5 DEF Apart
<1>15. Waiting'
  <2>1. ASSUME NEW q \in parked'
        PROVE  Orderly(q.st, q.calls, q.gated, q.results)' /\ Asking(q.st, q.calls)'
    <3>1. q \in parked /\ q.st.turn # p.st.turn
      BY <1>1 DEF Apart
    <3>2. id[1] # q.st.turn
      BY <1>4, <3>1
    <3>3. \A d \in (ran' \ ran) \cup (declined' \ declined) : d[1] # q.st.turn
      BY <1>1, <3>2
    <3>4. nextTurn' \in Nat /\ nextTurn <= nextTurn' /\ approved \subseteq approved'
      BY <1>1 DEF TypeOK
    <3>5. QED
      BY <1>1, <3>1, <3>3, <3>4, WaitingKept
  <2>2. QED
    BY <2>1 DEF Waiting
<1>16. Audited'
  <2>1. id[1] < nextTurn
    BY <1>3, <1>4 DEF Orderly
  <2>2. QED
    BY <1>1, <1>7, <2>1 DEF Audited, Decided
<1>17. Conversations'
  <2>1. Asking(st, calls)'
    BY <1>6 DEF Asking, OwnPart, Whole, Ids
  <2>2. QED
    BY <1>1, <2>1 DEF Conversations, Whole
<1>18. QED
  BY <1>11, <1>13, <1>14, <1>15, <1>16, <1>17 DEF IInv

(* A summary stands for what was before the cut: the run's own part opens  *)
(* where it did, or with the summary.                                      *)
LEMMA CompactedKeeps == ASSUME IInv, Compacted PROVE IInv'
<1>1. /\ st \in RunState /\ phase = "compacting" /\ phase' = "asking"
      /\ Whole(st.conv, FALSE) /\ OwnPart(st)
      /\ UNCHANGED <<callVars, parked, sessionVars, nextTurn, auditVars>>
  BY DEF IInv, TypeOK, Conversations, Compacted
<1>2. PICK cut \in Cuts, r \in Charged(st) :
        st' = [r EXCEPT
            !.conv = <<Plain("summary", <<>>)>> \o SubSeq(st.conv, cut, Len(st.conv)),
            !.turn_start = MovedStart(st.turn_start, cut),
            !.big = FALSE, !.failures = 0]
  BY DEF Compacted
<1> DEFINE n == Len(st.conv)
           b == st.turn_start
           conv == <<Plain("summary", <<>>)>> \o SubSeq(st.conv, cut, n)
           start == MovedStart(b, cut)
<1>3. st.conv \in Seq(Message) /\ n \in Nat /\ b \in Nat
  BY <1>1, RunParts, LenProperties
<1>4. cut \in 2..n /\ cut \in 1..Len(st.conv) /\ st.conv[cut].kind = "answer"
  BY <1>3 DEF Cuts, LastAnswer
<1>5. /\ Whole(conv, FALSE) /\ conv \in Seq(Message) /\ Len(conv) = n - cut + 2
      /\ conv[1].start /\ \A i \in 2 .. n - cut + 2 : conv[i] = st.conv[cut + i - 2]
  BY <1>1, <1>3, <1>4, WholeCompacted
<1>6. b < n /\ st.conv[b + 1].start
  BY <1>1 DEF OwnPart
<1>7. r \in RunState /\ SameRun(r, st)
  BY <1>1, ChargedType
<1>8. st' = [r EXCEPT !.conv = conv, !.turn_start = start, !.big = FALSE, !.failures = 0]
  BY <1>2
<1> HIDE DEF n, b, conv
<1>9. start \in Nat /\ start < Len(conv) /\ conv[start + 1].start
  <2>1. CASE b >= cut - 1
    <3>1. start = b - cut + 2
      BY <2>1 DEF MovedStart
    <3> HIDE DEF start
    <3>2. /\ cut \in Nat /\ cut >= 2 /\ cut <= n /\ b < n /\ b >= cut - 1
          /\ n \in Nat /\ b \in Nat
      BY <1>3, <1>4, <1>6, <2>1
    <3>3. start \in Nat /\ start >= 1 /\ start < n - cut + 2
      BY <3>1, <3>2
    <3>4. start + 1 \in 2 .. n - cut + 2 /\ cut + (start + 1) - 2 = b + 1
      BY <3>1, <3>2, <3>3
    <3>5. conv[start + 1] = st.conv[b + 1]
      BY <1>5, <3>4
    <3>6. QED
      BY <1>5, <1>6, <3>3, <3>5
  <2>2. CASE ~(b >= cut - 1)
    <3>1. start = 0
      BY <2>2 DEF MovedStart
    <3> HIDE DEF start
    <3>2. QED
      BY <1>3, <1>4, <1>5, <3>1
  <2>3. QED
    BY <2>1, <2>2
<1> HIDE DEF start
<1>10. /\ st' \in RunState /\ st'.conv = conv /\ st'.turn_start = start
       /\ st'.turn = st.turn /\ st'.steps = st.steps
       /\ st'.actor = st.actor /\ st'.caller = st.caller
  BY <1>5, <1>7, <1>8, <1>9 DEF RunState, SameRun
<1>11. Whole(st'.conv, FALSE) /\ OwnPart(st')
  BY <1>5, <1>9, <1>10 DEF OwnPart
<1>12. QED
  BY <1>1, <1>10, <1>11, MovedKeeps

(* A compaction that fails, and one that is not due.                       *)
LEMMA UncompactedKeeps == ASSUME IInv, Proceed \/ CompactionFails PROVE IInv'
<1>1. /\ phase \in {"top", "compacting"} /\ phase' \in {"compacting", "asking"}
      /\ st \in RunState /\ Whole(st.conv, FALSE) /\ OwnPart(st)
      /\ UNCHANGED <<callVars, parked, sessionVars, nextTurn, auditVars>>
  <2>1. phase \in {"top", "compacting"} /\ phase' \in {"compacting", "asking"}
    BY DEF Proceed, CompactionFails
  <2>2. st \in RunState /\ Whole(st.conv, FALSE) /\ OwnPart(st)
    BY <2>1 DEF IInv, TypeOK, Conversations
  <2>3. UNCHANGED <<callVars, parked, sessionVars, nextTurn, auditVars>>
    BY DEF Proceed, CompactionFails
  <2>4. QED
    BY <2>1, <2>2, <2>3
<1>2. st' \in RunState /\ SameRun(st', st)
  <2>1. CASE Proceed
    BY <1>1, <2>1 DEF Proceed, SameRun
  <2>2. CASE CompactionFails
    <3>1. PICK r \in Charged(st) :
            st' = [r EXCEPT !.failures = st.failures + 1,
                            !.retry_at = RetryAt(st.steps, st.failures + 1)]
      BY <2>2 DEF CompactionFails
    <3> DEFINE f == st.failures + 1
               next == RetryAt(st.steps, f)
    <3>2. r \in RunState /\ SameRun(r, st)
      BY <1>1, ChargedType
    <3>3. f \in Nat /\ st.steps \in Nat
      BY <1>1, RunParts
    <3>4. next \in Nat
      <4> HIDE DEF f
      <4>1. 2^f \in Nat
        BY <3>3, PowersAreNaturals
      <4> DEFINE wait == 2^f
      <4>2. next = st.steps + wait
        BY DEF RetryAt
      <4> HIDE DEF wait, next
      <4>3. wait \in Nat
        BY <4>1 DEF wait
      <4>4. QED
        BY <3>3, <4>2, <4>3
    <3>5. st' = [r EXCEPT !.failures = f, !.retry_at = next]
      BY <3>1
    <3> HIDE DEF f, next
    <3>6. QED
      BY <3>2, <3>3, <3>4, <3>5 DEF RunState, SameRun
  <2>3. QED
    BY <2>1, <2>2
<1>3. QED
  <2>1. /\ st'.turn = st.turn /\ st'.steps = st.steps /\ st'.actor = st.actor
        /\ st'.caller = st.caller /\ st'.conv = st.conv /\ st'.turn_start = st.turn_start
    BY <1>2 DEF SameRun
  <2>2. Whole(st'.conv, FALSE) /\ OwnPart(st')
    BY <1>1, <2>1 DEF OwnPart
  <2>3. QED
    BY <1>1, <1>2, <2>1, <2>2, MovedKeeps

(* The run ends, with what it has or with a last answer.                   *)
LEMMA EndKeeps == ASSUME IInv, GiveUp \/ ProviderFails \/ AnswerEnds PROVE IInv'
<1>1. st \in RunState /\ Whole(st.conv, FALSE) /\ OwnPart(st)
  <2>1. phase \in {"top", "asking"}
    BY DEF GiveUp, ProviderFails, AnswerEnds
  <2>2. QED
    BY <2>1 DEF IInv, TypeOK, Conversations
<1>2. st.conv \in Seq(Message) /\ Len(st.conv) \in Nat /\ st.turn_start \in Nat
  BY <1>1, RunParts, LenProperties
<1>3. st.conv # <<>>
  BY <1>1, <1>2, EmptySeq DEF OwnPart
<1>4. CASE GiveUp \/ ProviderFails
  BY <1>1, <1>2, <1>4, FinishKeeps DEF GiveUp, ProviderFails
<1>5. CASE AnswerEnds
  <2>1. PICK said \in Replayable : Finish(st.conv \o said)
    BY <1>5 DEF AnswerEnds
  <2>2. CASE said = <<>>
    <3>1. st.conv \o said = st.conv
      BY <1>2, <2>2, ConcatEmptySeq
    <3>2. QED
      BY <1>1, <1>2, <2>1, <3>1, FinishKeeps
  <2>3. CASE said = <<Plain("answer", <<>>)>>
    <3> DEFINE m == Plain("answer", <<>>)
    <3>1. m \in Message /\ m.kind = "answer" /\ m.ids = <<>>
      <4>1. <<>> \in Seq(CallId)
        BY EmptySeq
      <4>2. QED
        BY <4>1, PlainType
    <3> HIDE DEF m
    <3>2. st.conv \o said = Append(st.conv, m)
      BY <1>2, <2>3, <3>1, AppendIsConcat DEF m
    <3>3. Whole(Append(st.conv, m), FALSE)
      BY <1>1, <1>2, <1>3, <3>1, WholeSaid
    <3>4. Append(st.conv, m) \in Seq(Message)
      BY <1>2, <3>1, AppendProperties
    <3>5. QED
      BY <2>1, <3>2, <3>3, <3>4, FinishKeeps
  <2>4. QED
    BY <2>2, <2>3 DEF Replayable
<1>6. QED
  BY <1>4, <1>5

(* The run's future is dropped, or the run is parked.                      *)
LEMMA DroppedKeeps == ASSUME IInv, Cancel \/ Suspend PROVE IInv'
<1>1. /\ Free /\ UNCHANGED <<nextTurn, auditVars>> /\ saved' = saved /\ revisions' = revisions
  BY DEF Cancel, Suspend, sessionVars
<1>2. /\ saved'.conv \in Seq(Message) /\ saved'.rev \in Nat /\ revisions' \in Nat
      /\ Whole(saved'.conv, FALSE)
  BY <1>1 DEF IInv, TypeOK, Conversations
<1>3. CASE Cancel
  BY <1>1, <1>2, <1>3, FreedKeeps DEF Cancel
<1>4. CASE Suspend
  <2> DEFINE new == [st |-> st, calls |-> calls, gated |-> at, results |-> results]
  <2>1. phase = "calling" /\ at \in DOMAIN calls
    BY <1>4, LenProperties DEF Suspend, Calling, IInv, TypeOK
  <2>2. PICK kept \in SUBSET parked : parked' = kept \cup {new}
    BY <1>4 DEF Suspend
  <2> HIDE DEF new
  <2>3. \A p \in parked' : p \in parked \/ p = new
    BY <2>2
  <2>4. QED
    BY <1>1, <1>2, <2>1, <2>3, FreedKeeps DEF new
<1>5. QED
  BY <1>3, <1>4

(* A call is looked at: transferred, refused or dispatched.                *)
LEMMA CallKeeps == ASSUME IInv, Handoff \/ HandoffFails \/ Refuse \/ Dispatch PROVE IInv'
<1>1. Calling /\ Answer /\ UNCHANGED <<approved, declined>>
  BY DEF Handoff, HandoffFails, Refuse, Dispatch, auditVars
<1>2. st \in RunState
  BY <1>1 DEF IInv, TypeOK, Calling
<1>3. CASE Handoff
  <2>1. /\ st' = [st EXCEPT !.def = Current.to,
                            !.actor = HandoffActor(st.caller, st.actor, Current.to)]
        /\ IsHandoff /\ ran' = ran
    BY <1>3 DEF Handoff, auditVars
  <2>2. st.def \in Agents /\ st.caller \in SUBSET Grant /\ st.actor \in SUBSET Grant
    BY <1>2, RunParts
  <2>3. Current.to \in Agents
    BY <2>1, <2>2, AgentAssumption DEF IsHandoff
  <2> DEFINE actor == HandoffActor(st.caller, st.actor, Current.to)
  <2>4. actor \in SUBSET Grant /\ Allows(actor) \subseteq Allows(st.actor)
    BY <2>2, <2>3, HandoffActorType
  <2> HIDE DEF actor
  <2>5. st' = [st EXCEPT !.def = Current.to, !.actor = actor]
    BY <2>1 DEF actor
  <2>6. /\ st' \in RunState /\ st'.actor = actor
        /\ st'.turn = st.turn /\ st'.steps = st.steps /\ st'.caller = st.caller
        /\ st'.conv = st.conv /\ st'.turn_start = st.turn_start
    BY <1>2, <2>3, <2>4, <2>5 DEF RunState
  <2>7. QED
    BY <1>1, <2>1, <2>4, <2>6, LookedKeeps
<1>4. CASE HandoffFails \/ Refuse
  BY <1>1, <1>2, <1>4, LookedKeeps DEF HandoffFails, Refuse, auditVars
<1>5. CASE Dispatch
  <2>1. PICK r \in Charged(st) : st' = r
    BY <1>5 DEF Dispatch
  <2>2. st' \in RunState /\ SameRun(st', st)
    BY <1>2, <2>1, ChargedType
  <2>3. \/ ran' = ran
        \/ ran' = ran \cup {Current.id} /\ (cleared \/ Current.to \notin Gated)
    BY <1>5 DEF Dispatch, NeedsHuman
  <2>4. QED
    BY <1>1, <2>2, <2>3, LookedKeeps DEF SameRun
<1>6. QED
  BY <1>3, <1>4, <1>5

(* A human decides, or nobody does in time.                                *)
LEMMA HumanKeeps ==
    ASSUME IInv, NEW p \in parked, Approve(p) \/ Decline(p) \/ Forgotten(p)
    PROVE  IInv'
<1>1. CASE Approve(p)
  <2>1. declined' = declined
    BY <1>1 DEF Approve
  <2>2. QED
    BY <1>1, <2>1, ResumedKeeps DEF Approve
<1>2. CASE Decline(p)
  BY <1>2, ResumedKeeps DEF Decline, AfterDenial
<1>3. CASE Forgotten(p)
  <2>1. /\ parked' \subseteq parked /\ saved' = saved /\ nextTurn' = nextTurn
        /\ UNCHANGED <<st, phase, callVars, revisions, auditVars>>
    BY <1>3 DEF Forgotten, sessionVars
  <2>2. nextTurn \in Nat
    BY DEF IInv, TypeOK
  <2>3. QED
    BY <2>1, <2>2, StillKeeps
<1>4. QED
  BY <1>1, <1>2, <1>3

(* No run starts: the context providers fail, or the session is lost.      *)
LEMMA NoRunKeeps == ASSUME IInv, BeginFails \/ SessionLost PROVE IInv'
<1>1. nextTurn \in Nat
  BY DEF IInv, TypeOK
<1>2. /\ UNCHANGED <<st, phase, callVars, revisions, auditVars>> /\ parked' = parked
      /\ nextTurn' \in Nat /\ nextTurn <= nextTurn'
      /\ saved' = saved \/ saved' = [conv |-> <<>>, rev |-> 0]
  BY <1>1 DEF BeginFails, SessionLost
<1>3. QED
  BY <1>2, StillKeeps

THEOREM NextIInv == IInv /\ [Next]_vars => IInv'
<1>1. SUFFICES ASSUME IInv, [Next]_vars PROVE IInv'
  OBVIOUS
<1>2. CASE Begin
  BY <1>1, <1>2, BeginKeeps
<1>3. CASE BeginFails \/ SessionLost
  BY <1>1, <1>3, NoRunKeeps
<1>4. CASE GiveUp \/ ProviderFails \/ AnswerEnds
  BY <1>1, <1>4, EndKeeps
<1>5. CASE Proceed \/ CompactionFails
  BY <1>1, <1>5, UncompactedKeeps
<1>6. CASE Compacted
  BY <1>1, <1>6, CompactedKeeps
<1>7. CASE AnswerAsks
  BY <1>1, <1>7, AnswerAsksKeeps
<1>8. CASE Handoff \/ HandoffFails \/ Refuse \/ Dispatch
  BY <1>1, <1>8, CallKeeps
<1>9. CASE Suspend \/ Cancel
  BY <1>1, <1>9, DroppedKeeps
<1>10. CASE Results
  BY <1>1, <1>10, ResultsKeeps
<1>11. CASE \E p \in parked : Approve(p) \/ Decline(p) \/ Forgotten(p)
  BY <1>1, <1>11, HumanKeeps
<1>12. CASE UNCHANGED vars
  <2>1. /\ UNCHANGED <<st, phase, callVars, revisions, auditVars>> /\ parked' = parked
        /\ nextTurn' = nextTurn /\ saved' = saved
    BY <1>12 DEF vars, sessionVars
  <2>2. nextTurn \in Nat
    BY <1>1 DEF IInv, TypeOK
  <2>3. QED
    BY <1>1, <2>1, <2>2, StillKeeps
<1>13. QED
  BY <1>1, <1>2, <1>3, <1>4, <1>5, <1>6, <1>7, <1>8, <1>9, <1>10, <1>11, <1>12
     DEF Next, Running

-----------------------------------------------------------------------------
(* What holds of every behaviour *)

(* The invariant holds in every state, however the environment answers.    *)
THEOREM Inductive == Spec => []IInv
<1>1. Init => IInv
  BY InitIInv
<1>2. IInv /\ [Next]_vars => IInv'
  BY NextIInv
<1>3. QED
  BY <1>1, <1>2, PTL DEF Spec

(* Every run, call, conversation and suspension has its type, and a run is *)
(* in control exactly when its future is somewhere (AgentRuntime::run).    *)
THEOREM TypeCorrect == Spec => []TypeOK
<1>1. IInv => TypeOK
  BY DEF IInv
<1>2. QED
  BY <1>1, Inductive, PTL

(* A gated tool runs only on the call a human approved, and a declined     *)
(* call never runs (execute_calls, resume_approval).                       *)
THEOREM GateSafety == Spec => []GateHolds
<1>1. ASSUME IInv PROVE GateHolds
  <2>1. ran \cap declined = {}
    BY <1>1 DEF IInv, Audited
  <2>2. ASSUME NEW i \in DOMAIN calls, calls[i].id \in ran, calls[i].to \in Gated
        PROVE  calls[i].id \in approved
    <3>1. calls # <<>>
      BY <2>2
    <3>2. Orderly(st, calls, at, results)
      BY <1>1, <3>1 DEF IInv, InControl
    <3>3. QED
      BY <2>2, <3>2 DEF Orderly
  <2>3. QED
    BY <2>1, <2>2 DEF GateHolds
<1>2. QED
  BY <1>1, Inductive, PTL

(* What is still to be looked at was never decided. *)
LEMMA UndecidedAhead ==
    ASSUME TypeOK, NEW r \in RunState, NEW cs \in Seq(Call), NEW pos \in Nat \ {0}, NEW rs,
           Orderly(r, cs, pos, rs), NEW i \in pos..Len(cs)
    PROVE  cs[i].id \notin ran
<1>1. Len(cs) \in Nat /\ DOMAIN cs = 1..Len(cs) /\ r.steps \in Nat
  BY LenProperties, RunParts
<1>2. i \in DOMAIN cs /\ i \in Nat /\ ~(i < pos)
  BY <1>1
<1>3. cs[i].id = <<r.turn, r.steps, i>>
  BY <1>2 DEF Orderly
<1>4. cs[i].id \in Decided => r.steps < r.steps \/ i < pos
  BY <1>3 DEF Orderly
<1>5. QED
  BY <1>1, <1>2, <1>4 DEF Decided

(* The calls of an answer run at most once and in order, also when a human *)
(* held them up in between (execute_calls, resume_approval).               *)
THEOREM OnceSafety == Spec => []RunsOnce
<1>1. ASSUME IInv PROVE RunsOnce
  <2>1. ASSUME phase = "calling", NEW i \in at..Len(calls) PROVE calls[i].id \notin ran
    <3>1. st \in RunState /\ calls \in Seq(Call) /\ at \in Nat \ {0}
      BY <1>1, <2>1 DEF IInv, TypeOK
    <3>2. st # NoRun
      BY <3>1, NoRunAssumption
    <3>3. Orderly(st, calls, at, results) /\ TypeOK
      BY <1>1, <3>2 DEF IInv, InControl
    <3>4. QED
      BY <3>1, <3>3, UndecidedAhead
  <2>2. ASSUME NEW p \in parked, NEW i \in p.gated..Len(p.calls)
        PROVE  p.calls[i].id \notin ran
    <3>1. p.st \in RunState /\ p.calls \in Seq(Call) /\ p.gated \in DOMAIN p.calls
      BY <1>1 DEF IInv, TypeOK
    <3>2. p.gated \in Nat \ {0}
      BY <3>1, LenProperties
    <3>3. Orderly(p.st, p.calls, p.gated, p.results) /\ TypeOK
      BY <1>1 DEF IInv, Waiting
    <3>4. QED
      BY <3>1, <3>2, <3>3, UndecidedAhead
  <2>3. QED
    BY <2>1, <2>2 DEF RunsOnce
<1>2. QED
  BY <1>1, Inductive, PTL

(* No conversation saved or sent to a provider holds a tool call apart     *)
(* from its result (drive_steps, replayable, maybe_compact, bound,         *)
(* rebase_onto_session).                                                   *)
THEOREM PairsSafety == Spec => []ToolPairsWhole
<1>1. ASSUME IInv PROVE ToolPairsWhole
  <2>1. saved.conv \in Seq(Message) /\ Whole(saved.conv, FALSE)
    BY <1>1 DEF IInv, TypeOK, Conversations
  <2>2. ASSUME phase \in {"asking", "top"} PROVE Paired(st.conv)
    <3>1. st \in RunState /\ Whole(st.conv, FALSE)
      BY <1>1, <2>2 DEF IInv, TypeOK, Conversations
    <3>2. st.conv \in Seq(Message)
      BY <3>1, RunParts
    <3>3. QED
      BY <3>1, <3>2, WholePaired
  <2>3. QED
    BY <2>1, <2>2, WholePaired DEF ToolPairsWhole
<1>2. QED
  BY <1>1, Inductive, PTL

(* Whoever is in control of a run, now or after an approval, holds no more *)
(* than the caller the run is for (delegate_to_agent, handoff).            *)
WithinCaller ==
    /\ st # NoRun => Allows(st.actor) \subseteq Allows(st.caller)
    /\ \A p \in parked : Allows(p.st.actor) \subseteq Allows(p.st.caller)

THEOREM CallerBounds == Spec => []WithinCaller
<1>1. IInv => WithinCaller
  BY DEF IInv, InControl, Waiting, Orderly, WithinCaller
<1>2. QED
  BY <1>1, Inductive, PTL

(* A step leaves the run in control with the authority it had. *)
LEMMA StepKeepsAuthority ==
  ASSUME IInv, Next, st # NoRun, st' # NoRun
  PROVE  st'.turn = st.turn /\ Allows(st'.actor) \subseteq Allows(st.actor)
<1>1. st \in RunState /\ phase # "idle"
  BY DEF IInv, TypeOK
<1>2. CASE Handoff
  <2>1. /\ st' = [st EXCEPT !.def = Current.to,
                            !.actor = HandoffActor(st.caller, st.actor, Current.to)]
        /\ IsHandoff
    BY <1>2 DEF Handoff
  <2>2. st.def \in Agents /\ st.caller \in SUBSET Grant /\ st.actor \in SUBSET Grant
    BY <1>1, RunParts
  <2>3. Current.to \in Agents
    BY <2>1, <2>2, AgentAssumption DEF IsHandoff
  <2>4. st'.actor = HandoffActor(st.caller, st.actor, Current.to) /\ st'.turn = st.turn
    BY <1>1, <2>1 DEF RunState
  <2>5. QED
    BY <2>2, <2>3, <2>4, HandoffActorType
<1>3. CASE Proceed \/ HandoffFails \/ Refuse
  BY <1>3 DEF Proceed, HandoffFails, Refuse
<1>4. CASE Compacted
  <2>1. PICK i \in Cuts, r \in Charged(st) :
          st' = [r EXCEPT
              !.conv = <<Plain("summary", <<>>)>> \o SubSeq(st.conv, i, Len(st.conv)),
              !.turn_start = MovedStart(st.turn_start, i),
              !.big = FALSE, !.failures = 0]
    BY <1>4 DEF Compacted
  <2>2. r \in RunState /\ r.actor = st.actor /\ r.turn = st.turn
    BY <1>1, ChargedType DEF SameRun
  <2>3. st'.actor = r.actor /\ st'.turn = r.turn
    BY <2>1, <2>2 DEF RunState
  <2>4. QED
    BY <2>2, <2>3
<1>5. CASE CompactionFails
  <2>1. PICK r \in Charged(st) :
          st' = [r EXCEPT !.failures = st.failures + 1,
                          !.retry_at = RetryAt(st.steps, st.failures + 1)]
    BY <1>5 DEF CompactionFails
  <2>2. r \in RunState /\ r.actor = st.actor /\ r.turn = st.turn
    BY <1>1, ChargedType DEF SameRun
  <2>3. st'.actor = r.actor /\ st'.turn = r.turn
    BY <2>1, <2>2 DEF RunState
  <2>4. QED
    BY <2>2, <2>3
<1>6. CASE AnswerAsks
  <2>1. PICK r \in Answered : \E conv : st' = [r EXCEPT !.conv = conv]
    BY <1>6 DEF AnswerAsks
  <2>2. r \in RunState /\ r.actor = st.actor /\ r.turn = st.turn
    BY <1>1, AnsweredType
  <2>3. st'.actor = r.actor /\ st'.turn = r.turn
    BY <2>1, <2>2 DEF RunState
  <2>4. QED
    BY <2>2, <2>3
<1>7. CASE Dispatch
  <2>1. PICK r \in Charged(st) : st' = r
    BY <1>7 DEF Dispatch
  <2>2. QED
    BY <1>1, <2>1, ChargedType DEF SameRun
<1>8. CASE Results
  <2>1. st'.actor = st.actor /\ st'.turn = st.turn
    BY <1>1, <1>8 DEF Results, RunState
  <2>2. QED
    BY <2>1
<1>9. CASE SessionLost \/ BeginFails \/ \E p \in parked : Forgotten(p)
  BY <1>9 DEF SessionLost, BeginFails, Forgotten
<1>10. CASE Begin \/ \E p \in parked : Approve(p) \/ Decline(p)
  BY <1>1, <1>10 DEF Begin, Approve, Decline
<1>11. CASE GiveUp \/ ProviderFails \/ AnswerEnds \/ Suspend \/ Cancel
  BY <1>11 DEF GiveUp, ProviderFails, AnswerEnds, Suspend, Cancel, Finish, Free
<1>12. QED
  BY <1>2, <1>3, <1>4, <1>5, <1>6, <1>7, <1>8, <1>9, <1>10, <1>11 DEF Next, Running

(* Nor does authority grow from one step of a run to the next: a handoff   *)
(* leaves what the agent before it held, or less, and a run is parked and  *)
(* resumed with what it held.                                              *)
THEOREM AuthorityNeverGrows == Spec => AuthorityShrinks
<1> DEFINE Came(r) == \E was \in Runs : /\ was.turn = r.turn
                                         /\ Allows(r.actor) \subseteq Allows(was.actor)
           Kept == \A r \in Runs' : r.turn < nextTurn => Came(r)
<1>1. ASSUME IInv, Next PROVE Kept
  <2>1. \A r \in Runs : Came(r)
    OBVIOUS
  <2>2. /\ st # NoRun => st \in Runs
        /\ \A p \in parked : p.st \in Runs /\ p.st \in RunState
    BY <1>1 DEF Runs, IInv, TypeOK
  <2>3. ASSUME parked' \subseteq parked, \/ st' = NoRun
                                        \/ Came(st')
                                        \/ st'.turn = nextTurn
        PROVE  Kept
    <3>1. nextTurn \in Nat
      BY <1>1 DEF IInv, TypeOK
    <3> HIDE DEF Came
    <3>2. QED
      BY <2>1, <2>2, <2>3, <3>1 DEF Runs
  <2>4. CASE Begin
    <3>1. st'.turn = nextTurn /\ parked' = parked
      BY <2>4 DEF Begin
    <3>2. QED
      BY <2>3, <3>1
  <2>5. CASE BeginFails \/ SessionLost
    BY <2>1, <2>2, <2>3, <2>5 DEF BeginFails, SessionLost
  <2>6. CASE Suspend
    <3> DEFINE new == [st |-> st, calls |-> calls, gated |-> at, results |-> results]
    <3>1. /\ phase = "calling" /\ st' = NoRun
          /\ \E kept \in SUBSET parked : parked' = kept \cup {new}
      BY <2>6 DEF Suspend, Calling, Free
    <3>2. new.st = st /\ st # NoRun
      BY <1>1, <3>1 DEF IInv, TypeOK
    <3> HIDE DEF new
    <3>3. \A r \in Runs' : r \in Runs
      BY <2>2, <3>1, <3>2 DEF Runs
    <3> HIDE DEF Came
    <3>4. QED
      BY <2>1, <3>3
  <2>7. CASE Running /\ ~Suspend
    <3>1. parked' = parked /\ st # NoRun
      BY <1>1, <2>7 DEF Running, GiveUp, Proceed, Compacted, CompactionFails, ProviderFails,
         AnswerEnds, AnswerAsks, Handoff, HandoffFails, Refuse, Dispatch, Results, Finish, Answer,
         Calling, IInv, TypeOK
    <3>2. st' # NoRun => Came(st')
      BY <1>1, <2>2, <3>1, StepKeepsAuthority
    <3> HIDE DEF Came
    <3>3. QED
      BY <2>3, <3>1, <3>2
  <2>8. CASE Cancel
    BY <2>3, <2>8 DEF Cancel, Free
  <2>9. ASSUME NEW p \in parked, Approve(p) \/ Decline(p) PROVE Kept
    <3>1. st' = Rebased(p.st) /\ parked' \subseteq parked
      BY <2>9 DEF Approve, Decline
    <3>2. st'.turn = p.st.turn /\ st'.actor = p.st.actor
      BY <2>2, <3>1 DEF Rebased, RunState
    <3>3. Came(st')
      BY <2>2, <3>2
    <3> HIDE DEF Came
    <3>4. QED
      BY <2>3, <3>1, <3>3
  <2>10. ASSUME NEW p \in parked, Forgotten(p) PROVE Kept
    BY <2>1, <2>2, <2>3, <2>10 DEF Forgotten
  <2>11. QED
    BY <1>1, <2>4, <2>5, <2>6, <2>7, <2>8, <2>9, <2>10 DEF Next
<1>2. ASSUME IInv, Next
      PROVE  \A r \in Runs' : r.turn < nextTurn =>
               \E was \in Runs : was.turn = r.turn /\ Allows(r.actor) \subseteq Allows(was.actor)
  BY <1>1, <1>2
<1> HIDE DEF Kept, Came
<1>3. QED
  BY <1>2, Inductive, PTL DEF Spec, AuthorityShrinks

=============================================================================
