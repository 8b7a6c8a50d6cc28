--------------------------- MODULE ModelWireProofs ---------------------------
(***************************************************************************)
(* Proofs about ModelWire, for any names, ids, results, number of images   *)
(* and length of the conversation.  The first half is about conversations: *)
(* what flattening, faded images and one more message make of the ids and  *)
(* images in them.  WireInv is inductive, and the last part is what        *)
(* to_wire makes of a conversation that satisfies it, in both formats.     *)
(***************************************************************************)
EXTENDS ModelWire, Sums, SequenceTheorems

---------------------------------------------------------------------------
(* Going from 0 to n *)

LEMMA Reaches ==
  ASSUME NEW n \in Nat, NEW G, 0 \in G, \A k \in 1..n : k - 1 \in G => k \in G
  PROVE  n \in G /\ \A k \in 0..n : k \in G
<1> DEFINE bad == {k \in 0..n : k \notin G}
<1> SUFFICES ASSUME bad # {}
             PROVE  FALSE
  OBVIOUS
<1>1. bad \in SUBSET Nat
  OBVIOUS
<1>2. PICK k \in bad : \A j \in bad : k <= j
  BY <1>1, LeastOf
<1>3. k \in 1..n /\ k - 1 \in 0..n /\ ~(k <= k - 1)
  BY <1>2
<1>4. k - 1 \in G
  BY <1>2, <1>3
<1> QED  BY <1>2, <1>3, <1>4

\* A function defined by what it was one before.
StepsIn(step, n, S) == \A i \in 1..n, s \in S : step[<<i, s>>] \in S

Follows(f, step, b, n, S) ==
  f \in [0..n -> S] /\ f[0] = b /\ \A i \in 1..n : f[i] = step[<<i, f[i - 1]>>]

LEMMA Recursion ==
  ASSUME NEW S, NEW b \in S, NEW n \in Nat, NEW step, StepsIn(step, n, S)
  PROVE  \E f : Follows(f, step, b, n, S)
<1> DEFINE Good(m, f) == Follows(f, step, b, m, S)
           G == {m \in 0..n : \E f : Good(m, f)}
<1>1. 0 \in G
  <2>1. Good(0, [i \in 0..0 |-> b])
    BY DEF Follows
  <2> HIDE DEF Good
  <2>2. \E f : Good(0, f)
    BY <2>1
  <2> QED  BY <2>2
<1>2. ASSUME NEW m \in 1..n, m - 1 \in G
      PROVE  m \in G
  <2>1. PICK f : Good(m - 1, f)
    BY <1>2
  <2> DEFINE g == [i \in 0..m |-> IF i = m THEN step[<<m, f[m - 1]>>] ELSE f[i]]
  <2>2. /\ m \in Nat /\ f[m - 1] \in S /\ f[0] = b
        /\ \A i \in 0..(m - 1) : f[i] \in S
        /\ \A i \in 1..(m - 1) : f[i] = step[<<i, f[i - 1]>>]
    BY <1>2, <2>1 DEF Follows
  <2>3. step[<<m, f[m - 1]>>] \in S
    BY <1>2, <2>2 DEF StepsIn
  <2>4. g \in [0..m -> S]
    BY <2>2, <2>3
  <2>5. g[0] = b
    BY <1>2, <2>2
  <2>6. ASSUME NEW i \in 1..m
        PROVE  g[i] = step[<<i, g[i - 1]>>]
    <3>1. i - 1 \in 0..m /\ i - 1 # m /\ g[i - 1] = f[i - 1]
      BY <2>2
    <3>2. CASE i = m
      BY <3>1, <3>2
    <3>3. CASE i # m
      BY <2>2, <3>1, <3>3
    <3> QED  BY <3>2, <3>3
  <2> HIDE DEF g
  <2>7. Good(m, g)
    BY <2>4, <2>5, <2>6 DEF Follows
  <2> HIDE DEF Good
  <2> QED  BY <1>2, <2>7
<1> HIDE DEF G
<1>3. n \in G
  BY <1>1, <1>2, Reaches
<1> QED  BY <1>3 DEF G

---------------------------------------------------------------------------
(* Sequences one after another *)

Start(s, k) == SubSeq(s, 1, k)

LEMMA Starts ==
  ASSUME NEW T, NEW s \in Seq(T)
  PROVE  /\ Start(s, 0) = <<>> /\ Start(s, Len(s)) = s
         /\ \A k \in 0..Len(s) : Start(s, k) \in Seq(T) /\ Len(Start(s, k)) = k
         /\ \A k \in 1..Len(s) : Start(s, k) = Append(Start(s, k - 1), s[k])
<1>1. Len(s) \in Nat /\ DOMAIN s = 1..Len(s)
  BY LenProperties
<1>2. ASSUME NEW k \in 0..Len(s)
      PROVE  /\ Start(s, k) \in Seq(T) /\ Len(Start(s, k)) = k
             /\ \A i \in 1..k : Start(s, k)[i] = s[i]
  BY <1>1, SubSeqProperties DEF Start
<1>3. Start(s, 0) = <<>>
  BY <1>1, <1>2, EmptySeq
<1>4. Start(s, Len(s)) = s
  BY <1>1, <1>2, SeqEqual
<1>5. ASSUME NEW k \in 1..Len(s)
      PROVE  Start(s, k) = Append(Start(s, k - 1), s[k])
  <2>1. k - 1 \in 0..Len(s) /\ k \in 0..Len(s) /\ s[k] \in T
    BY <1>1, ElementOfSeq
  <2> DEFINE a == Append(Start(s, k - 1), s[k])
  <2>2. a \in Seq(T) /\ Len(a) = k /\ (\A i \in 1..(k - 1) : a[i] = Start(s, k - 1)[i])
        /\ a[k] = s[k]
    BY <1>2, <2>1, AppendProperties
  <2>3. \A i \in 1..k : a[i] = Start(s, k)[i]
    BY <1>2, <2>1, <2>2
  <2> HIDE DEF a
  <2>4. Start(s, k) = a
    BY <1>2, <2>1, <2>2, <2>3, SeqEqual
  <2> QED  BY <2>4 DEF a
<1> QED  BY <1>2, <1>3, <1>4, <1>5

\* The function FlattenSeq is defined by.
Flattens(f, seqs) ==
  f = [i \in 1..Len(seqs) |-> IF i = 1 THEN seqs[i] ELSE f[i - 1] \o seqs[i]]

LEMMA FlattenBy ==
  ASSUME NEW T, NEW seqs \in Seq(Seq(T)), Len(seqs) # 0
  PROVE  \E f \in [1..Len(seqs) -> Seq(T)] : Flattens(f, seqs) /\ FlattenSeq(seqs) = f[Len(seqs)]
<1> DEFINE n == Len(seqs)
           step == [x \in (1..n) \X Seq(T) |-> IF x[1] = 1 THEN seqs[x[1]] ELSE x[2] \o seqs[x[1]]]
           flatten == CHOOSE f : Flattens(f, seqs)
<1>1. n \in Nat /\ n # 0 /\ \A i \in 1..n : seqs[i] \in Seq(T)
  BY LenProperties, ElementOfSeq
<1> HIDE DEF n
<1>2. \A i \in 1..n, s \in Seq(T) :
        /\ step[<<i, s>>] = IF i = 1 THEN seqs[i] ELSE s \o seqs[i]
        /\ step[<<i, s>>] \in Seq(T)
  BY <1>1, ConcatProperties
<1>3. <<>> \in Seq(T)
  BY EmptySeq
<1> HIDE DEF step
<1>4. PICK f : Follows(f, step, <<>>, n, Seq(T))
  <2>1. StepsIn(step, n, Seq(T))
    BY <1>2 DEF StepsIn
  <2> QED  BY <1>1, <1>3, <2>1, Recursion
<1> DEFINE g == [i \in 1..n |-> f[i]]
<1>5. g \in [1..n -> Seq(T)]
  BY <1>1, <1>4 DEF Follows
<1>6. ASSUME NEW i \in 1..n
      PROVE  g[i] = IF i = 1 THEN seqs[i] ELSE g[i - 1] \o seqs[i]
  <2>1. i - 1 \in 0..n /\ f[i - 1] \in Seq(T)
    BY <1>1, <1>4 DEF Follows
  <2>2. i # 1 => i - 1 \in 1..n
    BY <1>1
  <2>3. f[i] = IF i = 1 THEN seqs[i] ELSE f[i - 1] \o seqs[i]
    BY <1>2, <1>4, <2>1 DEF Follows
  <2> QED  BY <2>2, <2>3
<1> HIDE DEF g
<1>7. Flattens(g, seqs)
  BY <1>5, <1>6 DEF Flattens, n
<1>8. Flattens(flatten, seqs)
  BY <1>7
<1>9. FlattenSeq(seqs) = flatten[n]
  BY <1>1 DEF FlattenSeq, Flattens, n
<1> HIDE DEF flatten
<1>10. \A k \in 0..n : k \in {j \in 0..n : j # 0 => flatten[j] = g[j]}
  <2> DEFINE G == {j \in 0..n : j # 0 => flatten[j] = g[j]}
  <2>1. 0 \in G
    BY <1>1
  <2>2. ASSUME NEW k \in 1..n, k - 1 \in G
        PROVE  k \in G
    <3>1. flatten[k] = IF k = 1 THEN seqs[k] ELSE flatten[k - 1] \o seqs[k]
      BY <1>8 DEF Flattens, n
    <3>2. k # 1 => flatten[k - 1] = g[k - 1]
      BY <1>1, <2>2
    <3> QED  BY <1>1, <1>6, <3>1, <3>2
  <2> HIDE DEF G
  <2>3. \A k \in 0..n : k \in G
    BY <1>1, <2>1, <2>2, Reaches
  <2> QED  BY <2>3 DEF G
<1>11. FlattenSeq(seqs) = g[n]
  BY <1>1, <1>9, <1>10
<1> QED  BY <1>5, <1>7, <1>11 DEF n

LEMMA FlattenEmpty == FlattenSeq(<<>>) = <<>>
  BY EmptySeq DEF FlattenSeq

LEMMA Joined ==
  ASSUME NEW T, NEW s \in Seq(T), NEW t \in Seq(T)
  PROVE  /\ s \o t \in Seq(T) /\ Len(s) \in Nat /\ Len(t) \in Nat
         /\ Len(s \o t) = Len(s) + Len(t)
         /\ \A p \in 1..Len(s) : (s \o t)[p] = s[p]
         /\ \A j \in 1..Len(t) : (s \o t)[Len(s) + j] = t[j]
<1>1. Len(s) \in Nat /\ Len(t) \in Nat
  BY LenProperties
<1>2. ASSUME NEW j \in 1..Len(t)
      PROVE  (s \o t)[Len(s) + j] = t[j]
  <2>1. Len(s) + j \in 1..(Len(s) + Len(t)) /\ ~(Len(s) + j <= Len(s)) /\ (Len(s) + j) - Len(s) = j
    BY <1>1
  <2> QED  BY <2>1, ConcatProperties
<1>3. ASSUME NEW p \in 1..Len(s)
      PROVE  (s \o t)[p] = s[p]
  <2>1. p \in 1..(Len(s) + Len(t)) /\ p <= Len(s)
    BY <1>1
  <2> QED  BY <2>1, ConcatProperties
<1> QED  BY <1>1, <1>2, <1>3, ConcatProperties

LEMMA JoinedAppend ==
  ASSUME NEW T, NEW s \in Seq(T), NEW t \in Seq(T), NEW x \in T
  PROVE  s \o Append(t, x) = Append(s \o t, x)
  OBVIOUS

LEMMA FlattenAppend ==
  ASSUME NEW T, NEW s \in Seq(Seq(T)), NEW x \in Seq(T)
  PROVE  FlattenSeq(s) \in Seq(T) /\ FlattenSeq(Append(s, x)) = FlattenSeq(s) \o x
<1> DEFINE n == Len(s)
           t == Append(s, x)
<1>1. n \in Nat /\ t \in Seq(Seq(T)) /\ Len(t) = n + 1 /\ t[n + 1] = x
      /\ \A i \in 1..n : t[i] = s[i]
  BY AppendProperties, LenProperties
<1>2. PICK g \in [1..(n + 1) -> Seq(T)] : Flattens(g, t) /\ FlattenSeq(t) = g[n + 1]
  <2> HIDE DEF t
  <2>1. t \in Seq(Seq(T)) /\ Len(t) # 0 /\ Len(t) = n + 1
    BY <1>1
  <2>2. \E g \in [1..Len(t) -> Seq(T)] : Flattens(g, t) /\ FlattenSeq(t) = g[Len(t)]
    BY <2>1, FlattenBy
  <2> QED  BY <2>1, <2>2
<1>3. CASE n = 0
  <2>1. s = <<>> /\ FlattenSeq(s) = s
    BY <1>3, EmptySeq DEF FlattenSeq
  <2>2. g[1] = x
    BY <1>1, <1>2, <1>3 DEF Flattens
  <2>3. <<>> \o x = x
    BY ConcatEmptySeq
  <2>4. g[n + 1] = g[1]
    BY <1>3
  <2> HIDE DEF t, n
  <2>5. FlattenSeq(t) = FlattenSeq(s) \o x /\ FlattenSeq(s) \in Seq(T)
    <3>1. FlattenSeq(s) = <<>> /\ <<>> \in Seq(T)
      BY <2>1, EmptySeq
    <3>2. FlattenSeq(t) = x
      BY <1>2, <2>2, <2>4
    <3> QED  BY <2>3, <3>1, <3>2
  <2> QED  BY <2>5 DEF t
<1>4. CASE n # 0
  <2>1. PICK f \in [1..n -> Seq(T)] : Flattens(f, s) /\ FlattenSeq(s) = f[n]
    BY <1>4, FlattenBy
  <2> DEFINE G == {j \in 0..n : j # 0 => f[j] = g[j]}
  <2>2. 0 \in G
    BY <1>1
  <2>3. ASSUME NEW k \in 1..n, k - 1 \in G
        PROVE  k \in G
    <3>1. k \in 1..(n + 1) /\ k \in 0..n
      BY <1>1
    <3>2. f[k] = IF k = 1 THEN s[k] ELSE f[k - 1] \o s[k]
      BY <2>1 DEF Flattens
    <3>3. g[k] = IF k = 1 THEN t[k] ELSE g[k - 1] \o t[k]
      BY <1>1, <1>2, <3>1 DEF Flattens
    <3>4. k # 1 => f[k - 1] = g[k - 1]
      BY <1>1, <2>3
    <3> QED  BY <1>1, <3>1, <3>2, <3>3, <3>4
  <2> HIDE DEF G
  <2>4. n \in G
    BY <1>1, <2>2, <2>3, Reaches
  <2>5. f[n] = g[n]
    BY <1>4, <2>4 DEF G
  <2>6. n + 1 \in 1..(n + 1) /\ n + 1 # 1 /\ (n + 1) - 1 = n
    BY <1>1, <1>4
  <2> HIDE DEF t
  <2>7. g[n + 1] = g[n] \o x
    BY <1>1, <1>2, <2>6 DEF Flattens
  <2>8. f[n] \in Seq(T)
    BY <1>1, <1>4, <2>1
  <2> QED  BY <1>2, <2>1, <2>5, <2>7, <2>8 DEF t
<1> QED  BY <1>3, <1>4

LEMMA FlattenType ==
  ASSUME NEW T, NEW s \in Seq(Seq(T))
  PROVE  FlattenSeq(s) \in Seq(T)
<1>1. <<>> \in Seq(T)
  BY EmptySeq
<1> QED  BY <1>1, FlattenAppend

\* One sequence more.
LEMMA FlattenStart ==
  ASSUME NEW T, NEW s \in Seq(Seq(T)), NEW k \in 1..Len(s)
  PROVE  /\ FlattenSeq(Start(s, k)) = FlattenSeq(Start(s, k - 1)) \o s[k]
         /\ FlattenSeq(Start(s, k)) \in Seq(T) /\ FlattenSeq(Start(s, k - 1)) \in Seq(T)
         /\ s[k] \in Seq(T)
<1>1. k \in Nat /\ Len(s) \in Nat /\ k - 1 \in 0..Len(s) /\ k \in 0..Len(s)
  BY LenProperties
<1>2. s[k] \in Seq(T)
  BY ElementOfSeq
<1>3. /\ Start(s, k - 1) \in Seq(Seq(T)) /\ Start(s, k) \in Seq(Seq(T))
      /\ Start(s, k) = Append(Start(s, k - 1), s[k])
  BY <1>1, Starts
<1> QED  BY <1>2, <1>3, FlattenAppend, FlattenType

---------------------------------------------------------------------------
(* Where things are in a flattened sequence *)

\* How many elements the first k sequences have.
Before(s, k) == Len(FlattenSeq(Start(s, k)))

LEMMA BeforeGrows ==
  ASSUME NEW T, NEW s \in Seq(Seq(T))
  PROVE  /\ Before(s, 0) = 0 /\ Before(s, Len(s)) = Len(FlattenSeq(s))
         /\ \A k \in 0..Len(s) : Before(s, k) \in Nat
         /\ \A k \in 1..Len(s) : Len(s[k]) \in Nat /\ Before(s, k) = Before(s, k - 1) + Len(s[k])
<1>1. Start(s, 0) = <<>> /\ Start(s, Len(s)) = s
      /\ \A k \in 0..Len(s) : Start(s, k) \in Seq(Seq(T))
  BY Starts
<1>2. Before(s, 0) = 0
  BY <1>1, FlattenEmpty, EmptySeq DEF Before
<1>3. \A k \in 0..Len(s) : Before(s, k) \in Nat
  BY <1>1, FlattenType, LenProperties DEF Before
<1>4. ASSUME NEW k \in 1..Len(s)
      PROVE  Len(s[k]) \in Nat /\ Before(s, k) = Before(s, k - 1) + Len(s[k])
  <2>1. /\ FlattenSeq(Start(s, k)) = FlattenSeq(Start(s, k - 1)) \o s[k]
        /\ FlattenSeq(Start(s, k - 1)) \in Seq(T) /\ s[k] \in Seq(T)
    BY FlattenStart
  <2> QED  BY <2>1, Joined DEF Before
<1> QED  BY <1>1, <1>2, <1>3, <1>4 DEF Before

\* The first sequences are a beginning of them all.
LEMMA StartsTheSame ==
  ASSUME NEW T, NEW s \in Seq(Seq(T))
  PROVE  \A i \in 0..Len(s) :
           /\ Before(s, i) <= Len(FlattenSeq(s))
           /\ \A p \in 1..Before(s, i) : FlattenSeq(s)[p] = FlattenSeq(Start(s, i))[p]
<1> DEFINE G == {k \in 0..Len(s) : \A i \in 0..k :
                   /\ Before(s, i) <= Before(s, k)
                   /\ \A p \in 1..Before(s, i) :
                        FlattenSeq(Start(s, k))[p] = FlattenSeq(Start(s, i))[p]}
<1>1. Len(s) \in Nat
  BY LenProperties
<1>2. 0 \in G
  BY <1>1, BeforeGrows
<1>3. ASSUME NEW k \in 1..Len(s), k - 1 \in G
      PROVE  k \in G
  <2>1. ASSUME NEW i \in 0..k, i # k
        PROVE  /\ Before(s, i) <= Before(s, k)
               /\ \A p \in 1..Before(s, i) :
                    FlattenSeq(Start(s, k))[p] = FlattenSeq(Start(s, i))[p]
    <3>1. i \in 0..(k - 1) /\ i \in 0..Len(s) /\ k - 1 \in 0..Len(s)
      BY <1>1, <2>1
    <3>2. /\ Before(s, i) <= Before(s, k - 1)
          /\ \A p \in 1..Before(s, i) :
               FlattenSeq(Start(s, k - 1))[p] = FlattenSeq(Start(s, i))[p]
      BY <1>3, <3>1
    <3>3. /\ Before(s, k) = Before(s, k - 1) + Len(s[k]) /\ Len(s[k]) \in Nat
          /\ Before(s, k - 1) \in Nat /\ Before(s, i) \in Nat
      BY <3>1, BeforeGrows
    <3>4. ASSUME NEW p \in 1..Before(s, k - 1)
          PROVE  FlattenSeq(Start(s, k))[p] = FlattenSeq(Start(s, k - 1))[p]
      <4>1. /\ FlattenSeq(Start(s, k)) = FlattenSeq(Start(s, k - 1)) \o s[k]
            /\ FlattenSeq(Start(s, k - 1)) \in Seq(T) /\ s[k] \in Seq(T)
        BY FlattenStart
      <4> QED  BY <4>1, Joined DEF Before
    <3> QED  BY <3>2, <3>3, <3>4
  <2>2. Before(s, k) \in Nat
    BY <1>1, BeforeGrows
  <2> QED  BY <1>1, <2>1, <2>2
<1> HIDE DEF G
<1>4. Len(s) \in G
  BY <1>1, <1>2, <1>3, Reaches
<1>5. Start(s, Len(s)) = s
  BY Starts
<1> QED  BY <1>4, <1>5 DEF G, Before

\* Every element is where it was, after those of the sequences before.
LEMMA Layout ==
  ASSUME NEW T, NEW s \in Seq(Seq(T))
  PROVE  /\ \A i \in 1..Len(s), j \in Nat : j \in 1..Len(s[i]) =>
              /\ Before(s, i - 1) + j \in 1..Len(FlattenSeq(s))
              /\ FlattenSeq(s)[Before(s, i - 1) + j] = s[i][j]
         /\ \A p \in 1..Len(FlattenSeq(s)) : \E i \in 1..Len(s) : \E j \in 1..Len(s[i]) :
              p = Before(s, i - 1) + j
<1>1. Len(s) \in Nat
  BY LenProperties
<1>2. ASSUME NEW i \in 1..Len(s), NEW j \in 1..Len(s[i])
      PROVE  /\ Before(s, i - 1) + j \in 1..Len(FlattenSeq(s))
             /\ FlattenSeq(s)[Before(s, i - 1) + j] = s[i][j]
  <2>1. /\ i \in 0..Len(s) /\ i - 1 \in 0..Len(s)
    BY <1>1
  <2>2. /\ Before(s, i - 1) \in Nat /\ Len(s[i]) \in Nat
        /\ Before(s, i) = Before(s, i - 1) + Len(s[i])
    BY <2>1, BeforeGrows
  <2>3. Before(s, i) <= Len(FlattenSeq(s)) /\ Len(FlattenSeq(s)) \in Nat
    BY <2>1, StartsTheSame, BeforeGrows, <1>1
  <2>4. Before(s, i - 1) + j \in 1..Before(s, i)
    BY <2>2
  <2>5. FlattenSeq(s)[Before(s, i - 1) + j] = FlattenSeq(Start(s, i))[Before(s, i - 1) + j]
    BY <2>1, <2>4, StartsTheSame
  <2>6. FlattenSeq(Start(s, i))[Before(s, i - 1) + j] = s[i][j]
    <3>1. /\ FlattenSeq(Start(s, i)) = FlattenSeq(Start(s, i - 1)) \o s[i]
          /\ FlattenSeq(Start(s, i - 1)) \in Seq(T) /\ s[i] \in Seq(T)
      BY FlattenStart
    <3> DEFINE u == FlattenSeq(Start(s, i - 1))
               w == s[i]
    <3>2. u \in Seq(T) /\ w \in Seq(T) /\ j \in 1..Len(w)
      BY <3>1
    <3>3. FlattenSeq(Start(s, i)) = u \o w /\ Before(s, i - 1) = Len(u)
      BY <3>1 DEF Before
    <3> HIDE DEF u, w
    <3>4. (u \o w)[Len(u) + j] = w[j]
      BY ONLY <3>2, Joined
    <3> QED  BY ONLY <3>3, <3>4 DEF w
  <2> QED  BY <2>2, <2>3, <2>4, <2>5, <2>6
<1> DEFINE Found(p, k) == \E i \in 1..k : \E j \in 1..Len(s[i]) : p = Before(s, i - 1) + j
           G == {k \in 0..Len(s) : \A p \in 1..Before(s, k) : Found(p, k)}
<1>3. 0 \in G
  BY <1>1, BeforeGrows
<1>4. ASSUME NEW k \in 1..Len(s), k - 1 \in G
      PROVE  k \in G
  <2>1. /\ Before(s, k - 1) \in Nat /\ Len(s[k]) \in Nat /\ k \in Nat /\ k \in 0..Len(s)
        /\ Before(s, k) = Before(s, k - 1) + Len(s[k])
    <3>1. k - 1 \in 0..Len(s) /\ k \in Nat /\ k \in 0..Len(s)
      BY <1>1
    <3> QED  BY <3>1, BeforeGrows
  <2>2. ASSUME NEW p \in 1..Before(s, k)
        PROVE  Found(p, k)
    <3>1. CASE p <= Before(s, k - 1)
      <4>1. Found(p, k - 1)
        BY <1>4, <2>1, <3>1
      <4>2. 1..(k - 1) \subseteq 1..k
        BY <2>1
      <4> QED  BY <4>1, <4>2
    <3>2. CASE ~(p <= Before(s, k - 1))
      <4>1. p - Before(s, k - 1) \in 1..Len(s[k]) /\ p = Before(s, k - 1) + (p - Before(s, k - 1))
            /\ k \in 1..k
        BY <2>1, <3>2
      <4> QED  BY <4>1
    <3> QED  BY <3>1, <3>2
  <2> HIDE DEF Found
  <2> QED  BY <2>1, <2>2
<1> HIDE DEF G
<1>5. Len(s) \in G
  BY <1>1, <1>3, <1>4, Reaches
<1>6. \A p \in 1..Len(FlattenSeq(s)) : Found(p, Len(s))
  BY <1>5, BeforeGrows DEF G
<1> QED  BY <1>2, <1>6

---------------------------------------------------------------------------
(* Numbers one after another *)

\* The shots after a, up to b.
Run(a, b) == [i \in 1..(b - a) |-> a + i]

LEMMA RunFacts ==
  ASSUME NEW a \in Nat, NEW b \in Nat, a <= b
  PROVE  /\ Run(a, b) \in Seq(Nat) /\ Len(Run(a, b)) = b - a
         /\ \A i \in 1..(b - a) : Run(a, b)[i] = a + i
  BY DEF Run

LEMMA RunEmpty ==
  ASSUME NEW a \in Nat
  PROVE  Run(a, a) = <<>>
<1>1. Run(a, a) \in Seq(Nat) /\ Len(Run(a, a)) = 0
  BY RunFacts
<1> QED  BY <1>1, EmptySeq

LEMMA RunOne ==
  ASSUME NEW a \in Nat, NEW b \in Nat, b = a + 1
  PROVE  Run(a, b) = <<b>>
<1>1. Run(a, b) \in Seq(Nat) /\ Len(Run(a, b)) = 1 /\ Run(a, b)[1] = b
  <2>1. a <= b /\ b - a = 1 /\ a + 1 = b /\ 1 \in 1..1
    OBVIOUS
  <2> QED  BY <2>1, RunFacts
<1>2. <<b>> \in Seq(Nat) /\ Len(<<b>>) = 1 /\ <<b>>[1] = b
  OBVIOUS
<1> HIDE DEF Run
<1> QED  BY <1>1, <1>2, SeqEqual

\* A run of one shot, and of none, has the ends it has.
LEMMA RunEnds ==
  ASSUME NEW a \in Nat, NEW b \in Nat, a <= b
  PROVE  /\ Run(a, b) = <<>> => a = b
         /\ \A e : Run(a, b) = <<e>> => b = a + 1 /\ e = b
<1>1. Run(a, b) \in Seq(Nat) /\ Len(Run(a, b)) = b - a
      /\ \A i \in 1..(b - a) : Run(a, b)[i] = a + i
  BY RunFacts
<1>2. Run(a, b) = <<>> => a = b
  BY <1>1, EmptySeq
<1>3. ASSUME NEW e, Run(a, b) = <<e>>
      PROVE  b = a + 1 /\ e = b
  <2>1. Len(<<e>>) = 1 /\ <<e>>[1] = e
    OBVIOUS
  <2> QED  BY <1>1, <1>3, <2>1
<1> QED  BY <1>2, <1>3

LEMMA RunJoins ==
  ASSUME NEW a \in Nat, NEW b \in Nat, NEW c \in Nat, a <= b, b <= c
  PROVE  Run(a, b) \o Run(b, c) = Run(a, c)
<1> DEFINE s == Run(a, b)
           t == Run(b, c)
           u == Run(a, c)
<1>1. /\ s \in Seq(Nat) /\ Len(s) = b - a /\ \A i \in 1..(b - a) : s[i] = a + i
      /\ t \in Seq(Nat) /\ Len(t) = c - b /\ \A i \in 1..(c - b) : t[i] = b + i
      /\ u \in Seq(Nat) /\ Len(u) = c - a /\ \A i \in 1..(c - a) : u[i] = a + i
  <2>1. a <= c
    OBVIOUS
  <2> HIDE DEF s, t, u
  <2>2. s \in Seq(Nat) /\ Len(s) = b - a /\ \A i \in 1..(b - a) : s[i] = a + i
    BY RunFacts DEF s
  <2>3. t \in Seq(Nat) /\ Len(t) = c - b /\ \A i \in 1..(c - b) : t[i] = b + i
    BY RunFacts DEF t
  <2>4. u \in Seq(Nat) /\ Len(u) = c - a /\ \A i \in 1..(c - a) : u[i] = a + i
    BY <2>1, RunFacts DEF u
  <2> QED  BY <2>2, <2>3, <2>4
<1> HIDE DEF s, t, u
<1>2. s \o t \in Seq(Nat) /\ Len(s \o t) = c - a
  <2>1. s \in Seq(Nat) /\ t \in Seq(Nat)
    BY <1>1
  <2>2. s \o t \in Seq(Nat) /\ Len(s \o t) = Len(s) + Len(t)
    BY <2>1, Joined
  <2>3. Len(s) + Len(t) = c - a
    BY <1>1
  <2> QED  BY <2>2, <2>3
<1>3. ASSUME NEW i \in 1..(c - a)
      PROVE  (s \o t)[i] = u[i]
  <2>1. CASE i <= b - a
    <3>1. i \in 1..Len(s) /\ i \in 1..(b - a)
      BY <1>1, <2>1
    <3> QED  BY <1>1, <3>1, Joined
  <2>2. CASE ~(i <= b - a)
    <3> DEFINE j == i - (b - a)
    <3>1. /\ j \in 1..Len(t) /\ j \in 1..(c - b) /\ Len(s) + j = i /\ b + j = a + i
      BY <1>1, <2>2
    <3> HIDE DEF j
    <3>2. s \in Seq(Nat) /\ t \in Seq(Nat)
      BY <1>1
    <3>3. (s \o t)[Len(s) + j] = t[j]
      BY <3>1, <3>2, Joined
    <3> QED  BY <1>1, <3>1, <3>3
  <2> QED  BY <2>1, <2>2
<1>4. s \o t = u
  BY <1>1, <1>2, <1>3, SeqEqual
<1> QED  BY <1>4 DEF s, t, u

\* Runs that follow each other flatten to a run.
LEMMA FlattenRuns ==
  ASSUME NEW s \in Seq(Seq(Nat)), NEW at \in [0..Len(s) -> Nat],
         \A i \in 1..Len(s) : at[i - 1] <= at[i] /\ s[i] = Run(at[i - 1], at[i])
  PROVE  at[0] <= at[Len(s)] /\ FlattenSeq(s) = Run(at[0], at[Len(s)])
<1> DEFINE n == Len(s)
           G == {k \in 0..n : at[0] <= at[k] /\ FlattenSeq(Start(s, k)) = Run(at[0], at[k])}
<1>1. n \in Nat /\ at \in [0..n -> Nat]
      /\ \A i \in 1..n : at[i - 1] <= at[i] /\ s[i] = Run(at[i - 1], at[i])
  BY LenProperties
<1> HIDE DEF n
<1>2. 0 \in G
  <2>0. Start(s, 0) = <<>>
    BY Starts
  <2>1. Start(s, 0) = <<>> /\ at[0] \in Nat /\ 0 \in 0..n
    BY <1>1, <2>0
  <2>2. FlattenSeq(Start(s, 0)) = Run(at[0], at[0])
    BY <2>1, FlattenEmpty, RunEmpty
  <2> QED  BY <2>1, <2>2
<1>3. ASSUME NEW k \in 1..n, k - 1 \in G
      PROVE  k \in G
  <2>1. /\ k \in 0..n /\ k - 1 \in 0..n /\ at[0] \in Nat /\ at[k - 1] \in Nat /\ at[k] \in Nat
        /\ at[k - 1] <= at[k] /\ s[k] = Run(at[k - 1], at[k])
    <3>1. k \in 0..n /\ k - 1 \in 0..n /\ 0 \in 0..n
      BY <1>1
    <3> QED  BY <1>1, <3>1
  <2>2. FlattenSeq(Start(s, k)) = FlattenSeq(Start(s, k - 1)) \o s[k]
    BY FlattenStart DEF n
  <2>3. at[0] <= at[k - 1] /\ FlattenSeq(Start(s, k - 1)) = Run(at[0], at[k - 1])
    BY <1>3
  <2>4. Run(at[0], at[k - 1]) \o Run(at[k - 1], at[k]) = Run(at[0], at[k])
    BY <2>1, <2>3, RunJoins
  <2>5. at[0] <= at[k]
    BY <2>1, <2>3
  <2> QED  BY <2>1, <2>2, <2>3, <2>4, <2>5
<1> HIDE DEF G
<1>4. n \in G
  BY <1>1, <1>2, <1>3, Reaches
<1>5. Start(s, n) = s
  BY Starts DEF n
<1> QED  BY <1>4, <1>5 DEF G, n

\* What flattens to a run is made of runs that follow each other.
LEMMA RunParts ==
  ASSUME NEW s \in Seq(Seq(Nat)), NEW a \in Nat, NEW b \in Nat, a <= b, FlattenSeq(s) = Run(a, b)
  PROVE  /\ a + Before(s, 0) = a /\ a + Before(s, Len(s)) = b
         /\ \A i \in 0..Len(s) : a + Before(s, i) \in a..b
         /\ \A i \in 1..Len(s) :
              /\ a + Before(s, i - 1) <= a + Before(s, i)
              /\ s[i] = Run(a + Before(s, i - 1), a + Before(s, i))
<1>1. Len(s) \in Nat /\ Len(FlattenSeq(s)) = b - a
  BY LenProperties, RunFacts
<1>2. a + Before(s, 0) = a /\ a + Before(s, Len(s)) = b
  <2>1. Before(s, 0) = 0 /\ Before(s, Len(s)) = b - a
    BY <1>1, BeforeGrows
  <2> QED  BY <2>1
<1>3. \A i \in 0..Len(s) : a + Before(s, i) \in a..b
  <2>1. \A i \in 0..Len(s) : Before(s, i) \in Nat /\ Before(s, i) <= b - a
    BY <1>1, BeforeGrows, StartsTheSame
  <2> QED  BY <2>1
<1>4. ASSUME NEW i \in 1..Len(s)
      PROVE  /\ a + Before(s, i - 1) <= a + Before(s, i)
             /\ s[i] = Run(a + Before(s, i - 1), a + Before(s, i))
  <2> DEFINE x == a + Before(s, i - 1)
             y == a + Before(s, i)
  <2>1. i - 1 \in 0..Len(s) /\ i \in 0..Len(s)
    BY <1>1
  <2>2. /\ Before(s, i - 1) \in Nat /\ Before(s, i) \in Nat /\ Len(s[i]) \in Nat
        /\ Before(s, i) = Before(s, i - 1) + Len(s[i])
    BY <2>1, BeforeGrows
  <2>3. x \in Nat /\ y \in Nat /\ x <= y /\ Len(s[i]) = y - x
    BY ONLY <2>2, a \in Nat, SMTT(30)
  <2>4. s[i] \in Seq(Nat)
    BY ElementOfSeq
  <2>5. ASSUME NEW j \in 1..Len(s[i])
        PROVE  s[i][j] = x + j
    <3>1. /\ Before(s, i - 1) + j \in 1..(b - a)
          /\ FlattenSeq(s)[Before(s, i - 1) + j] = s[i][j]
      BY <1>1, <2>1, <2>2, Layout, SMTT(30)
    <3>2. Run(a, b)[Before(s, i - 1) + j] = a + (Before(s, i - 1) + j)
      BY <3>1, RunFacts
    <3> QED  BY <2>2, <3>1, <3>2
  <2> HIDE DEF x, y
  <2>6. Run(x, y) \in Seq(Nat) /\ Len(Run(x, y)) = y - x /\ \A j \in 1..(y - x) : Run(x, y)[j] = x + j
    BY <2>3, RunFacts
  <2>7. s[i] = Run(x, y)
    BY <2>3, <2>4, <2>5, <2>6, SeqEqual
  <2> QED  BY <2>3, <2>7 DEF x, y
<1> QED  BY <1>2, <1>3, <1>4

\* A run without what is not after c.
Late(x, c) == IF x < c THEN c ELSE x

\* The parts of t are the parts of s, runs between a and b, cut at c.
Cuts(s, t, a, b, c) ==
  \A i \in 1..Len(s), x \in a..b, y \in a..b :
    x <= y /\ s[i] = Run(x, y) => t[i] = Run(Late(x, c), Late(y, c))

LEMMA CutRuns ==
  ASSUME NEW s \in Seq(Seq(Nat)), NEW t \in Seq(Seq(Nat)), Len(t) = Len(s),
         NEW a \in Nat, NEW b \in Nat, NEW c \in Nat, a <= b, FlattenSeq(s) = Run(a, b),
         Cuts(s, t, a, b, c)
  PROVE  FlattenSeq(t) = Run(Late(a, c), Late(b, c))
<1> DEFINE pos(i) == a + Before(s, i)
           at == [i \in 0..Len(t) |-> Late(pos(i), c)]
<1>1. /\ pos(0) = a /\ pos(Len(s)) = b /\ Len(s) \in Nat
      /\ \A i \in 0..Len(s) : pos(i) \in a..b
      /\ \A i \in 1..Len(s) : pos(i - 1) <= pos(i) /\ s[i] = Run(pos(i - 1), pos(i))
  BY RunParts, LenProperties
<1> HIDE DEF pos
<1>2. at \in [0..Len(t) -> Nat]
  <2>1. \A i \in 0..Len(t) : Late(pos(i), c) \in Nat
    BY <1>1 DEF Late
  <2> QED  BY <2>1
<1>3. ASSUME NEW i \in 1..Len(t)
      PROVE  at[i - 1] <= at[i] /\ t[i] = Run(at[i - 1], at[i])
  <2>1. i - 1 \in 0..Len(s) /\ i \in 0..Len(s) /\ i \in 1..Len(s)
    BY <1>1
  <2>2. pos(i - 1) \in a..b /\ pos(i) \in a..b /\ pos(i - 1) <= pos(i)
        /\ s[i] = Run(pos(i - 1), pos(i))
    BY <1>1, <2>1
  <2>3. t[i] = Run(Late(pos(i - 1), c), Late(pos(i), c))
    BY <2>1, <2>2 DEF Cuts
  <2>4. Late(pos(i - 1), c) <= Late(pos(i), c)
    BY <2>2 DEF Late
  <2>5. at[i - 1] = Late(pos(i - 1), c) /\ at[i] = Late(pos(i), c)
    BY <2>1
  <2> QED  BY <2>3, <2>4, <2>5
<1>4. at[0] = Late(a, c) /\ at[Len(t)] = Late(b, c)
  <2>1. 0 \in 0..Len(t) /\ Len(t) \in 0..Len(t)
    BY <1>1
  <2> QED  BY <1>1, <2>1
<1> HIDE DEF at
<1>5. FlattenSeq(t) = Run(at[0], at[Len(t)])
  BY <1>2, <1>3, FlattenRuns
<1> QED  BY <1>4, <1>5

---------------------------------------------------------------------------
(* What flattening keeps *)

LEMMA FlattenConcat ==
  ASSUME NEW T, NEW s \in Seq(Seq(T)), NEW t \in Seq(Seq(T))
  PROVE  FlattenSeq(s \o t) = FlattenSeq(s) \o FlattenSeq(t)
<1> DEFINE n == Len(t)
           G == {k \in 0..n : FlattenSeq(s \o Start(t, k)) = FlattenSeq(s) \o FlattenSeq(Start(t, k))}
<1>1. n \in Nat /\ FlattenSeq(s) \in Seq(T)
  BY LenProperties, FlattenType
<1>2. 0 \in G
  <2>1. Start(t, 0) = <<>> /\ s \o <<>> = s /\ FlattenSeq(s) \o <<>> = FlattenSeq(s)
    BY <1>1, Starts, ConcatEmptySeq
  <2>2. FlattenSeq(s \o Start(t, 0)) = FlattenSeq(s) \o FlattenSeq(Start(t, 0))
    BY <2>1, FlattenEmpty
  <2> QED  BY <1>1, <2>2
<1>3. ASSUME NEW k \in 1..n, k - 1 \in G
      PROVE  k \in G
  <2> DEFINE u == Start(t, k - 1)
             x == t[k]
  <2>1. u \in Seq(Seq(T)) /\ x \in Seq(T) /\ Start(t, k) = Append(u, x)
    <3>1. k - 1 \in 0..Len(t)
      BY <1>1
    <3> QED  BY <3>1, Starts, ElementOfSeq
  <2>2. FlattenSeq(s \o u) = FlattenSeq(s) \o FlattenSeq(u)
    BY <1>3
  <2> HIDE DEF u, x
  <2>3. s \o Append(u, x) = Append(s \o u, x) /\ s \o u \in Seq(Seq(T))
    BY ONLY <2>1, s \in Seq(Seq(T)), Joined, JoinedAppend, SMTT(30)
  <2>4. /\ FlattenSeq(Append(s \o u, x)) = FlattenSeq(s \o u) \o x
        /\ FlattenSeq(Append(u, x)) = FlattenSeq(u) \o x
        /\ FlattenSeq(u) \in Seq(T)
    BY <2>1, <2>3, FlattenAppend
  <2>5. (FlattenSeq(s) \o FlattenSeq(u)) \o x = FlattenSeq(s) \o (FlattenSeq(u) \o x)
    <3> DEFINE a == FlattenSeq(s)
               b == FlattenSeq(u)
    <3>1. a \in Seq(T) /\ b \in Seq(T) /\ x \in Seq(T)
      BY <1>1, <2>1, <2>4
    <3> HIDE DEF a, b
    <3>2. (a \o b) \o x = a \o (b \o x)
      BY ONLY <3>1
    <3> QED  BY <3>2 DEF a, b
  <2>6. k \in 0..n
    BY <1>1
  <2> QED  BY <2>1, <2>2, <2>3, <2>4, <2>5, <2>6
<1> HIDE DEF G, n
<1>4. n \in G
  BY <1>1, <1>2, <1>3, Reaches
<1>5. Start(t, n) = t
  BY Starts DEF n
<1> QED  BY <1>4, <1>5 DEF G

LEMMA FlattenNone ==
  ASSUME NEW T, NEW s \in Seq(Seq(T)), \A i \in 1..Len(s) : s[i] = <<>>
  PROVE  FlattenSeq(s) = <<>>
<1>1. FlattenSeq(s) \in Seq(T) /\ Len(FlattenSeq(s)) \in Nat
  BY FlattenType, LenProperties
<1>2. \A i \in 1..Len(s) : Len(s[i]) = 0
  BY EmptySeq
<1>3. Len(FlattenSeq(s)) = 0
  <2>1. ASSUME 1 \in 1..Len(FlattenSeq(s))
        PROVE  FALSE
    <3>1. PICK i \in 1..Len(s) : \E j \in 1..Len(s[i]) : 1 = Before(s, i - 1) + j
      BY <2>1, Layout
    <3>2. Len(s[i]) = 0
      BY <1>2
    <3> QED  BY <3>1, <3>2
  <2> QED  BY <1>1, <2>1
<1> QED  BY <1>1, <1>3, EmptySeq

LEMMA FlattenOne ==
  ASSUME NEW T, NEW x \in Seq(T)
  PROVE  FlattenSeq(<<x>>) = x
<1>1. <<>> \in Seq(Seq(T)) /\ Append(<<>>, x) = <<x>> /\ <<>> \o x = x
  BY EmptySeq, ConcatEmptySeq
<1>2. FlattenSeq(Append(<<>>, x)) = FlattenSeq(<<>>) \o x
  BY <1>1, FlattenAppend
<1> QED  BY <1>1, <1>2, FlattenEmpty

\* Singletons flatten to what they hold.
LEMMA FlattenOnes ==
  ASSUME NEW T, NEW f \in Seq(T), NEW s \in Seq(Seq(T)), Len(s) = Len(f),
         \A i \in 1..Len(f) : s[i] = <<f[i]>>
  PROVE  FlattenSeq(s) = f
<1> DEFINE n == Len(s)
           G == {k \in 0..n : Before(s, k) = k}
<1>1. n \in Nat /\ n = Len(f)
  BY LenProperties
<1>2. ASSUME NEW i \in 1..n
      PROVE  Len(s[i]) = 1 /\ s[i][1] = f[i]
  <2>1. s[i] = <<f[i]>>
    BY <1>1
  <2> QED  BY <2>1
<1>3. 0 \in G
  BY <1>1, BeforeGrows
<1>4. ASSUME NEW k \in 1..n, k - 1 \in G
      PROVE  k \in G
  <2>1. Before(s, k) = Before(s, k - 1) + Len(s[k])
    BY BeforeGrows
  <2>2. Before(s, k - 1) = k - 1 /\ k \in 0..n
    BY <1>1, <1>4
  <2>3. Before(s, k) = (k - 1) + 1 /\ k \in Nat
    <3>1. Before(s, k) = (k - 1) + Len(s[k]) /\ Len(s[k]) = 1
      BY <1>2, <2>1, <2>2
    <3> QED  BY <1>1, <3>1
  <2> QED  BY <2>2, <2>3
<1> HIDE DEF G
<1>5. \A k \in 0..n : k \in G
  BY <1>1, <1>3, <1>4, Reaches
<1> HIDE DEF n
<1>6. FlattenSeq(s) \in Seq(T) /\ Len(FlattenSeq(s)) = n
  <2>1. n \in G
    BY <1>1, <1>5
  <2> QED  BY <2>1, FlattenType, BeforeGrows DEF G, n
<1>7. ASSUME NEW i \in 1..n
      PROVE  FlattenSeq(s)[i] = f[i]
  <2>1. i - 1 \in G
    BY <1>1, <1>5
  <2>2. Before(s, i - 1) + 1 = i
    BY <2>1 DEF G
  <2>3. 1 \in 1..Len(s[i]) /\ i \in 1..Len(s)
    BY <1>2 DEF n
  <2>4. FlattenSeq(s)[Before(s, i - 1) + 1] = s[i][1]
    BY <2>3, Layout
  <2> QED  BY <1>2, <2>2, <2>4
<1> QED  BY <1>1, <1>6, <1>7, SeqEqual

---------------------------------------------------------------------------
(* Messages *)

Ident == Nat \X Nat

Bit == {Text} \cup [type : {"image"}, shot : Nat]
Use == [type : {"tool_use"}, id : Ident]
Outcome == [type : {"tool_result"}, id : Ident, content : Seq(Bit)]
Block == Bit \cup {Blank, Other} \cup Use \cup Outcome

Message == [role : {"user", "assistant"}, blocks : Seq(Block)]

LEMMA BlockIs ==
  ASSUME NEW b \in Block
  PROVE  /\ b.type \in {"text", "blank", "other", "image", "tool_use", "tool_result"}
         /\ b.type = "text" <=> b = Text
         /\ b.type = "image" => b.shot \in Nat /\ b \in Bit /\ b = Image(b.shot)
         /\ b.type = "tool_use" => b.id \in Ident /\ b \in Use
         /\ b.type = "tool_result" => b.id \in Ident /\ b.content \in Seq(Bit) /\ b \in Outcome
  BY DEF Block, Bit, Use, Outcome, Text, Blank, Other, Image

\* What FlattenSeq makes Shots and Ids of.
SeenBy(blocks) == [i \in DOMAIN blocks |-> Seen(blocks[i])]
BitsBy(content) == [i \in DOMAIN content |-> ShotOf(content[i])]
IdsBy(blocks, type) ==
  [i \in DOMAIN blocks |-> IF blocks[i].type = type THEN <<blocks[i].id>> ELSE <<>>]

LEMMA ShotOfType == \A b \in Block : ShotOf(b) \in Seq(Nat)
<1> SUFFICES ASSUME NEW b \in Block
             PROVE  ShotOf(b) \in Seq(Nat)
  OBVIOUS
<1>1. b.type = "image" => b.shot \in Nat
  BY BlockIs
<1> QED  BY <1>1, EmptySeq DEF ShotOf

LEMMA BitsByType ==
  ASSUME NEW content \in Seq(Bit)
  PROVE  /\ BitsBy(content) \in Seq(Seq(Nat)) /\ Len(BitsBy(content)) = Len(content)
         /\ \A i \in 1..Len(content) : BitsBy(content)[i] = ShotOf(content[i])
         /\ FlattenSeq(BitsBy(content)) \in Seq(Nat)
<1>1. Len(content) \in Nat /\ DOMAIN content = 1..Len(content)
  BY LenProperties
<1>2. \A i \in 1..Len(content) : ShotOf(content[i]) \in Seq(Nat)
  BY ElementOfSeq, ShotOfType DEF Block
<1>3. BitsBy(content) \in Seq(Seq(Nat)) /\ Len(BitsBy(content)) = Len(content)
      /\ \A i \in 1..Len(content) : BitsBy(content)[i] = ShotOf(content[i])
  BY <1>1, <1>2 DEF BitsBy
<1> QED  BY <1>3, FlattenType

LEMMA SeenType == \A b \in Block : Seen(b) \in Seq(Nat)
<1> SUFFICES ASSUME NEW b \in Block
             PROVE  Seen(b) \in Seq(Nat)
  OBVIOUS
<1>1. b.type = "tool_result" => FlattenSeq(BitsBy(b.content)) \in Seq(Nat)
  BY BlockIs, BitsByType
<1> QED  BY <1>1, ShotOfType DEF Seen, BitsBy

LEMMA SeenByType ==
  ASSUME NEW blocks \in Seq(Block)
  PROVE  /\ SeenBy(blocks) \in Seq(Seq(Nat)) /\ Len(SeenBy(blocks)) = Len(blocks)
         /\ \A i \in 1..Len(blocks) : SeenBy(blocks)[i] = Seen(blocks[i])
         /\ Shots(blocks) = FlattenSeq(SeenBy(blocks)) /\ Shots(blocks) \in Seq(Nat)
<1>1. Len(blocks) \in Nat /\ DOMAIN blocks = 1..Len(blocks)
  BY LenProperties
<1>2. \A i \in 1..Len(blocks) : Seen(blocks[i]) \in Seq(Nat)
  BY ElementOfSeq, SeenType
<1>3. SeenBy(blocks) \in Seq(Seq(Nat)) /\ Len(SeenBy(blocks)) = Len(blocks)
      /\ \A i \in 1..Len(blocks) : SeenBy(blocks)[i] = Seen(blocks[i])
  BY <1>1, <1>2 DEF SeenBy
<1>4. Shots(blocks) = FlattenSeq(SeenBy(blocks))
  BY DEF Shots, SeenBy
<1> QED  BY <1>3, <1>4, FlattenType

LEMMA IdsByType ==
  ASSUME NEW blocks \in Seq(Block), NEW type \in {"tool_use", "tool_result"}
  PROVE  /\ IdsBy(blocks, type) \in Seq(Seq(Ident)) /\ Len(IdsBy(blocks, type)) = Len(blocks)
         /\ \A i \in 1..Len(blocks) :
              IdsBy(blocks, type)[i] = IF blocks[i].type = type THEN <<blocks[i].id>> ELSE <<>>
         /\ Ids(blocks, type) = FlattenSeq(IdsBy(blocks, type)) /\ Ids(blocks, type) \in Seq(Ident)
<1> DEFINE of(b) == IF b.type = type THEN <<b.id>> ELSE <<>>
<1>1. Len(blocks) \in Nat /\ DOMAIN blocks = 1..Len(blocks)
  BY LenProperties
<1>2. ASSUME NEW b \in Block
      PROVE  of(b) \in Seq(Ident)
  <2>1. b.type = type => b.id \in Ident
    BY BlockIs
  <2> QED  BY <2>1, EmptySeq
<1>3. IdsBy(blocks, type) = [i \in 1..Len(blocks) |-> of(blocks[i])]
  BY <1>1 DEF IdsBy
<1>4. \A i \in 1..Len(blocks) : of(blocks[i]) \in Seq(Ident)
  BY <1>2, ElementOfSeq
<1> HIDE DEF of
<1>5. IdsBy(blocks, type) \in Seq(Seq(Ident)) /\ Len(IdsBy(blocks, type)) = Len(blocks)
      /\ \A i \in 1..Len(blocks) : IdsBy(blocks, type)[i] = of(blocks[i])
  BY <1>1, <1>3, <1>4
<1>6. Ids(blocks, type) = FlattenSeq(IdsBy(blocks, type))
  BY DEF Ids, IdsBy
<1> QED  BY <1>5, <1>6, FlattenType DEF of

LEMMA NoIds ==
  ASSUME NEW blocks \in Seq(Block), NEW type \in {"tool_use", "tool_result"},
         \A i \in 1..Len(blocks) : blocks[i].type # type
  PROVE  Ids(blocks, type) = <<>>
<1>1. \A i \in 1..Len(blocks) : IdsBy(blocks, type)[i] = <<>>
  BY IdsByType
<1> QED  BY <1>1, IdsByType, FlattenNone

\* Blocks that each have one id of a kind.
LEMMA AllIds ==
  ASSUME NEW blocks \in Seq(Block), NEW type \in {"tool_use", "tool_result"}, NEW ids \in Seq(Ident),
         Len(blocks) = Len(ids),
         \A i \in 1..Len(ids) : blocks[i].type = type /\ blocks[i].id = ids[i]
  PROVE  Ids(blocks, type) = ids
<1>1. \A i \in 1..Len(ids) : IdsBy(blocks, type)[i] = <<ids[i]>>
  <2>1. Len(blocks) \in Nat /\ Len(ids) \in Nat
    BY LenProperties
  <2>2. ASSUME NEW i \in 1..Len(ids)
        PROVE  IdsBy(blocks, type)[i] = <<ids[i]>>
    <3>1. i \in 1..Len(blocks) /\ blocks[i].type = type /\ blocks[i].id = ids[i]
      OBVIOUS
    <3> QED  BY <3>1, IdsByType
  <2> QED  BY <2>2
<1>2. IdsBy(blocks, type) \in Seq(Seq(Ident)) /\ Len(IdsBy(blocks, type)) = Len(ids)
  BY IdsByType
<1>3. FlattenSeq(IdsBy(blocks, type)) = ids
  BY <1>1, <1>2, FlattenOnes
<1> QED  BY <1>3, IdsByType

LEMMA NoShots ==
  ASSUME NEW blocks \in Seq(Block),
         \A i \in 1..Len(blocks) : blocks[i].type \notin {"image", "tool_result"}
  PROVE  Shots(blocks) = <<>>
<1>1. \A i \in 1..Len(blocks) : SeenBy(blocks)[i] = <<>>
  BY SeenByType DEF Seen, ShotOf
<1> QED  BY <1>1, SeenByType, FlattenNone

LEMMA JoinedIds ==
  ASSUME NEW p \in Seq(Block), NEW q \in Seq(Block), NEW type \in {"tool_use", "tool_result"}
  PROVE  Ids(p \o q, type) = Ids(p, type) \o Ids(q, type)
<1> DEFINE a == IdsBy(p, type)
           b == IdsBy(q, type)
           c == IdsBy(p \o q, type)
<1>1. /\ p \o q \in Seq(Block) /\ Len(p) \in Nat /\ Len(q) \in Nat /\ Len(p \o q) = Len(p) + Len(q)
      /\ \A i \in 1..Len(p) : (p \o q)[i] = p[i]
      /\ \A i \in 1..Len(q) : (p \o q)[Len(p) + i] = q[i]
  BY Joined
<1>2. /\ a \in Seq(Seq(Ident)) /\ Len(a) = Len(p)
      /\ b \in Seq(Seq(Ident)) /\ Len(b) = Len(q)
      /\ c \in Seq(Seq(Ident)) /\ Len(c) = Len(p) + Len(q)
  BY <1>1, IdsByType
<1> DEFINE all == p \o q
<1>0. all \in Seq(Block) /\ c = IdsBy(all, type)
  BY <1>1
<1> HIDE DEF all
<1>3. ASSUME NEW i \in 1..Len(p)
      PROVE  c[i] = a[i]
  <2>1. i \in 1..Len(all) /\ all[i] = p[i]
    BY <1>1 DEF all
  <2>2. c[i] = IF all[i].type = type THEN <<all[i].id>> ELSE <<>>
    <3>1. all \in Seq(Block)
      BY <1>0
    <3>2. IdsBy(all, type)[i] = IF all[i].type = type THEN <<all[i].id>> ELSE <<>>
      BY <2>1, <3>1, IdsByType
    <3> QED  BY <1>0, <3>2
  <2>3. a[i] = IF p[i].type = type THEN <<p[i].id>> ELSE <<>>
    BY IdsByType
  <2> QED  BY <2>1, <2>2, <2>3
<1>4. ASSUME NEW i \in 1..Len(q)
      PROVE  c[Len(p) + i] = b[i]
  <2> DEFINE k == Len(p) + i
  <2>1. k \in 1..Len(all) /\ all[k] = q[i]
    BY <1>1 DEF all
  <2> HIDE DEF k
  <2>2. c[k] = IF all[k].type = type THEN <<all[k].id>> ELSE <<>>
    <3>1. all \in Seq(Block)
      BY <1>0
    <3>2. IdsBy(all, type)[k] = IF all[k].type = type THEN <<all[k].id>> ELSE <<>>
      BY <2>1, <3>1, IdsByType
    <3> QED  BY <1>0, <3>2
  <2>3. b[i] = IF q[i].type = type THEN <<q[i].id>> ELSE <<>>
    BY IdsByType
  <2> QED  BY <2>1, <2>2, <2>3 DEF k
<1> HIDE DEF a, b, c
<1>5. c = a \o b
  <2>1. /\ a \o b \in Seq(Seq(Ident)) /\ Len(a \o b) = Len(a) + Len(b)
        /\ \A i \in 1..Len(a) : (a \o b)[i] = a[i]
        /\ \A i \in 1..Len(b) : (a \o b)[Len(a) + i] = b[i]
    <3>1. a \in Seq(Seq(Ident)) /\ b \in Seq(Seq(Ident))
      BY <1>2
    <3> QED  BY <3>1, Joined
  <2>2. ASSUME NEW i \in 1..(Len(p) + Len(q))
        PROVE  c[i] = (a \o b)[i]
    <3>1. CASE i <= Len(p)
      <4>1. i \in 1..Len(p)
        BY <1>1, <3>1
      <4> QED  BY <1>2, <1>3, <2>1, <4>1
    <3>2. CASE ~(i <= Len(p))
      <4>1. PICK j \in 1..Len(q) : i = Len(p) + j
        <5>1. i - Len(p) \in 1..Len(q) /\ i = Len(p) + (i - Len(p))
          BY <1>1, <3>2
        <5> QED  BY <5>1
      <4> QED  BY <1>2, <1>4, <2>1, <4>1
    <3> QED  BY <3>1, <3>2
  <2> QED  BY <1>2, <2>1, <2>2, SeqEqual
<1>6. FlattenSeq(c) = FlattenSeq(a) \o FlattenSeq(b)
  BY <1>2, <1>5, FlattenConcat
<1>7. Ids(p \o q, type) = FlattenSeq(c) /\ Ids(p, type) = FlattenSeq(a) /\ Ids(q, type) = FlattenSeq(b)
  BY <1>1, IdsByType DEF a, b, c
<1> QED  BY <1>6, <1>7

---------------------------------------------------------------------------
(* Images that fade *)

\* Of the shots after a up to b, old has those up to c.
OldUpTo(old, a, b, c) == \A x \in (a + 1)..b : x \in old <=> x <= c

LEMMA FadedIs ==
  ASSUME NEW b \in Block, NEW old
  PROVE  /\ Faded(b, old) \in Block /\ (b \in Bit => Faded(b, old) \in Bit)
         /\ b.type # "image" => Faded(b, old) = b
         /\ b.type \in {"tool_use", "tool_result"} => Faded(b, old) = b
         /\ b.type \notin {"tool_use", "tool_result"} =>
              Faded(b, old).type \notin {"tool_use", "tool_result"}
         /\ b = Text => Faded(b, old) = Text
<1>1. Text \in Bit /\ Text.type = "text" /\ Bit \subseteq Block
  BY DEF Bit, Block, Text
<1> QED  BY <1>1, BlockIs DEF Faded

LEMMA FadedShot ==
  ASSUME NEW k \in Block, NEW old, NEW a \in Nat, NEW b \in Nat, NEW c \in Nat, OldUpTo(old, a, b, c),
         NEW x \in a..b, NEW y \in a..b, x <= y, ShotOf(k) = Run(x, y)
  PROVE  ShotOf(Faded(k, old)) = Run(Late(x, c), Late(y, c))
<1>1. x \in Nat /\ y \in Nat /\ Late(x, c) \in Nat /\ Late(y, c) \in Nat
  BY DEF Late
<1>2. CASE k.type = "image"
  <2>1. ShotOf(k) = <<k.shot>>
    BY <1>2 DEF ShotOf
  <2>2. y = x + 1 /\ k.shot = y
    BY <1>1, <2>1, RunEnds
  <2>3. y \in (a + 1)..b /\ (y \in old <=> y <= c)
    BY <1>1, <2>2 DEF OldUpTo
  <2>4. CASE y \in old
    <3>1. Late(x, c) = c /\ Late(y, c) = c
      BY <1>1, <2>2, <2>3, <2>4 DEF Late
    <3>2. ShotOf(Faded(k, old)) = <<>>
      BY <1>2, <2>2, <2>4 DEF Faded, ShotOf, Text
    <3> QED  BY <3>1, <3>2, RunEmpty
  <2>5. CASE y \notin old
    <3>1. Late(x, c) = x /\ Late(y, c) = y
      BY <1>1, <2>2, <2>3, <2>5 DEF Late
    <3>2. Faded(k, old) = k
      BY <2>2, <2>5 DEF Faded
    <3> QED  BY <3>1, <3>2
  <2> QED  BY <2>4, <2>5
<1>3. CASE k.type # "image"
  <2>1. ShotOf(k) = <<>> /\ Faded(k, old) = k
    BY <1>3 DEF ShotOf, Faded
  <2>2. x = y
    BY <1>1, <2>1, RunEnds
  <2> QED  BY <1>1, <2>1, <2>2, RunEmpty
<1> QED  BY <1>2, <1>3

FadedContent(content, old) == [j \in DOMAIN content |-> Faded(content[j], old)]

LEMMA FadedContentIs ==
  ASSUME NEW content \in Seq(Bit), NEW old
  PROVE  /\ FadedContent(content, old) \in Seq(Bit) /\ Len(FadedContent(content, old)) = Len(content)
         /\ \A i \in 1..Len(content) : FadedContent(content, old)[i] = Faded(content[i], old)
<1>1. Len(content) \in Nat /\ DOMAIN content = 1..Len(content)
  BY LenProperties
<1>2. \A i \in 1..Len(content) : Faded(content[i], old) \in Bit
  BY ElementOfSeq, FadedIs DEF Block
<1> QED  BY <1>1, <1>2 DEF FadedContent

\* A block of Without.
FadedBlock(b, old) ==
  IF b.type = "tool_result" THEN [b EXCEPT !.content = FadedContent(@, old)] ELSE Faded(b, old)

LEMMA FadedBlockIs ==
  ASSUME NEW b \in Block, NEW old
  PROVE  /\ FadedBlock(b, old) \in Block
         /\ \A type \in {"tool_use", "tool_result"} :
              /\ FadedBlock(b, old).type = type <=> b.type = type
              /\ b.type = type => FadedBlock(b, old).id = b.id
         /\ b \in {Text, Blank, Other} => FadedBlock(b, old) = b
         /\ b.type = "image" => FadedBlock(b, old) = Text \/ FadedBlock(b, old).type = "image"
<1>1. CASE b.type = "tool_result"
  <2>1. b \in Outcome /\ b.content \in Seq(Bit)
    BY <1>1, BlockIs
  <2>2. FadedContent(b.content, old) \in Seq(Bit)
    BY <2>1, FadedContentIs
  <2>3. /\ FadedBlock(b, old) = [b EXCEPT !.content = FadedContent(b.content, old)]
        /\ FadedBlock(b, old) \in Outcome /\ FadedBlock(b, old).type = "tool_result"
        /\ FadedBlock(b, old).id = b.id
    BY <1>1, <2>1, <2>2 DEF FadedBlock, Outcome
  <2> QED  BY <1>1, <2>3 DEF Block, Text, Blank, Other
<1>2. CASE b.type # "tool_result"
  <2>1. FadedBlock(b, old) = Faded(b, old)
    BY <1>2 DEF FadedBlock
  <2>2. b \in {Text, Blank, Other} => Faded(b, old) = b
    BY DEF Faded, Text, Blank, Other
  <2>3. b.type = "image" => Faded(b, old) = Text \/ Faded(b, old).type = "image"
    BY DEF Faded
  <2> QED  BY <1>2, <2>1, <2>2, <2>3, FadedIs, BlockIs
<1> QED  BY <1>1, <1>2

LEMMA FadedSeen ==
  ASSUME NEW k \in Block, NEW old, NEW a \in Nat, NEW b \in Nat, NEW c \in Nat, OldUpTo(old, a, b, c),
         NEW x \in a..b, NEW y \in a..b, x <= y, Seen(k) = Run(x, y)
  PROVE  Seen(FadedBlock(k, old)) = Run(Late(x, c), Late(y, c))
<1>1. x \in Nat /\ y \in Nat /\ OldUpTo(old, x, y, c)
  BY DEF OldUpTo
<1>2. CASE k.type = "tool_result"
  <2> DEFINE s == BitsBy(k.content)
             content == FadedContent(k.content, old)
             t == BitsBy(content)
  <2>1. k \in Outcome /\ k.content \in Seq(Bit)
    BY <1>2, BlockIs
  <2>2. /\ content \in Seq(Bit) /\ Len(content) = Len(k.content)
        /\ \A i \in 1..Len(k.content) : content[i] = Faded(k.content[i], old)
    BY <2>1, FadedContentIs
  <2>3. /\ s \in Seq(Seq(Nat)) /\ Len(s) = Len(k.content)
        /\ \A i \in 1..Len(k.content) : s[i] = ShotOf(k.content[i])
    BY <2>1, BitsByType
  <2>4. FlattenSeq(s) = Run(x, y)
    BY <1>2 DEF Seen, BitsBy
  <2> HIDE DEF s, content
  <2>5. /\ t \in Seq(Seq(Nat)) /\ Len(t) = Len(content)
        /\ \A i \in 1..Len(content) : t[i] = ShotOf(content[i])
    BY <2>2, BitsByType
  <2> HIDE DEF t
  <2>6. ASSUME NEW i \in 1..Len(s), NEW u \in x..y, NEW v \in x..y, u <= v, s[i] = Run(u, v)
        PROVE  t[i] = Run(Late(u, c), Late(v, c))
    <3>1. k.content[i] \in Block
      BY <2>1, <2>3, ElementOfSeq DEF Block
    <3>2. ShotOf(k.content[i]) = Run(u, v) /\ t[i] = ShotOf(Faded(k.content[i], old))
      BY <2>2, <2>3, <2>5, <2>6
    <3> QED  BY <1>1, <2>6, <3>1, <3>2, FadedShot
  <2>7. FlattenSeq(t) = Run(Late(x, c), Late(y, c))
    <3>1. Len(t) = Len(s)
      BY <2>2, <2>3, <2>5
    <3>2. Cuts(s, t, x, y, c)
      BY <2>6 DEF Cuts
    <3>3. s \in Seq(Seq(Nat)) /\ t \in Seq(Seq(Nat)) /\ x \in Nat /\ y \in Nat /\ c \in Nat
          /\ x <= y /\ FlattenSeq(s) = Run(x, y)
      BY <1>1, <2>3, <2>4, <2>5
    <3> QED  BY ONLY <3>1, <3>2, <3>3, CutRuns
  <2>8. FadedBlock(k, old).type = "tool_result" /\ FadedBlock(k, old).content = content
    BY <1>2, <2>1 DEF FadedBlock, Outcome, content
  <2> QED  BY <2>7, <2>8 DEF Seen, BitsBy, t
<1>3. CASE k.type # "tool_result"
  <2>1. Seen(k) = ShotOf(k) /\ FadedBlock(k, old) = Faded(k, old)
    BY <1>3 DEF Seen, FadedBlock
  <2>2. Faded(k, old).type # "tool_result"
    BY <1>3, FadedIs, BlockIs
  <2>3. Seen(Faded(k, old)) = ShotOf(Faded(k, old))
    BY <2>2 DEF Seen
  <2>4. ShotOf(k) = Run(x, y)
    BY <2>1
  <2>5. ShotOf(Faded(k, old)) = Run(Late(x, c), Late(y, c))
    BY <2>4, FadedShot
  <2> QED  BY <2>1, <2>3, <2>5
<1> QED  BY <1>2, <1>3

\* Words or an image.
Shows(blocks) == \E i \in DOMAIN blocks : blocks[i] = Text \/ blocks[i].type = "image"

LEMMA ShowsIs ==
  ASSUME NEW blocks \in Seq(Block), Shows(blocks)
  PROVE  Says(blocks) \/ Shots(blocks) # <<>>
<1>1. Len(blocks) \in Nat /\ DOMAIN blocks = 1..Len(blocks)
  BY LenProperties
<1>2. PICK i \in 1..Len(blocks) : blocks[i] = Text \/ blocks[i].type = "image"
  BY <1>1 DEF Shows
<1>3. CASE blocks[i] = Text
  BY <1>1, <1>3 DEF Says
<1>4. CASE blocks[i].type = "image"
  <2> DEFINE s == SeenBy(blocks)
  <2>1. /\ s \in Seq(Seq(Nat)) /\ Len(s) = Len(blocks) /\ Shots(blocks) = FlattenSeq(s)
        /\ s[i] = Seen(blocks[i])
    BY SeenByType
  <2> HIDE DEF s
  <2>2. s[i] = <<blocks[i].shot>> /\ 1 \in 1..Len(s[i]) /\ 1 \in Nat
    BY <1>4, <2>1 DEF Seen, ShotOf
  <2>3. Before(s, i - 1) + 1 \in 1..Len(FlattenSeq(s))
    BY <1>1, <2>1, <2>2, Layout
  <2>4. FlattenSeq(s) # <<>>
    BY <2>3, EmptySeq
  <2> QED  BY <2>1, <2>4
<1> QED  BY <1>2, <1>3, <1>4

LEMMA WithoutIs ==
  ASSUME NEW blocks \in Seq(Block), NEW old
  PROVE  /\ Without(blocks, old) \in Seq(Block) /\ Len(Without(blocks, old)) = Len(blocks)
         /\ \A i \in 1..Len(blocks) : Without(blocks, old)[i] = FadedBlock(blocks[i], old)
         /\ \A type \in {"tool_use", "tool_result"} : Ids(Without(blocks, old), type) = Ids(blocks, type)
         /\ Says(blocks) => Says(Without(blocks, old))
         /\ Shows(blocks) => Shows(Without(blocks, old))
         /\ ToSet(blocks) = {Other} => ToSet(Without(blocks, old)) = {Other}
         /\ blocks = <<Blank>> => Without(blocks, old) = <<Blank>>
<1> DEFINE w == Without(blocks, old)
<1>1. Len(blocks) \in Nat /\ DOMAIN blocks = 1..Len(blocks)
  BY LenProperties
<1>2. w = [i \in 1..Len(blocks) |-> FadedBlock(blocks[i], old)]
  BY <1>1 DEF Without, FadedBlock, FadedContent
<1>3. \A i \in 1..Len(blocks) : blocks[i] \in Block /\ FadedBlock(blocks[i], old) \in Block
  BY ElementOfSeq, FadedBlockIs
<1> HIDE DEF w
<1>4. w \in Seq(Block) /\ Len(w) = Len(blocks) /\ DOMAIN w = 1..Len(blocks)
      /\ \A i \in 1..Len(blocks) : w[i] = FadedBlock(blocks[i], old)
  BY <1>1, <1>2, <1>3
<1>5. ASSUME NEW type \in {"tool_use", "tool_result"}
      PROVE  Ids(w, type) = Ids(blocks, type)
  <2>1. \A i \in 1..Len(blocks) : IdsBy(w, type)[i] = IdsBy(blocks, type)[i]
    <3>1. \A i \in 1..Len(blocks) :
            /\ IdsBy(w, type)[i] = IF w[i].type = type THEN <<w[i].id>> ELSE <<>>
            /\ IdsBy(blocks, type)[i] = IF blocks[i].type = type THEN <<blocks[i].id>> ELSE <<>>
      BY <1>4, IdsByType
    <3>2. ASSUME NEW i \in 1..Len(blocks)
          PROVE  (w[i].type = type <=> blocks[i].type = type)
                 /\ (blocks[i].type = type => w[i].id = blocks[i].id)
      BY <1>3, <1>4, FadedBlockIs
    <3> QED  BY <3>1, <3>2
  <2>2. IdsBy(w, type) = IdsBy(blocks, type)
    <3>1. /\ IdsBy(w, type) \in Seq(Seq(Ident)) /\ IdsBy(blocks, type) \in Seq(Seq(Ident))
          /\ Len(IdsBy(w, type)) = Len(blocks) /\ Len(IdsBy(blocks, type)) = Len(blocks)
      BY <1>4, IdsByType
    <3> QED  BY <2>1, <3>1, SeqEqual
  <2> QED  BY <1>4, <2>2, IdsByType
<1>6. Says(blocks) => Says(w)
  <2>1. ASSUME NEW i \in 1..Len(blocks), blocks[i] = Text
        PROVE  w[i] = Text
    BY <1>3, <1>4, <2>1, FadedBlockIs
  <2> QED  BY <1>1, <1>4, <2>1 DEF Says
<1>7. Shows(blocks) => Shows(w)
  <2>1. ASSUME NEW i \in 1..Len(blocks), blocks[i] = Text \/ blocks[i].type = "image"
        PROVE  w[i] = Text \/ w[i].type = "image"
    BY <1>3, <1>4, <2>1, FadedBlockIs
  <2> QED  BY <1>1, <1>4, <2>1 DEF Shows
<1>8. ASSUME NEW i \in 1..Len(blocks), blocks[i] \in {Blank, Other}
      PROVE  w[i] = blocks[i]
  BY <1>3, <1>4, <1>8, FadedBlockIs
<1>9. ASSUME ToSet(blocks) = {Other}
      PROVE  ToSet(w) = {Other}
  <2>1. \A i \in 1..Len(blocks) : blocks[i] = Other
    BY <1>1, <1>9 DEF ToSet
  <2>2. \A i \in 1..Len(blocks) : w[i] = blocks[i]
    BY <1>8, <2>1
  <2> QED  BY <1>1, <1>4, <1>9, <2>2 DEF ToSet
<1>10. ASSUME blocks = <<Blank>>
       PROVE  w = <<Blank>>
  <2>1. Len(blocks) = 1 /\ 1 \in 1..Len(blocks) /\ blocks[1] = Blank
    BY <1>10
  <2>2. w[1] = Blank /\ Len(w) = 1
    BY <1>4, <1>8, <2>1
  <2> QED  BY <1>4, <2>2
<1> QED  BY <1>4, <1>5, <1>6, <1>7, <1>9, <1>10 DEF w

LEMMA FadedShots ==
  ASSUME NEW blocks \in Seq(Block), NEW old, NEW a \in Nat, NEW b \in Nat, NEW c \in Nat,
         OldUpTo(old, a, b, c), NEW x \in a..b, NEW y \in a..b, x <= y, Shots(blocks) = Run(x, y)
  PROVE  Shots(Without(blocks, old)) = Run(Late(x, c), Late(y, c))
<1> DEFINE w == Without(blocks, old)
           s == SeenBy(blocks)
           t == SeenBy(w)
<1>1. x \in Nat /\ y \in Nat /\ OldUpTo(old, x, y, c)
  BY DEF OldUpTo
<1>2. /\ w \in Seq(Block) /\ Len(w) = Len(blocks)
      /\ \A i \in 1..Len(blocks) : w[i] = FadedBlock(blocks[i], old)
  BY WithoutIs
<1>3. /\ s \in Seq(Seq(Nat)) /\ Len(s) = Len(blocks) /\ Shots(blocks) = FlattenSeq(s)
      /\ \A i \in 1..Len(blocks) : s[i] = Seen(blocks[i])
  BY SeenByType
<1> HIDE DEF w, s
<1>4. /\ t \in Seq(Seq(Nat)) /\ Len(t) = Len(blocks) /\ Shots(w) = FlattenSeq(t)
      /\ \A i \in 1..Len(blocks) : t[i] = Seen(w[i])
  BY <1>2, SeenByType
<1> HIDE DEF t
<1>5. Cuts(s, t, x, y, c)
  <2>1. ASSUME NEW i \in 1..Len(s), NEW u \in x..y, NEW v \in x..y, u <= v, s[i] = Run(u, v)
        PROVE  t[i] = Run(Late(u, c), Late(v, c))
    <3>1. blocks[i] \in Block
      BY <1>3, ElementOfSeq
    <3>2. Seen(blocks[i]) = Run(u, v) /\ t[i] = Seen(FadedBlock(blocks[i], old))
      BY <1>2, <1>3, <1>4, <2>1
    <3>3. Seen(FadedBlock(blocks[i], old)) = Run(Late(u, c), Late(v, c))
      BY <1>1, <2>1, <3>1, <3>2, FadedSeen
    <3> QED  BY <3>2, <3>3
  <2> QED  BY <2>1 DEF Cuts
<1>6. FlattenSeq(t) = Run(Late(x, c), Late(y, c))
  <2>1. /\ Len(t) = Len(s) /\ FlattenSeq(s) = Run(x, y)
        /\ s \in Seq(Seq(Nat)) /\ t \in Seq(Seq(Nat)) /\ x \in Nat /\ y \in Nat
    BY <1>1, <1>3, <1>4
  <2> QED  BY <1>5, <2>1, CutRuns
<1> QED  BY <1>4, <1>6 DEF w

---------------------------------------------------------------------------
(* The conversation *)

Calls(m) == Ids(m.blocks, "tool_use")
Replies(m) == Ids(m.blocks, "tool_result")

Distinct(ids) == \A i, j \in 1..Len(ids) : i # j => ids[i] # ids[j]

WellMade(m) ==
  /\ m.role = "assistant" =>
       /\ Replies(m) = <<>> /\ Shots(m.blocks) = <<>>
       /\ Distinct(Calls(m)) /\ Len(Calls(m)) <= MaxCalls
       /\ Says(m.blocks) \/ Calls(m) # <<>> \/ ToSet(m.blocks) = {Other}
  /\ m.role = "user" =>
       Calls(m) = <<>> /\ (Shows(m.blocks) \/ Replies(m) # <<>> \/ m.blocks = <<Blank>>)

\* Every message answers the one before it, the first one none.
Paired(ms) ==
  /\ \A i \in 1..Len(ms) : WellMade(ms[i])
  /\ \A i \in 1..Len(ms) : i # 1 => Replies(ms[i]) = Calls(ms[i - 1])
  /\ ms # <<>> => Replies(ms[1]) = <<>>

\* The calls that wait for an answer.
Pending(ms) == IF ms = <<>> THEN <<>> ELSE Calls(ms[Len(ms)])

ShotsBy(ms) == [i \in DOMAIN ms |-> Shots(ms[i].blocks)]

LEMMA MessageIs ==
  ASSUME NEW ms \in Seq(Message)
  PROVE  /\ Len(ms) \in Nat /\ DOMAIN ms = 1..Len(ms)
         /\ \A i \in 1..Len(ms) : /\ ms[i] \in Message /\ ms[i].role \in {"user", "assistant"}
                                  /\ ms[i].blocks \in Seq(Block)
         /\ ShotsBy(ms) \in Seq(Seq(Nat)) /\ Len(ShotsBy(ms)) = Len(ms)
         /\ \A i \in 1..Len(ms) : ShotsBy(ms)[i] = Shots(ms[i].blocks)
         /\ AllShots(ms) = FlattenSeq(ShotsBy(ms)) /\ AllShots(ms) \in Seq(Nat)
<1>1. Len(ms) \in Nat /\ DOMAIN ms = 1..Len(ms)
  BY LenProperties
<1>2. \A i \in 1..Len(ms) : /\ ms[i] \in Message /\ ms[i].role \in {"user", "assistant"}
                            /\ ms[i].blocks \in Seq(Block)
  <2>1. \A m \in Message : m.role \in {"user", "assistant"} /\ m.blocks \in Seq(Block)
    BY DEF Message
  <2>2. \A i \in 1..Len(ms) : ms[i] \in Message
    BY ElementOfSeq
  <2> QED  BY <2>1, <2>2
<1>3. \A i \in 1..Len(ms) : Shots(ms[i].blocks) \in Seq(Nat)
  BY <1>2, SeenByType
<1>4. /\ ShotsBy(ms) \in Seq(Seq(Nat)) /\ Len(ShotsBy(ms)) = Len(ms)
      /\ \A i \in 1..Len(ms) : ShotsBy(ms)[i] = Shots(ms[i].blocks)
  BY <1>1, <1>3 DEF ShotsBy
<1>5. AllShots(ms) = FlattenSeq(ShotsBy(ms))
  BY DEF AllShots, ShotsBy
<1> QED  BY <1>1, <1>2, <1>4, <1>5, FlattenType

\* One message more.
LEMMA AppendPaired ==
  ASSUME NEW ms \in Seq(Message), Paired(ms), NEW m \in Message, WellMade(m), Replies(m) = Pending(ms)
  PROVE  /\ Append(ms, m) \in Seq(Message) /\ Paired(Append(ms, m)) /\ Pending(Append(ms, m)) = Calls(m)
         /\ AllShots(Append(ms, m)) = AllShots(ms) \o Shots(m.blocks)
<1> DEFINE n == Len(ms)
           t == Append(ms, m)
<1>1. /\ n \in Nat /\ t \in Seq(Message) /\ Len(t) = n + 1 /\ t[n + 1] = m /\ t # <<>>
      /\ \A i \in 1..n : t[i] = ms[i]
  BY AppendProperties, LenProperties
<1>2. n = 0 <=> ms = <<>>
  BY EmptySeq
<1> HIDE DEF t, n
<1>3. Pending(t) = Calls(m)
  BY <1>1 DEF Pending
<1>4. ASSUME NEW i \in 1..Len(t)
      PROVE  WellMade(t[i]) /\ (i # 1 => Replies(t[i]) = Calls(t[i - 1]))
  <2>1. CASE i = n + 1
    <3>1. i # 1 => i - 1 = n /\ ms # <<>> /\ n \in 1..n
      BY <1>1, <1>2, <2>1
    <3> QED  BY <1>1, <2>1, <3>1 DEF Pending, n
  <2>2. CASE i # n + 1
    <3>1. i \in 1..n /\ (i # 1 => i - 1 \in 1..n)
      BY <1>1, <2>2
    <3> QED  BY <1>1, <3>1 DEF Paired, n
  <2> QED  BY <2>1, <2>2
<1>5. Replies(t[1]) = <<>>
  <2>1. CASE n = 0
    BY <1>1, <1>2, <2>1 DEF Pending
  <2>2. CASE n # 0
    <3>1. 1 \in 1..n
      BY <1>1, <2>2
    <3> QED  BY <1>1, <1>2, <2>2, <3>1 DEF Paired
  <2> QED  BY <2>1, <2>2
<1>6. AllShots(t) = AllShots(ms) \o Shots(m.blocks)
  <2>1. m.blocks \in Seq(Block) /\ Shots(m.blocks) \in Seq(Nat)
    BY SeenByType DEF Message
  <2>2. /\ ShotsBy(ms) \in Seq(Seq(Nat)) /\ Len(ShotsBy(ms)) = n
        /\ \A i \in 1..n : ShotsBy(ms)[i] = Shots(ms[i].blocks)
        /\ ShotsBy(t) \in Seq(Seq(Nat)) /\ Len(ShotsBy(t)) = n + 1
        /\ \A i \in 1..(n + 1) : ShotsBy(t)[i] = Shots(t[i].blocks)
    BY <1>1, MessageIs DEF n
  <2> DEFINE u == Append(ShotsBy(ms), Shots(m.blocks))
  <2>3. u \in Seq(Seq(Nat)) /\ Len(u) = n + 1 /\ u[n + 1] = Shots(m.blocks)
        /\ \A i \in 1..n : u[i] = ShotsBy(ms)[i]
    BY <2>1, <2>2, AppendProperties
  <2> HIDE DEF u
  <2>4. ASSUME NEW i \in 1..(n + 1)
        PROVE  u[i] = ShotsBy(t)[i]
    <3>1. i = n + 1 \/ i \in 1..n
      BY <1>1
    <3>2. CASE i = n + 1
      <4>1. t[i] = m
        BY <1>1, <3>2
      <4> QED  BY ONLY <2>2, <2>3, <3>2, <4>1
    <3>3. CASE i \in 1..n
      <4>1. t[i] = ms[i]
        BY <1>1, <3>3
      <4> QED  BY ONLY <2>2, <2>3, <3>3, <4>1
    <3> QED  BY <3>1, <3>2, <3>3
  <2>5. u = ShotsBy(t)
    BY <2>2, <2>3, <2>4, SeqEqual
  <2>6. FlattenSeq(u) = FlattenSeq(ShotsBy(ms)) \o Shots(m.blocks)
    BY <2>1, <2>2, FlattenAppend DEF u
  <2> QED  BY <1>1, <2>5, <2>6, MessageIs
<1> QED  BY <1>1, <1>3, <1>4, <1>5, <1>6 DEF Paired, t

---------------------------------------------------------------------------
(* Pruning *)

Cut(e, keep) == IF e > keep THEN e - keep ELSE 0

LEMMA PruneOld ==
  ASSUME NEW ms, NEW t \in Nat, NEW e \in Nat, t <= e, AllShots(ms) = Run(t, e), NEW keep \in Nat
  PROVE  LET all == AllShots(ms)
             old == {all[i] : i \in 1..(Len(all) - keep)}
         IN OldUpTo(old, t, e, Cut(e, keep))
<1> DEFINE all == AllShots(ms)
           old == {all[i] : i \in 1..(Len(all) - keep)}
<1>1. Len(all) = e - t /\ \A i \in 1..(e - t) : all[i] = t + i
  <2>1. all = Run(t, e)
    OBVIOUS
  <2> HIDE DEF all, old
  <2> QED  BY <2>1, RunFacts
<1> HIDE DEF all
<1>2. ASSUME NEW x \in (t + 1)..e
      PROVE  x \in old <=> x <= Cut(e, keep)
  <2>1. ASSUME x \in old
        PROVE  x <= Cut(e, keep)
    <3>1. PICK i \in 1..((e - t) - keep) : x = all[i]
      BY <1>1, <2>1
    <3>2. i \in 1..(e - t) /\ i <= (e - t) - keep
      BY <3>1
    <3>3. x = t + i
      BY <1>1, <3>1, <3>2
    <3> QED  BY <3>2, <3>3 DEF Cut
  <2>2. ASSUME x <= Cut(e, keep)
        PROVE  x \in old
    <3>1. e > keep /\ x <= e - keep
      BY <2>2 DEF Cut
    <3>2. x - t \in 1..((e - t) - keep) /\ x - t \in 1..(e - t) /\ t + (x - t) = x
      BY <3>1
    <3>3. all[x - t] = x
      BY <1>1, <3>2
    <3> QED  BY <1>1, <3>2, <3>3
  <2> QED  BY <2>1, <2>2
<1> HIDE DEF old
<1>3. OldUpTo(old, t, e, Cut(e, keep))
  BY <1>2 DEF OldUpTo
<1> QED  BY <1>3 DEF old, all

LEMMA PrunePaired ==
  ASSUME NEW ms \in Seq(Message), Paired(ms), NEW t \in Nat, NEW e \in Nat, t <= e,
         AllShots(ms) = Run(t, e), NEW keep \in Nat
  PROVE  /\ Prune(ms, keep) \in Seq(Message) /\ Paired(Prune(ms, keep))
         /\ Pending(Prune(ms, keep)) = Pending(ms)
         /\ AllShots(Prune(ms, keep)) = Run(Late(t, Cut(e, keep)), e)
<1> DEFINE all == AllShots(ms)
           old == {all[i] : i \in 1..(Len(all) - keep)}
           c == Cut(e, keep)
           p == Prune(ms, keep)
           pruned(m) == [m EXCEPT !.blocks = Without(@, old)]
<1>1. OldUpTo(old, t, e, c) /\ c \in Nat /\ Late(e, c) = e
  <2>1. OldUpTo(old, t, e, c)
    BY PruneOld
  <2>2. c \in Nat /\ Late(e, c) = e
    BY DEF Cut, Late
  <2> QED  BY <2>1, <2>2
<1>2. p = [i \in DOMAIN ms |-> pruned(ms[i])]
  BY DEF Prune
<1> HIDE DEF old, c, p
<1>3. /\ Len(ms) \in Nat /\ DOMAIN ms = 1..Len(ms)
      /\ \A i \in 1..Len(ms) : ms[i] \in Message
  BY MessageIs
<1>4. ASSUME NEW m \in Message
      PROVE  /\ m.blocks \in Seq(Block) /\ m.role \in {"user", "assistant"}
             /\ pruned(m) \in Message
             /\ pruned(m).role = m.role /\ pruned(m).blocks = Without(m.blocks, old)
  <2>1. m.blocks \in Seq(Block) /\ m.role \in {"user", "assistant"}
    BY DEF Message
  <2>2. Without(m.blocks, old) \in Seq(Block)
    BY <2>1, WithoutIs
  <2> QED  BY <2>1, <2>2 DEF Message
<1>5. ASSUME NEW m \in Message
      PROVE  Calls(pruned(m)) = Calls(m) /\ Replies(pruned(m)) = Replies(m)
  <2>1. /\ Ids(Without(m.blocks, old), "tool_use") = Ids(m.blocks, "tool_use")
        /\ Ids(Without(m.blocks, old), "tool_result") = Ids(m.blocks, "tool_result")
    BY <1>4, WithoutIs
  <2> QED  BY <1>4, <2>1 DEF Calls, Replies
<1>6. ASSUME NEW m \in Message, WellMade(m)
      PROVE  WellMade(pruned(m))
  <2>1. /\ Says(m.blocks) => Says(pruned(m).blocks)
        /\ Shows(m.blocks) => Shows(pruned(m).blocks)
        /\ ToSet(m.blocks) = {Other} => ToSet(pruned(m).blocks) = {Other}
        /\ m.blocks = <<Blank>> => pruned(m).blocks = <<Blank>>
    <3>1. m.blocks \in Seq(Block) /\ pruned(m).blocks = Without(m.blocks, old)
      BY <1>4
    <3> HIDE DEF pruned
    <3>2. ASSUME NEW bs \in Seq(Block)
          PROVE  /\ Says(bs) => Says(Without(bs, old))
                 /\ Shows(bs) => Shows(Without(bs, old))
                 /\ ToSet(bs) = {Other} => ToSet(Without(bs, old)) = {Other}
                 /\ bs = <<Blank>> => Without(bs, old) = <<Blank>>
      BY WithoutIs
    <3> QED  BY ONLY <3>1, <3>2, Zenon
  <2> HIDE DEF pruned
  <2>2. ASSUME Shots(m.blocks) = <<>>
        PROVE  Shots(pruned(m).blocks) = <<>>
    <3>1. Shots(m.blocks) = Run(0, 0) /\ OldUpTo(old, 0, 0, c)
      BY <2>2, RunEmpty DEF OldUpTo
    <3>2. Shots(pruned(m).blocks) = Run(Late(0, c), Late(0, c))
      <4> DEFINE bs == m.blocks
      <4>1. bs \in Seq(Block) /\ Shots(bs) = Run(0, 0) /\ c \in Nat /\ 0 \in 0..0 /\ 0 \in Nat
        BY <1>1, <1>4, <3>1
      <4> HIDE DEF bs
      <4>2. Shots(Without(bs, old)) = Run(Late(0, c), Late(0, c))
        BY <3>1, <4>1, FadedShots
      <4> QED  BY <1>4, <4>2 DEF bs
    <3>3. Late(0, c) \in Nat
      BY <1>1 DEF Late
    <3> QED  BY <3>2, <3>3, RunEmpty
  <2> QED  BY <1>4, <1>5, <1>6, <2>1, <2>2 DEF WellMade
<1>7. /\ p \in Seq(Message) /\ Len(p) = Len(ms)
      /\ \A i \in 1..Len(ms) : p[i] = pruned(ms[i])
  <2>1. \A i \in 1..Len(ms) : pruned(ms[i]) \in Message
    BY <1>3, <1>4
  <2> HIDE DEF pruned
  <2> QED  BY <1>2, <1>3, <2>1
<1>8. p = <<>> <=> ms = <<>>
  BY <1>7, EmptySeq
<1> HIDE DEF pruned
<1>9. Paired(p)
  <2>1. ASSUME NEW i \in 1..Len(p)
        PROVE  WellMade(p[i]) /\ (i # 1 => Replies(p[i]) = Calls(p[i - 1]))
    <3>1. i \in 1..Len(ms) /\ (i # 1 => i - 1 \in 1..Len(ms))
      BY <1>3, <1>7
    <3> QED  BY <1>3, <1>5, <1>6, <1>7, <3>1 DEF Paired
  <2>2. ms # <<>> => 1 \in 1..Len(ms)
    BY <1>3, EmptySeq
  <2>3. p # <<>> => Replies(p[1]) = <<>>
    BY <1>3, <1>5, <1>7, <1>8, <2>2 DEF Paired
  <2> QED  BY <2>1, <2>3 DEF Paired
<1>10. Pending(p) = Pending(ms)
  <2>1. ms # <<>> => Len(ms) \in 1..Len(ms)
    BY <1>3, EmptySeq
  <2> QED  BY <1>3, <1>5, <1>7, <1>8, <2>1 DEF Pending
<1>11. AllShots(p) = Run(Late(t, c), e)
  <2>1. /\ ShotsBy(ms) \in Seq(Seq(Nat)) /\ Len(ShotsBy(ms)) = Len(ms)
        /\ \A i \in 1..Len(ms) : ShotsBy(ms)[i] = Shots(ms[i].blocks)
        /\ FlattenSeq(ShotsBy(ms)) = Run(t, e)
    BY MessageIs
  <2>2. /\ ShotsBy(p) \in Seq(Seq(Nat)) /\ Len(ShotsBy(p)) = Len(ms)
        /\ \A i \in 1..Len(ms) : ShotsBy(p)[i] = Shots(p[i].blocks)
        /\ FlattenSeq(ShotsBy(p)) = AllShots(p)
    BY <1>7, MessageIs
  <2>3. Cuts(ShotsBy(ms), ShotsBy(p), t, e, c)
    <3>1. ASSUME NEW i \in 1..Len(ShotsBy(ms)), NEW x \in t..e, NEW y \in t..e, x <= y,
                 ShotsBy(ms)[i] = Run(x, y)
          PROVE  ShotsBy(p)[i] = Run(Late(x, c), Late(y, c))
      <4>1. i \in 1..Len(ms) /\ Shots(ms[i].blocks) = Run(x, y) /\ ms[i].blocks \in Seq(Block)
        BY <1>3, <1>4, <2>1, <3>1
      <4>2. ShotsBy(p)[i] = Shots(Without(ms[i].blocks, old))
        <5>1. ms[i] \in Message /\ p[i] = pruned(ms[i])
          BY <1>3, <1>7, <4>1
        <5>2. p[i].blocks = Without(ms[i].blocks, old)
          BY <1>4, <5>1
        <5> QED  BY <2>2, <4>1, <5>2
      <4> DEFINE bs == ms[i].blocks
      <4>3. bs \in Seq(Block) /\ Shots(bs) = Run(x, y) /\ x \in t..e /\ y \in t..e /\ x <= y
        BY <3>1, <4>1
      <4> HIDE DEF bs
      <4>4. Shots(Without(bs, old)) = Run(Late(x, c), Late(y, c))
        BY <1>1, <4>3, FadedShots
      <4> QED  BY <4>2, <4>4 DEF bs
    <3> QED  BY <3>1 DEF Cuts
  <2>4. Len(ShotsBy(p)) = Len(ShotsBy(ms)) /\ ShotsBy(ms) \in Seq(Seq(Nat))
        /\ ShotsBy(p) \in Seq(Seq(Nat)) /\ FlattenSeq(ShotsBy(ms)) = Run(t, e)
    BY <2>1, <2>2
  <2>5. FlattenSeq(ShotsBy(p)) = Run(Late(t, c), Late(e, c))
    BY <1>1, <2>3, <2>4, CutRuns
  <2> QED  BY <1>1, <2>2, <2>5
<1> QED  BY <1>7, <1>9, <1>10, <1>11 DEF p, c

---------------------------------------------------------------------------
(* The messages a run adds *)

LEMMA TakenIs ==
  ASSUME NEW found \in Nat, NEW first \in Nat
  PROVE  /\ Taken(found, first) \in Seq(Bit) /\ Len(Taken(found, first)) = found
         /\ \A i \in 1..found : /\ Taken(found, first)[i].type = "image"
                                /\ ShotOf(Taken(found, first)[i]) = Run(first + i - 1, first + i)
<1>1. ASSUME NEW i \in 1..found
      PROVE  /\ Image(first + i) \in Bit /\ Image(first + i).type = "image"
             /\ ShotOf(Image(first + i)) = Run(first + i - 1, first + i)
  <2>1. first + i - 1 \in Nat /\ first + i \in Nat /\ first + i = (first + i - 1) + 1
    OBVIOUS
  <2>2. ShotOf(Image(first + i)) = <<first + i>>
    BY DEF ShotOf, Image
  <2>3. Run(first + i - 1, first + i) = <<first + i>>
    BY <2>1, RunOne
  <2> QED  BY <2>1, <2>2, <2>3 DEF Image, Bit
<1> QED  BY <1>1 DEF Taken

\* A request.
LEMMA AskIs ==
  ASSUME NEW found \in Nat, NEW first \in Nat, NEW words \in {Text, Blank}
  PROVE  LET blocks == Append(Taken(found, first), words)
         IN /\ blocks \in Seq(Block) /\ (Shows(blocks) \/ blocks = <<Blank>>)
            /\ Ids(blocks, "tool_use") = <<>> /\ Ids(blocks, "tool_result") = <<>>
            /\ Shots(blocks) = Run(first, first + found)
<1> DEFINE taken == Taken(found, first)
           blocks == Append(taken, words)
           at == [i \in 0..(found + 1) |-> IF i <= found THEN first + i ELSE first + found]
<1>1. /\ taken \in Seq(Block) /\ Len(taken) = found
      /\ \A i \in 1..found : taken[i].type = "image" /\ ShotOf(taken[i]) = Run(first + i - 1, first + i)
  <2>1. Bit \subseteq Block
    BY DEF Block
  <2>2. /\ taken \in Seq(Bit) /\ Len(taken) = found
        /\ \A i \in 1..found : taken[i].type = "image" /\ ShotOf(taken[i]) = Run(first + i - 1, first + i)
    BY TakenIs
  <2> HIDE DEF taken
  <2> QED  BY <2>1, <2>2
<1>2. words \in Block /\ words.type \in {"text", "blank"} /\ ShotOf(words) = <<>>
  BY DEF Block, Bit, Text, Blank, ShotOf
<1> HIDE DEF taken
<1>3. /\ blocks \in Seq(Block) /\ Len(blocks) = found + 1 /\ blocks[found + 1] = words
      /\ \A i \in 1..found : blocks[i] = taken[i]
  BY <1>1, <1>2, AppendProperties
<1> HIDE DEF blocks
<1>4. \A i \in 1..Len(blocks) : i = found + 1 \/ i \in 1..found
  BY <1>3
<1>5. \A i \in 1..Len(blocks) : blocks[i].type \in {"text", "blank", "image"}
  BY <1>1, <1>2, <1>3, <1>4
<1>6. Ids(blocks, "tool_use") = <<>> /\ Ids(blocks, "tool_result") = <<>>
  <2>1. \A i \in 1..Len(blocks) : blocks[i].type # "tool_use" /\ blocks[i].type # "tool_result"
    BY <1>5
  <2> QED  BY <1>3, <2>1, NoIds
<1>7. Shows(blocks) \/ blocks = <<Blank>>
  <2>1. found + 1 \in DOMAIN blocks /\ DOMAIN blocks = 1..(found + 1)
    BY <1>3, LenProperties
  <2>2. CASE words = Text
    BY <1>3, <2>1, <2>2 DEF Shows
  <2>3. CASE found # 0
    <3>1. 1 \in 1..found /\ 1 \in DOMAIN blocks
      BY <2>1, <2>3
    <3>2. blocks[1].type = "image"
      BY <1>1, <1>3, <3>1
    <3> QED  BY <3>1, <3>2 DEF Shows
  <2>4. CASE words = Blank /\ found = 0
    <3>1. blocks \in Seq(Block) /\ Len(blocks) = 1 /\ blocks[1] = Blank
      BY <1>3, <2>4
    <3>2. blocks = <<Blank>>
      BY ONLY <3>1
    <3> QED  BY <3>2
  <2> QED  BY <2>2, <2>3, <2>4
<1>8. Shots(blocks) = Run(first, first + found)
  <2> DEFINE s == SeenBy(blocks)
  <2>1. /\ s \in Seq(Seq(Nat)) /\ Len(s) = found + 1 /\ Shots(blocks) = FlattenSeq(s)
        /\ \A i \in 1..(found + 1) : s[i] = Seen(blocks[i])
    BY <1>3, SeenByType
  <2> HIDE DEF s
  <2>2. at \in [0..Len(s) -> Nat] /\ at[0] = first /\ at[Len(s)] = first + found
    BY <2>1
  <2>3. ASSUME NEW i \in 1..Len(s)
        PROVE  at[i - 1] <= at[i] /\ s[i] = Run(at[i - 1], at[i])
    <3>1. s[i] = ShotOf(blocks[i])
      BY <1>3, <1>5, <2>1 DEF Seen
    <3>2. CASE i = found + 1
      <4>1. at[i - 1] = first + found /\ at[i] = first + found /\ first + found \in Nat
        BY <2>1, <3>2
      <4> QED  BY <1>2, <1>3, <3>1, <3>2, <4>1, RunEmpty
    <3>3. CASE i # found + 1
      <4>1. i \in 1..found /\ at[i - 1] = first + i - 1 /\ at[i] = first + i
        BY <2>1, <3>3
      <4>2. at[i - 1] <= at[i]
        BY <4>1
      <4> QED  BY <1>1, <1>3, <3>1, <4>1, <4>2
    <3> QED  BY <3>2, <3>3
  <2> HIDE DEF at
  <2>4. FlattenSeq(s) = Run(at[0], at[Len(s)])
    BY <2>1, <2>2, <2>3, FlattenRuns
  <2> QED  BY <2>1, <2>2, <2>4
<1> QED  BY <1>3, <1>6, <1>7, <1>8 DEF blocks, taken

\* An answer as it is kept.
LEMMA ReplayIs ==
  ASSUME NEW other \in BOOLEAN, NEW text \in BOOLEAN, NEW calls \in Seq(Ident), NEW runs \in BOOLEAN
  PROVE  LET kept == Replayable(other, text, calls, runs)
         IN /\ kept \in Seq(Block) /\ Shots(kept) = <<>> /\ Ids(kept, "tool_result") = <<>>
            /\ Ids(kept, "tool_use") = IF runs THEN calls ELSE <<>>
            /\ kept # <<>> => Says(kept) \/ Ids(kept, "tool_use") # <<>> \/ ToSet(kept) = {Other}
            /\ kept = <<>> => ~runs \/ calls = <<>>
<1> DEFINE o == IF other THEN <<Other>> ELSE <<>>
           p == IF text THEN <<Text>> ELSE <<>>
           t == o \o p
           q == IF runs THEN [i \in DOMAIN calls |-> [type |-> "tool_use", id |-> calls[i]]] ELSE <<>>
           kept == Replayable(other, text, calls, runs)
<1>1. /\ o \in Seq(Block) /\ p \in Seq(Block)
      /\ Len(o) = (IF other THEN 1 ELSE 0) /\ Len(p) = (IF text THEN 1 ELSE 0)
      /\ \A i \in 1..Len(o) : i = 1 /\ o[i] = Other
      /\ \A i \in 1..Len(p) : i = 1 /\ p[i] = Text
  <2>1. Text \in Block /\ Other \in Block
    BY DEF Block, Bit
  <2> QED  BY <2>1, EmptySeq
<1>2. /\ q \in Seq(Block) /\ Len(q) = IF runs THEN Len(calls) ELSE 0
      /\ \A i \in 1..Len(q) : runs /\ q[i].type = "tool_use" /\ q[i].id = calls[i]
  <2>1. Len(calls) \in Nat /\ DOMAIN calls = 1..Len(calls)
    BY LenProperties
  <2>2. \A i \in 1..Len(calls) : [type |-> "tool_use", id |-> calls[i]] \in Block
    BY ElementOfSeq DEF Block, Use
  <2>3. CASE runs
    BY <2>1, <2>2, <2>3
  <2>4. CASE ~runs
    BY <2>4, EmptySeq
  <2> QED  BY <2>3, <2>4
<1>3. kept = t \o q
  BY DEF Replayable
<1> HIDE DEF o, p, q, kept
<1>4. /\ t \in Seq(Block) /\ Len(o) \in Nat /\ Len(p) \in Nat /\ Len(t) = Len(o) + Len(p)
      /\ \A i \in 1..Len(o) : t[i] = o[i]
      /\ \A i \in 1..Len(p) : t[Len(o) + i] = p[i]
  BY ONLY <1>1, Joined
<1>5. /\ \A i \in 1..Len(t) : t[i] \in {Other, Text}
      /\ text => \E i \in 1..Len(t) : t[i] = Text
      /\ ~text => \A i \in 1..Len(t) : t[i] = Other
      /\ Len(t) = 0 <=> ~other /\ ~text
  <2>1. ASSUME NEW i \in 1..Len(t)
        PROVE  t[i] \in {Other, Text} /\ (~text => t[i] = Other)
    <3>1. CASE i <= Len(o)
      <4>1. i \in 1..Len(o)
        BY <1>4, <3>1
      <4> QED  BY <1>1, <1>4, <4>1
    <3>2. CASE ~(i <= Len(o))
      <4>1. i - Len(o) \in 1..Len(p) /\ Len(o) + (i - Len(o)) = i
        BY <1>4, <3>2
      <4>2. t[i] = Text
        BY <1>1, <1>4, <4>1
      <4>3. Len(p) # 0
        BY <4>1
      <4> QED  BY <1>1, <4>2, <4>3
    <3> QED  BY <3>1, <3>2
  <2>2. ASSUME text
        PROVE  \E i \in 1..Len(t) : t[i] = Text
    <3>1. 1 \in 1..Len(p) /\ Len(o) + 1 \in 1..Len(t)
      BY <1>1, <1>4, <2>2
    <3> QED  BY <1>1, <1>4, <3>1
  <2>3. Len(t) = 0 <=> ~other /\ ~text
    BY <1>1, <1>4
  <2> QED  BY <2>1, <2>2, <2>3
<1> HIDE DEF t
<1>6. /\ kept \in Seq(Block) /\ Len(t) \in Nat /\ Len(q) \in Nat /\ Len(kept) = Len(t) + Len(q)
      /\ \A i \in 1..Len(t) : kept[i] = t[i]
      /\ \A i \in 1..Len(q) : kept[Len(t) + i] = q[i]
  <2>1. t \in Seq(Block) /\ q \in Seq(Block)
    BY <1>2, <1>4
  <2>2. /\ t \o q \in Seq(Block) /\ Len(t) \in Nat /\ Len(q) \in Nat
        /\ Len(t \o q) = Len(t) + Len(q)
        /\ \A i \in 1..Len(t) : (t \o q)[i] = t[i]
        /\ \A i \in 1..Len(q) : (t \o q)[Len(t) + i] = q[i]
    BY ONLY <2>1, Joined
  <2> QED  BY ONLY <1>3, <2>2
<1>7. ASSUME NEW i \in 1..Len(kept)
      PROVE  kept[i].type \in {"text", "other", "tool_use"}
  <2>1. CASE i <= Len(t)
    <3>1. i \in 1..Len(t)
      BY <1>6, <2>1
    <3>2. kept[i] \in {Other, Text}
      BY <1>5, <1>6, <3>1
    <3> QED  BY <3>2 DEF Text, Other
  <2>2. CASE ~(i <= Len(t))
    <3>1. i - Len(t) \in 1..Len(q) /\ Len(t) + (i - Len(t)) = i
      BY <1>6, <2>2
    <3>2. kept[i] = q[i - Len(t)]
      BY <1>6, <3>1
    <3> QED  BY <1>2, <3>1, <3>2
  <2> QED  BY <2>1, <2>2
<1>8. Shots(kept) = <<>>
  <2>1. \A i \in 1..Len(kept) : kept[i].type \notin {"image", "tool_result"}
    BY <1>7
  <2> QED  BY <1>6, <2>1, NoShots
<1>9. Ids(kept, "tool_result") = <<>>
  <2>1. \A i \in 1..Len(kept) : kept[i].type # "tool_result"
    BY <1>7
  <2> QED  BY <1>6, <2>1, NoIds
<1>10. Ids(kept, "tool_use") = IF runs THEN calls ELSE <<>>
  <2>1. Ids(t, "tool_use") = <<>>
    <3>1. \A i \in 1..Len(t) : t[i].type # "tool_use"
      BY <1>5 DEF Text, Other
    <3> QED  BY <1>4, <3>1, NoIds
  <2>2. Ids(q, "tool_use") = IF runs THEN calls ELSE <<>>
    <3>1. CASE runs
      BY <1>2, <3>1, AllIds
    <3>2. CASE ~runs
      <4>1. \A i \in 1..Len(q) : q[i].type # "tool_use"
        BY <1>2, <3>2
      <4> QED  BY <1>2, <3>2, <4>1, NoIds
    <3> QED  BY <3>1, <3>2
  <2>3. Ids(q, "tool_use") \in Seq(Ident)
    BY <1>2, IdsByType
  <2>4. <<>> \o Ids(q, "tool_use") = Ids(q, "tool_use")
    BY <2>3, ConcatEmptySeq
  <2>5. Ids(t \o q, "tool_use") = Ids(t, "tool_use") \o Ids(q, "tool_use")
    BY <1>2, <1>4, JoinedIds
  <2> QED  BY <1>3, <2>1, <2>2, <2>4, <2>5
<1>11. Len(calls) \in Nat /\ (Len(calls) = 0 <=> calls = <<>>) /\ (Len(kept) = 0 <=> kept = <<>>)
       /\ DOMAIN kept = 1..Len(kept) /\ Len(t) <= Len(kept)
  <2>1. Len(t) <= Len(kept)
    BY <1>6
  <2> QED  BY <1>6, <2>1, LenProperties, EmptySeq
<1>12. text => Says(kept)
  <2>1. ASSUME NEW i \in 1..Len(t), t[i] = Text
        PROVE  i \in DOMAIN kept /\ kept[i] = Text
    BY <1>6, <1>11, <2>1
  <2> QED  BY <1>5, <2>1 DEF Says
<1>13. ASSUME kept # <<>>, ~text, ~(runs /\ calls # <<>>)
       PROVE  ToSet(kept) = {Other}
  <2>1. Len(q) = 0 /\ Len(kept) = Len(t) /\ Len(kept) # 0
    <3>1. Len(q) = 0
      BY <1>2, <1>11, <1>13
    <3> QED  BY <1>6, <1>11, <1>13, <3>1
  <2>2. \A i \in 1..Len(kept) : kept[i] = Other
    BY <1>5, <1>6, <1>13, <2>1
  <2>3. 1 \in 1..Len(kept)
    BY <1>6, <2>1
  <2> QED  BY <1>11, <2>2, <2>3 DEF ToSet
<1>14. kept = <<>> => ~runs \/ calls = <<>>
  <2>1. kept = <<>> => Len(q) = 0
    BY <1>6, <1>11
  <2> QED  BY <1>2, <1>11, <2>1
<1>15. kept # <<>> => Says(kept) \/ Ids(kept, "tool_use") # <<>> \/ ToSet(kept) = {Other}
  BY <1>10, <1>12, <1>13
<1> QED  BY <1>6, <1>8, <1>9, <1>10, <1>14, <1>15 DEF kept

\* What a tool result holds.
LEMMA ContentIs ==
  ASSUME NEW found \in Nat, NEW first \in Nat
  PROVE  LET content == <<Text>> \o Taken(found, first)
         IN content \in Seq(Bit) /\ FlattenSeq(BitsBy(content)) = Run(first, first + found)
<1> DEFINE taken == Taken(found, first)
           content == <<Text>> \o taken
           at == [i \in 0..(found + 1) |-> IF i = 0 THEN first ELSE first + i - 1]
           s == BitsBy(content)
<1>1. /\ taken \in Seq(Bit) /\ Len(taken) = found
      /\ \A i \in 1..found : ShotOf(taken[i]) = Run(first + i - 1, first + i)
  BY TakenIs
<1> HIDE DEF taken
<1>2. <<Text>> \in Seq(Bit) /\ Len(<<Text>>) = 1 /\ <<Text>>[1] = Text /\ ShotOf(Text) = <<>>
  BY DEF Bit, Text, ShotOf
<1>3. /\ content \in Seq(Bit) /\ Len(content) = found + 1
      /\ content[1] = Text /\ \A i \in 1..found : content[1 + i] = taken[i]
  <2> DEFINE one == <<Text>>
  <2>1. one \in Seq(Bit) /\ Len(one) = 1 /\ one[1] = Text /\ content = one \o taken
    BY <1>2
  <2> HIDE DEF one, content
  <2>2. /\ one \o taken \in Seq(Bit) /\ Len(one \o taken) = Len(one) + Len(taken)
        /\ \A p \in 1..Len(one) : (one \o taken)[p] = one[p]
        /\ \A j \in 1..Len(taken) : (one \o taken)[Len(one) + j] = taken[j]
    <3>1. one \in Seq(Bit) /\ taken \in Seq(Bit)
      BY <1>1, <2>1
    <3> QED  BY ONLY <3>1, Joined
  <2> QED  BY <1>1, <2>1, <2>2
<1> HIDE DEF content
<1>4. /\ s \in Seq(Seq(Nat)) /\ Len(s) = found + 1
      /\ \A i \in 1..(found + 1) : s[i] = ShotOf(content[i])
  BY <1>3, BitsByType
<1> HIDE DEF s
<1>5. at \in [0..Len(s) -> Nat] /\ at[0] = first /\ at[Len(s)] = first + found
  BY <1>4
<1>6. ASSUME NEW i \in 1..Len(s)
      PROVE  at[i - 1] <= at[i] /\ s[i] = Run(at[i - 1], at[i])
  <2>1. CASE i = 1
    <3>1. at[i - 1] = first /\ at[i] = first
      BY <1>4, <2>1
    <3> QED  BY <1>2, <1>3, <1>4, <2>1, <3>1, RunEmpty
  <2>2. CASE i # 1
    <3> DEFINE j == i - 1
    <3>1. j \in 1..found /\ i = 1 + j /\ at[i - 1] = first + j - 1 /\ at[i] = first + j
      BY <1>4, <2>2
    <3> HIDE DEF j
    <3>2. at[i - 1] <= at[i]
      BY <3>1
    <3> QED  BY <1>1, <1>3, <1>4, <3>1, <3>2, ZenonT(60)
  <2> QED  BY <2>1, <2>2
<1> HIDE DEF at
<1>7. FlattenSeq(s) = Run(at[0], at[Len(s)])
  BY <1>4, <1>5, <1>6, FlattenRuns
<1> QED  BY <1>3, <1>5, <1>7 DEF s, content, taken

\* How many images are taken from a tool result that holds some.
TakenOf(found) == IF found > MaxImages THEN MaxImages ELSE found

\* The blocks of the results of some calls, their images numbered from first.
ResultBlocks(calls, found, first) ==
  [i \in DOMAIN calls |->
    [type |-> "tool_result", id |-> calls[i], content |-> <<Text>> \o Extract(found[i], first[i])]]

\* first[i] is how many images have been taken when the i-th result is read.
Counts(first, calls, found, start) ==
  first = [i \in 1..(Len(calls) + 1) |->
            IF i = 1 THEN start ELSE first[i - 1] + Len(Extract(found[i - 1], 0))]

LEMMA ExtractIs ==
  ASSUME WireAssumption, NEW found \in Nat, NEW first \in Nat
  PROVE  /\ TakenOf(found) \in Nat /\ Extract(found, first) = Taken(TakenOf(found), first)
         /\ Len(Extract(found, 0)) = TakenOf(found)
<1>1. TakenOf(found) \in Nat
  BY DEF TakenOf, WireAssumption
<1>2. \A f \in Nat : Extract(found, f) = Taken(TakenOf(found), f)
  BY DEF Extract, TakenOf
<1> QED  BY <1>1, <1>2, TakenIs

LEMMA CountsExist ==
  ASSUME WireAssumption, NEW calls \in Seq(Ident), NEW found, NEW start \in Nat,
         \A i \in 1..Len(calls) : found[i] \in Nat
  PROVE  \E first : Counts(first, calls, found, start)
<1> DEFINE n == Len(calls)
           step == [x \in (1..n) \X Nat |-> x[2] + Len(Extract(found[x[1]], 0))]
<1>1. n \in Nat
  BY LenProperties
<1>2. ASSUME NEW i \in 1..n, NEW c \in Nat
      PROVE  step[<<i, c>>] = c + Len(Extract(found[i], 0)) /\ step[<<i, c>>] \in Nat
  <2>1. found[i] \in Nat
    OBVIOUS
  <2>2. Len(Extract(found[i], 0)) = TakenOf(found[i]) /\ TakenOf(found[i]) \in Nat
    BY <2>1, ExtractIs
  <2> QED  BY <2>2
<1> HIDE DEF step, n
<1>3. PICK f : Follows(f, step, start, n, Nat)
  <2>1. StepsIn(step, n, Nat)
    BY <1>2 DEF StepsIn
  <2> QED  BY <1>1, <2>1, Recursion
<1> DEFINE g == [i \in 1..(n + 1) |-> f[i - 1]]
<1>4. ASSUME NEW i \in 1..(n + 1)
      PROVE  g[i] = IF i = 1 THEN start ELSE g[i - 1] + Len(Extract(found[i - 1], 0))
  <2>1. CASE i = 1
    <3>1. g[i] = f[0]
      BY <1>1, <2>1
    <3> QED  BY <1>3, <2>1, <3>1 DEF Follows
  <2>2. CASE i # 1
    <3> DEFINE j == i - 1
    <3>1. j \in 1..n /\ j - 1 \in 0..n /\ j \in 1..(n + 1) /\ g[i] = f[j] /\ g[j] = f[j - 1]
      BY <1>1, <2>2
    <3> HIDE DEF j, g
    <3>2. f[j] = step[<<j, f[j - 1]>>] /\ f[j - 1] \in Nat
      BY <1>3, <3>1 DEF Follows
    <3>3. f[j] = f[j - 1] + Len(Extract(found[j], 0))
      BY <1>2, <3>1, <3>2
    <3> QED  BY <2>2, <3>1, <3>3 DEF j
  <2> QED  BY <2>1, <2>2
<1>5. Counts(g, calls, found, start)
  <2>1. g = [i \in 1..(n + 1) |-> g[i]]
    OBVIOUS
  <2> HIDE DEF g
  <2> QED  BY <1>4, <2>1 DEF Counts, n
<1> HIDE DEF g
<1> QED  BY <1>5

\* The results of an answer's calls.
LEMMA ResultsIs ==
  ASSUME WireAssumption, NEW calls \in Seq(Ident), NEW found, NEW first, NEW start \in Nat,
         \A i \in 1..Len(calls) : found[i] \in Nat, Counts(first, calls, found, start)
  PROVE  LET blocks == ResultBlocks(calls, found, first)
             end == first[Len(calls) + 1]
         IN /\ blocks \in Seq(Block)
            /\ Ids(blocks, "tool_use") = <<>> /\ Ids(blocks, "tool_result") = calls
            /\ end \in Nat /\ start <= end /\ Shots(blocks) = Run(start, end)
<1> DEFINE n == Len(calls)
           blocks == ResultBlocks(calls, found, first)
           of(i) == <<Text>> \o Extract(found[i], first[i])
           at == [i \in 0..n |-> first[i + 1]]
<1>1. n \in Nat /\ DOMAIN calls = 1..n /\ \A i \in 1..n : calls[i] \in Ident /\ found[i] \in Nat
  BY LenProperties, ElementOfSeq
<1> HIDE DEF n
<1>2. /\ first[1] = start
      /\ \A i \in 1..n : first[i + 1] = first[i] + Len(Extract(found[i], 0))
  <2>1. first = [i \in 1..(n + 1) |->
                  IF i = 1 THEN start ELSE first[i - 1] + Len(Extract(found[i - 1], 0))]
    BY DEF Counts, n
  <2>2. ASSUME NEW i \in 1..(n + 1)
        PROVE  first[i] = IF i = 1 THEN start ELSE first[i - 1] + Len(Extract(found[i - 1], 0))
    BY <2>1
  <2>3. first[1] = start
    <3>1. 1 \in 1..(n + 1)
      BY <1>1
    <3> QED  BY <2>2, <3>1
  <2>4. ASSUME NEW i \in 1..n
        PROVE  first[i + 1] = first[i] + Len(Extract(found[i], 0))
    <3>1. i + 1 \in 1..(n + 1) /\ i + 1 # 1 /\ (i + 1) - 1 = i
      BY <1>1
    <3> QED  BY <2>2, <3>1
  <2> QED  BY <2>3, <2>4
<1>3. \A i \in 1..n : TakenOf(found[i]) \in Nat /\ first[i + 1] = first[i] + TakenOf(found[i])
  BY <1>1, <1>2, ExtractIs
<1>4. \A i \in 0..n : first[i + 1] \in Nat
  <2> DEFINE G == {k \in 0..n : first[k + 1] \in Nat}
  <2>1. 0 \in G
    BY <1>1, <1>2
  <2>2. ASSUME NEW k \in 1..n, k - 1 \in G
        PROVE  k \in G
    <3>1. first[k] \in Nat /\ k \in 0..n
      <4>1. first[(k - 1) + 1] \in Nat /\ (k - 1) + 1 = k
        BY <1>1, <2>2
      <4> QED  BY <1>1, <4>1
    <3> QED  BY <1>3, <3>1
  <2> HIDE DEF G
  <2>3. \A k \in 0..n : k \in G
    BY <1>1, <2>1, <2>2, Reaches
  <2> QED  BY <2>3 DEF G
<1>5. ASSUME NEW i \in 1..n
      PROVE  first[i] \in Nat /\ first[i] <= first[i + 1]
  <2>1. first[(i - 1) + 1] \in Nat /\ (i - 1) + 1 = i
    <3>1. i - 1 \in 0..n
      BY <1>1
    <3> QED  BY <1>1, <1>4, <3>1
  <2> QED  BY <1>3, <2>1
<1>6. ASSUME NEW i \in 1..n
      PROVE  of(i) \in Seq(Bit) /\ FlattenSeq(BitsBy(of(i))) = Run(first[i], first[i + 1])
  <2>1. of(i) = <<Text>> \o Taken(TakenOf(found[i]), first[i])
    BY <1>1, <1>5, ExtractIs
  <2> QED  BY <1>3, <1>5, <2>1, ContentIs
<1>7. /\ blocks \in Seq(Block) /\ Len(blocks) = n
      /\ \A i \in 1..n : blocks[i].type = "tool_result" /\ blocks[i].id = calls[i]
                         /\ blocks[i].content = of(i)
  <2> DEFINE r(i) == [type |-> "tool_result", id |-> calls[i], content |-> of(i)]
  <2>1. blocks = [i \in 1..n |-> r(i)]
    BY <1>1 DEF ResultBlocks
  <2> HIDE DEF of, blocks
  <2>2. \A i : r(i).type = "tool_result" /\ r(i).id = calls[i] /\ r(i).content = of(i)
    OBVIOUS
  <2>3. ASSUME NEW i \in 1..n
        PROVE  r(i) \in Block
    <3>1. \A id \in Ident, c \in Seq(Bit) :
            [type |-> "tool_result", id |-> id, content |-> c] \in Block
      BY DEF Block, Outcome
    <3>2. of(i) \in Seq(Bit) /\ calls[i] \in Ident
      BY <1>1, <1>6
    <3> QED  BY <3>1, <3>2
  <2> HIDE DEF r
  <2>4. blocks \in Seq(Block) /\ Len(blocks) = n /\ \A i \in 1..n : blocks[i] = r(i)
    <3>1. n \in Nat
      BY <1>1
    <3>2. \A i \in 1..n : r(i) \in Block
      BY <2>3
    <3> QED  BY ONLY <2>1, <3>1, <3>2
  <2> QED  BY <2>2, <2>4
<1> HIDE DEF of, blocks
<1>8. Ids(blocks, "tool_use") = <<>> /\ Ids(blocks, "tool_result") = calls
  <2>1. \A i \in 1..Len(blocks) : blocks[i].type # "tool_use"
    BY <1>7
  <2>2. Ids(blocks, "tool_use") = <<>>
    BY <1>7, <2>1, NoIds
  <2>3. Len(blocks) = Len(calls)
        /\ \A i \in 1..Len(calls) : blocks[i].type = "tool_result" /\ blocks[i].id = calls[i]
    BY <1>7 DEF n
  <2>4. Ids(blocks, "tool_result") = calls
    BY <1>7, <2>3, AllIds
  <2> QED  BY <2>2, <2>4
<1>9. /\ SeenBy(blocks) \in Seq(Seq(Nat)) /\ Len(SeenBy(blocks)) = n
      /\ Shots(blocks) = FlattenSeq(SeenBy(blocks))
      /\ \A i \in 1..n : SeenBy(blocks)[i] = Run(first[i], first[i + 1])
  <2>1. ASSUME NEW i \in 1..n
        PROVE  Seen(blocks[i]) = Run(first[i], first[i + 1])
    BY <1>6, <1>7 DEF Seen, BitsBy
  <2> QED  BY <1>7, <2>1, SeenByType
<1> DEFINE s == SeenBy(blocks)
<1> HIDE DEF s
<1>10. s \in Seq(Seq(Nat)) /\ Len(s) = n /\ at \in [0..Len(s) -> Nat]
  BY <1>4, <1>9 DEF s
<1>11. ASSUME NEW i \in 1..Len(s)
       PROVE  at[i - 1] <= at[i] /\ s[i] = Run(at[i - 1], at[i])
  <2>1. i \in 1..n /\ at[i - 1] = first[i] /\ at[i] = first[i + 1]
    <3>1. i \in 1..n /\ i - 1 \in 0..n /\ i \in 0..n /\ (i - 1) + 1 = i
      BY <1>1, <1>10
    <3> QED  BY <3>1
  <2> QED  BY <1>5, <1>9, <2>1 DEF s
<1>12. at[0] = start /\ at[n] = first[n + 1]
  <2>1. 0 \in 0..n /\ n \in 0..n /\ 0 + 1 = 1
    BY <1>1
  <2>2. at[0] = first[0 + 1] /\ at[n] = first[n + 1]
    BY <2>1
  <2> QED  BY <1>2, <2>1, <2>2
<1>13. first[n + 1] \in Nat
  BY <1>1, <1>4
<1> HIDE DEF at
<1>14. at[0] <= at[Len(s)] /\ FlattenSeq(s) = Run(at[0], at[Len(s)])
  BY <1>10, <1>11, FlattenRuns
<1> QED  BY <1>7, <1>8, <1>9, <1>10, <1>12, <1>13, <1>14 DEF s, n, blocks

---------------------------------------------------------------------------
(* The ids of the calls *)

\* The function CallIds is defined by.
Gathers(upto, given) ==
  upto = [i \in 0..Len(given) |->
           IF i = 0 THEN <<>>
           ELSE Append(upto[i - 1], CallId(given[i], ToSet(upto[i - 1]), <<Len(conv) + 1, i>>))]

\* The ids of the first k calls: given, or made for one of these calls.
Gathered(u, k) ==
  /\ u \in Seq(Ident) /\ Len(u) = k /\ Distinct(u)
  /\ \A i \in 1..k : u[i] \in Given \/ \E j \in 1..k : u[i] = <<Len(conv) + 1, j>>

LEMMA CallIdIs ==
  ASSUME WireAssumption, Len(conv) \in Nat, NEW given, NEW n \in Nat, NEW i \in 1..n,
         given[i] \in Given \cup {<<0, 0>>}, NEW u
  PROVE  CallId(given[i], ToSet(u), <<Len(conv) + 1, i>>) \in Ident
<1>1. Given \subseteq Ident /\ <<Len(conv) + 1, i>> \in Ident
  BY DEF WireAssumption, Ident
<1> QED  BY <1>1 DEF CallId

LEMMA GathersExist ==
  ASSUME WireAssumption, Len(conv) \in Nat, NEW given \in Seq(Given \cup {<<0, 0>>})
  PROVE  \E upto : Gathers(upto, given)
<1> DEFINE n == Len(given)
           id(i, u) == CallId(given[i], ToSet(u), <<Len(conv) + 1, i>>)
           step == [x \in (1..n) \X Seq(Ident) |-> Append(x[2], id(x[1], x[2]))]
<1>1. n \in Nat /\ \A i \in 1..n : given[i] \in Given \cup {<<0, 0>>}
  BY LenProperties, ElementOfSeq
<1>2. \A i \in 1..n, u \in Seq(Ident) : id(i, u) \in Ident
  BY <1>1, CallIdIs
<1> HIDE DEF id, n
<1>3. \A i \in 1..n, u \in Seq(Ident) :
        step[<<i, u>>] = Append(u, id(i, u)) /\ step[<<i, u>>] \in Seq(Ident)
  BY <1>2
<1> HIDE DEF step
<1>4. PICK f : Follows(f, step, <<>>, n, Seq(Ident))
  <2>1. StepsIn(step, n, Seq(Ident)) /\ <<>> \in Seq(Ident)
    BY <1>3, EmptySeq DEF StepsIn
  <2> QED  BY <1>1, <2>1, Recursion
<1>5. ASSUME NEW i \in 0..n
      PROVE  f[i] = IF i = 0 THEN <<>> ELSE Append(f[i - 1], id(i, f[i - 1]))
  <2>1. CASE i = 0
    BY <1>4, <2>1 DEF Follows
  <2>2. CASE i # 0
    <3>1. i \in 1..n /\ i - 1 \in 0..n
      BY <1>1, <2>2
    <3>2. f[i] = step[<<i, f[i - 1]>>] /\ f[i - 1] \in Seq(Ident)
      BY <1>4, <3>1 DEF Follows
    <3> QED  BY <1>3, <2>2, <3>1, <3>2
  <2> QED  BY <2>1, <2>2
<1>6. f = [i \in 0..n |-> f[i]]
  BY <1>4 DEF Follows
<1>7. f = [i \in 0..n |-> IF i = 0 THEN <<>> ELSE Append(f[i - 1], id(i, f[i - 1]))]
  BY <1>5, <1>6
<1>8. Gathers(f, given)
  BY <1>7 DEF Gathers, id, n
<1> QED  BY <1>8

LEMMA OneMoreId ==
  ASSUME WireAssumption, Len(conv) \in Nat, NEW given \in Seq(Given \cup {<<0, 0>>}),
         NEW k \in 1..Len(given), NEW u, Gathered(u, k - 1)
  PROVE  Gathered(Append(u, CallId(given[k], ToSet(u), <<Len(conv) + 1, k>>)), k)
<1> DEFINE x == CallId(given[k], ToSet(u), <<Len(conv) + 1, k>>)
           t == Append(u, x)
<1>1. Len(given) \in Nat /\ k \in Nat
  BY LenProperties
<1>2. given[k] \in Given \cup {<<0, 0>>}
  BY ElementOfSeq
<1>3. x \in Ident
  BY <1>1, <1>2, CallIdIs
<1>4. x \in Given \/ x = <<Len(conv) + 1, k>>
  BY DEF CallId
<1>5. ASSUME NEW i \in 1..(k - 1)
      PROVE  u[i] # x
  <2>1. u[i] \in ToSet(u)
    <3>1. i \in DOMAIN u
      BY LenProperties DEF Gathered
    <3> QED  BY <3>1 DEF ToSet
  <2>2. CASE given[k] \in Given \ ToSet(u)
    BY <2>1, <2>2 DEF CallId
  <2>3. CASE given[k] \notin Given \ ToSet(u)
    <3>1. x = <<Len(conv) + 1, k>>
      BY <2>3 DEF CallId
    <3>2. u[i] \in Given => u[i] # <<Len(conv) + 1, k>>
      BY <1>1 DEF WireAssumption
    <3>3. \A j \in 1..(k - 1) : <<Len(conv) + 1, j>> # <<Len(conv) + 1, k>>
      BY <1>1
    <3> HIDE DEF x
    <3> QED  BY <3>1, <3>2, <3>3 DEF Gathered
  <2> QED  BY <2>2, <2>3
<1> HIDE DEF x
<1>6. /\ t \in Seq(Ident) /\ Len(t) = k /\ t[k] = x /\ \A i \in 1..(k - 1) : t[i] = u[i]
  BY <1>1, <1>3, AppendProperties DEF Gathered
<1>7. \A i \in 1..k : i = k \/ i \in 1..(k - 1)
  BY <1>1
<1> HIDE DEF t
<1>8. Distinct(t)
  <2>1. ASSUME NEW i \in 1..k, NEW j \in 1..k, i # j
        PROVE  t[i] # t[j]
    <3>1. CASE i = k
      BY <1>5, <1>6, <1>7, <2>1, <3>1
    <3>2. CASE j = k
      BY <1>5, <1>6, <1>7, <2>1, <3>2
    <3>3. CASE i \in 1..(k - 1) /\ j \in 1..(k - 1)
      BY <1>6, <2>1, <3>3 DEF Gathered, Distinct
    <3> QED  BY <1>7, <3>1, <3>2, <3>3
  <2> QED  BY <1>6, <2>1 DEF Distinct
<1>9. ASSUME NEW i \in 1..k
      PROVE  t[i] \in Given \/ \E j \in 1..k : t[i] = <<Len(conv) + 1, j>>
  <2>1. CASE i = k
    BY <1>4, <1>6, <2>1
  <2>2. CASE i \in 1..(k - 1)
    <3>1. u[i] \in Given \/ \E j \in 1..(k - 1) : u[i] = <<Len(conv) + 1, j>>
      BY <2>2 DEF Gathered
    <3>2. 1..(k - 1) \subseteq 1..k
      BY <1>1
    <3> QED  BY <1>6, <2>2, <3>1, <3>2
  <2> QED  BY <1>7, <2>1, <2>2
<1>10. Gathered(t, k)
  BY <1>6, <1>8, <1>9 DEF Gathered
<1> QED  BY <1>10 DEF t, x

\* Every call has an id of its own.
LEMMA CallIdsAre ==
  ASSUME WireAssumption, Len(conv) \in Nat, NEW given \in Seq(Given \cup {<<0, 0>>})
  PROVE  /\ CallIds(given) \in Seq(Ident) /\ Len(CallIds(given)) = Len(given)
         /\ Distinct(CallIds(given))
<1> DEFINE n == Len(given)
           upto == CHOOSE f : Gathers(f, given)
<1>1. n \in Nat
  BY LenProperties
<1>2. Gathers(upto, given)
  BY GathersExist
<1>3. CallIds(given) = upto[n]
  BY DEF CallIds, Gathers
<1> HIDE DEF upto
<1>4. ASSUME NEW i \in 0..n
      PROVE  upto[i] = IF i = 0 THEN <<>>
                       ELSE Append(upto[i - 1], CallId(given[i], ToSet(upto[i - 1]), <<Len(conv) + 1, i>>))
  BY <1>2 DEF Gathers
<1> DEFINE G == {k \in 0..n : Gathered(upto[k], k)}
<1>5. 0 \in G
  <2>1. 0 \in 0..n
    BY <1>1
  <2>2. upto[0] = <<>>
    BY <1>4, <2>1
  <2>3. Gathered(<<>>, 0)
    BY EmptySeq DEF Gathered, Distinct
  <2> QED  BY <2>1, <2>2, <2>3
<1>6. ASSUME NEW k \in 1..n, k - 1 \in G
      PROVE  k \in G
  <2>1. k \in 0..n /\ k # 0
    BY <1>1
  <2>2. upto[k] = Append(upto[k - 1], CallId(given[k], ToSet(upto[k - 1]), <<Len(conv) + 1, k>>))
    BY <1>4, <2>1
  <2>3. Gathered(upto[k - 1], k - 1)
    BY <1>6
  <2> QED  BY <2>1, <2>2, <2>3, OneMoreId
<1> HIDE DEF G
<1>7. n \in G
  BY <1>1, <1>5, <1>6, Reaches
<1> QED  BY <1>3, <1>7 DEF G, Gathered

---------------------------------------------------------------------------
(* The invariant *)

WireTypes ==
  /\ conv \in Seq(Message) /\ shots \in Nat
  /\ pc \in {"idle", "step", "sending", "asleep", "tools"}
  /\ attempt \in 0..Retries /\ asleep \in Nat

\* What has been slept was slept before the attempts made.
Slept == asleep <= attempt * Longest

\* Every message answers the one before it, and the last one waits for an
\* answer just while its calls run.
Answered == Paired(conv) /\ (pc = "tools" <=> Pending(conv) # <<>>)

\* The conversation shows the newest images, in the order they were taken, at
\* least as many as are kept; and just those when it is sent.
Shown ==
  /\ \E t \in 0..Cut(shots, MaxKept) : AllShots(conv) = Run(t, shots)
  /\ pc \in {"sending", "asleep"} => AllShots(conv) = Run(Cut(shots, MaxKept), shots)

\* What a session kept can take another turn.
SavedWell ==
  /\ saved.conv \in Seq(Message) /\ saved.shots \in Nat
  /\ Paired(saved.conv) /\ Pending(saved.conv) = <<>>
  /\ \E t \in 0..Cut(saved.shots, MaxKept) : AllShots(saved.conv) = Run(t, saved.shots)

WireInv == WireTypes /\ Slept /\ Answered /\ Shown

LEMMA WireInit ==
  ASSUME WireAssumption, Init
  PROVE  WireInv /\ SavedWell
<1>1. conv \in Seq(Message) /\ Len(conv) = 0 /\ conv = <<>>
  BY EmptySeq DEF Init
<1>2. WireTypes
  BY <1>1 DEF Init, WireTypes, WireAssumption
<1>3. Slept
  BY DEF Init, Slept, WireAssumption
<1>4. Answered
  BY <1>1 DEF Init, Answered, Paired, Pending
<1>5. Shown
  <2>1. AllShots(conv) = <<>>
    <3>1. ShotsBy(conv) \in Seq(Seq(Nat)) /\ Len(ShotsBy(conv)) = 0
          /\ AllShots(conv) = FlattenSeq(ShotsBy(conv))
      BY <1>1, MessageIs
    <3> QED  BY <3>1, EmptySeq, FlattenEmpty
  <2>2. shots = 0 /\ Run(0, 0) = <<>> /\ Cut(shots, MaxKept) = 0 /\ pc = "idle"
    <3>1. shots = 0 /\ pc = "idle"
      BY DEF Init
    <3> QED  BY <3>1, RunEmpty DEF Cut, WireAssumption
  <2> QED  BY <2>1, <2>2 DEF Shown
<1>6. SavedWell
  <2>1. saved.conv = conv /\ saved.shots = shots /\ pc = "idle"
    BY DEF Init
  <2> QED  BY <1>2, <1>4, <1>5, <2>1 DEF SavedWell, WireTypes, Answered, Shown
<1> QED  BY <1>2, <1>3, <1>4, <1>5, <1>6 DEF WireInv

LEMMA CutIs ==
  ASSUME WireAssumption, NEW e \in Nat
  PROVE  /\ Cut(e, MaxKept) \in Nat /\ Cut(e, MaxKept) <= e
         /\ \A d \in Nat : e <= d => Cut(e, MaxKept) <= Cut(d, MaxKept)
  BY DEF Cut, WireAssumption

\* A message more, with the images that were just taken.
LEMMA OneMoreMessage ==
  ASSUME WireAssumption, WireInv, NEW m \in Message, WellMade(m), Replies(m) = Pending(conv),
         conv' = Append(conv, m), shots' \in Nat, shots <= shots', Shots(m.blocks) = Run(shots, shots')
  PROVE  /\ conv' \in Seq(Message) /\ Paired(conv') /\ Pending(conv') = Calls(m)
         /\ \E t \in 0..Cut(shots', MaxKept) : AllShots(conv') = Run(t, shots')
<1>1. conv \in Seq(Message) /\ Paired(conv) /\ shots \in Nat
  BY DEF WireInv, WireTypes, Answered
<1>2. /\ conv' \in Seq(Message) /\ Paired(conv') /\ Pending(conv') = Calls(m)
      /\ AllShots(conv') = AllShots(conv) \o Run(shots, shots')
  BY <1>1, AppendPaired
<1>3. PICK t \in 0..Cut(shots, MaxKept) : AllShots(conv) = Run(t, shots)
  BY DEF WireInv, Shown
<1>4. /\ Cut(shots, MaxKept) \in Nat /\ Cut(shots, MaxKept) <= shots
      /\ Cut(shots', MaxKept) \in Nat /\ Cut(shots, MaxKept) <= Cut(shots', MaxKept)
  BY <1>1, CutIs
<1>5. t \in Nat /\ t <= shots /\ t \in 0..Cut(shots', MaxKept)
  BY <1>1, <1>3, <1>4
<1>6. Run(t, shots) \o Run(shots, shots') = Run(t, shots')
  BY <1>1, <1>5, RunJoins, ZenonT(60)
<1>7. AllShots(conv') = Run(t, shots')
  BY ONLY <1>2, <1>3, <1>6
<1> QED  BY <1>2, <1>5, <1>7

LEMMA AskStep ==
  ASSUME WireAssumption, WireInv, NEW found \in 0..MaxShots, NEW worded \in BOOLEAN, NEW m \in Written,
         Ask(found, worded, m)
  PROVE  WireInv'
<1> DEFINE words == IF worded THEN Text ELSE Blank
           blocks == Append(Taken(found, shots), words)
           msg == [role |-> "user", blocks |-> blocks]
<1>1. found \in Nat /\ shots \in Nat /\ Pending(conv) = <<>>
  BY DEF WireAssumption, WireInv, WireTypes, Ask, Answered
<1>2. /\ blocks \in Seq(Block) /\ (Shows(blocks) \/ blocks = <<Blank>>)
      /\ Ids(blocks, "tool_use") = <<>> /\ Ids(blocks, "tool_result") = <<>>
      /\ Shots(blocks) = Run(shots, shots + found)
  <2>1. words \in {Text, Blank}
    OBVIOUS
  <2> HIDE DEF words
  <2> QED  BY <1>1, <2>1, AskIs
<1>3. conv' = Append(conv, msg) /\ shots' = shots + found /\ pc' = "step"
      /\ attempt' = attempt /\ asleep' = asleep
  BY DEF Ask
<1> HIDE DEF blocks
<1>4. msg \in Message /\ msg.role = "user" /\ msg.blocks = blocks
  BY <1>2 DEF Message
<1> HIDE DEF msg
<1>5. WellMade(msg) /\ Replies(msg) = Pending(conv) /\ Calls(msg) = <<>>
  BY <1>1, <1>2, <1>4 DEF WellMade, Calls, Replies
<1>6. shots' \in Nat /\ shots <= shots' /\ Shots(msg.blocks) = Run(shots, shots')
  BY <1>1, <1>2, <1>3, <1>4
<1>7. /\ conv' \in Seq(Message) /\ Paired(conv') /\ Pending(conv') = <<>>
      /\ \E t \in 0..Cut(shots', MaxKept) : AllShots(conv') = Run(t, shots')
  BY <1>3, <1>4, <1>5, <1>6, OneMoreMessage
<1>8. WireTypes' /\ Slept'
  BY <1>3, <1>6, <1>7 DEF WireInv, WireTypes, Slept
<1> QED  BY <1>3, <1>7, <1>8 DEF WireInv, Answered, Shown

LEMMA StepLimitStep ==
  ASSUME WireAssumption, WireInv, StepLimit
  PROVE  WireInv'
<1>1. /\ pc = "step" /\ pc' = "idle" /\ attempt' = 0 /\ asleep' = 0
      /\ conv' = conv /\ shots' = shots
  BY DEF StepLimit, EndRun
<1>2. WireTypes' /\ Slept'
  BY <1>1 DEF WireInv, WireTypes, Slept, WireAssumption
<1> QED  BY <1>1, <1>2 DEF WireInv, Answered, Shown

LEMMA PrepareStep ==
  ASSUME WireAssumption, WireInv, Prepare
  PROVE  WireInv'
<1> DEFINE c == Cut(shots, MaxKept)
<1>1. /\ pc = "step" /\ pc' \in {"idle", "sending"} /\ conv' = Prune(conv, MaxKept) /\ shots' = shots
      /\ (attempt' = 0 /\ asleep' = 0) \/ (attempt' = attempt /\ asleep' = asleep)
  BY DEF Prepare, EndRun
<1>2. conv \in Seq(Message) /\ Paired(conv) /\ shots \in Nat /\ MaxKept \in Nat /\ Pending(conv) = <<>>
  BY <1>1 DEF WireInv, WireTypes, Answered, WireAssumption
<1>3. PICK t \in 0..c : AllShots(conv) = Run(t, shots)
  BY DEF WireInv, Shown
<1>4. c \in Nat /\ c <= shots
  BY <1>2, CutIs
<1> HIDE DEF c
<1>5. t \in Nat /\ t <= shots /\ Late(t, c) = c
  BY <1>2, <1>3, <1>4 DEF Late
<1>6. /\ conv' \in Seq(Message) /\ Paired(conv') /\ Pending(conv') = Pending(conv)
      /\ AllShots(conv') = Run(c, shots)
  <2>1. /\ Prune(conv, MaxKept) \in Seq(Message) /\ Paired(Prune(conv, MaxKept))
        /\ Pending(Prune(conv, MaxKept)) = Pending(conv)
        /\ AllShots(Prune(conv, MaxKept)) = Run(Late(t, c), shots)
    BY ONLY <1>2, <1>3, <1>5, PrunePaired DEF c
  <2> QED  BY ONLY <1>1, <1>5, <2>1
<1>7. WireTypes' /\ Slept'
  BY <1>1, <1>6, SMTT(30) DEF WireInv, WireTypes, Slept, WireAssumption
<1>8. Shown'
  <2>1. c \in 0..c
    BY <1>4
  <2> QED  BY <1>1, <1>6, <2>1 DEF Shown, c
<1> QED  BY <1>1, <1>2, <1>6, <1>7, <1>8 DEF WireInv, Answered

LEMMA DelayIs ==
  ASSUME WireAssumption, NEW n \in 0..Retries, NEW after
  PROVE  RetryDelay(n, after) \in 0..Longest
  BY DEF RetryDelay, WireAssumption

LEMMA SendStep ==
  ASSUME WireAssumption, WireInv, NEW transient \in BOOLEAN, NEW after \in Asked,
         SendWithRetries(transient, after)
  PROVE  WireInv'
<1>1. pc = "sending" /\ conv' = conv /\ shots' = shots
  BY DEF SendWithRetries
<1>2. attempt \in 0..Retries /\ asleep \in Nat /\ Longest \in Nat /\ Retries \in Nat
      /\ asleep <= attempt * Longest
  BY DEF WireInv, WireTypes, Slept, WireAssumption
<1>3. CASE transient /\ attempt < Retries
  <2>1. asleep' = asleep + RetryDelay(attempt, after) /\ attempt' = attempt + 1 /\ pc' = "asleep"
    BY <1>3 DEF SendWithRetries
  <2>2. RetryDelay(attempt, after) \in 0..Longest
    BY <1>2, DelayIs
  <2>3. (attempt + 1) * Longest = attempt * Longest + Longest
    BY <1>2
  <2>4. attempt' \in 0..Retries /\ asleep' \in Nat
    BY <1>2, <1>3, <2>1, <2>2
  <2>5. asleep' <= attempt' * Longest
    <3> DEFINE p == attempt * Longest
               d == RetryDelay(attempt, after)
    <3>1. p \in Nat /\ asleep <= p /\ d \in 0..Longest /\ attempt' * Longest = p + Longest
          /\ asleep' = asleep + d
      BY <1>2, <2>1, <2>2, <2>3
    <3> HIDE DEF p, d
    <3> QED  BY <1>2, <3>1
  <2> QED  BY <1>1, <2>1, <2>4, <2>5 DEF WireInv, WireTypes, Slept, Answered, Shown
<1>4. CASE ~(transient /\ attempt < Retries)
  <2>1. pc' = "idle" /\ attempt' = 0 /\ asleep' = 0
    BY <1>4 DEF SendWithRetries, EndRun
  <2>2. WireTypes' /\ Slept'
    BY <1>1, <1>2, <2>1 DEF WireInv, WireTypes, Slept
  <2> QED  BY <1>1, <2>1, <2>2 DEF WireInv, Answered, Shown
<1> QED  BY <1>3, <1>4

LEMMA WakeStep ==
  ASSUME WireInv, Wake
  PROVE  WireInv'
  BY DEF Wake, WireInv, WireTypes, Slept, Answered, Shown

LEMMA DroppedStep ==
  ASSUME WireAssumption, SavedWell, Dropped
  PROVE  WireInv'
<1>1. /\ pc' = "idle" /\ attempt' = 0 /\ asleep' = 0
      /\ conv' = saved.conv /\ shots' = saved.shots
  BY DEF Dropped
<1>2. WireTypes' /\ Slept'
  BY <1>1 DEF SavedWell, WireTypes, Slept, WireAssumption
<1>3. Answered' /\ Shown'
  BY <1>1 DEF SavedWell, Answered, Shown
<1> QED  BY <1>2, <1>3 DEF WireInv

\* A run that ended saved what it leaves; no other step does.
LEMMA SavedStep ==
  ASSUME SavedWell, [Next]_vars, WireInv'
  PROVE  SavedWell'
<1>1. saved' = saved \/ (pc' = "idle" /\ saved' = [conv |-> conv', shots |-> shots'])
  <2>1. CASE UNCHANGED vars
    BY <2>1 DEF vars
  <2>2. CASE Requests \/ StepLimit \/ Prepare
    BY <2>2 DEF Requests, Ask, StepLimit, Prepare, EndRun
  <2>3. CASE Sends \/ Wake \/ Dropped
    BY <2>3 DEF Sends, SendWithRetries, Wake, Dropped, EndRun
  <2>4. CASE Answers
    BY <2>4 DEF Answers, Complete, EndRun
  <2>5. CASE Results
    BY <2>5 DEF Results, Tools
  <2> QED  BY <2>1, <2>2, <2>3, <2>4, <2>5 DEF Next
<1>2. CASE saved' = saved
  BY <1>2 DEF SavedWell
<1>3. CASE pc' = "idle" /\ saved' = [conv |-> conv', shots |-> shots']
  <2>1. saved'.conv = conv' /\ saved'.shots = shots'
    BY <1>3
  <2>2. /\ conv' \in Seq(Message) /\ shots' \in Nat /\ Paired(conv') /\ Pending(conv') = <<>>
        /\ \E t \in 0..Cut(shots', MaxKept) : AllShots(conv') = Run(t, shots')
    BY <1>3 DEF WireInv, WireTypes, Answered, Shown
  <2> QED  BY <2>1, <2>2 DEF SavedWell
<1> QED  BY <1>1, <1>2, <1>3

LEMMA CompleteStep ==
  ASSUME WireAssumption, WireInv, NEW other \in BOOLEAN, NEW text \in BOOLEAN,
         NEW given \in SeqOf(Given \cup {<<0, 0>>}, MaxCalls), NEW stop,
         Complete(other, text, given, stop)
  PROVE  WireInv'
<1> DEFINE calls == CallIds(given)
           runs == StopReason(stop, calls) = "tool_use" /\ calls # <<>>
           kept == Replayable(other, text, calls, runs)
           msg == [role |-> "assistant", blocks |-> kept]
<1>1. /\ pc = "sending" /\ attempt' = 0 /\ asleep' = 0 /\ shots' = shots
      /\ conv' = IF kept = <<>> THEN conv ELSE Append(conv, msg)
      /\ pc' = IF runs THEN "tools" ELSE "idle"
  BY DEF Complete, EndRun
<1>2. /\ conv \in Seq(Message) /\ Len(conv) \in Nat /\ shots \in Nat /\ Pending(conv) = <<>>
      /\ AllShots(conv) = Run(Cut(shots, MaxKept), shots)
  <2>1. conv \in Seq(Message)
    BY DEF WireInv, WireTypes
  <2> QED  BY <1>1, <2>1, LenProperties DEF WireInv, WireTypes, Answered, Shown
<1>3. given \in Seq(Given \cup {<<0, 0>>}) /\ Len(given) <= MaxCalls
  <2>1. PICK m \in 0..MaxCalls : given \in [1..m -> Given \cup {<<0, 0>>}]
    BY DEF SeqOf
  <2>2. m \in Nat /\ m <= MaxCalls
    BY <2>1 DEF WireAssumption
  <2> QED  BY <2>1, <2>2
<1>4. calls \in Seq(Ident) /\ Len(calls) <= MaxCalls /\ Distinct(calls)
  BY <1>2, <1>3, CallIdsAre
<1> HIDE DEF calls
<1>5. runs \in BOOLEAN /\ (runs => calls # <<>>)
  OBVIOUS
<1> HIDE DEF runs
<1>6. /\ kept \in Seq(Block) /\ Shots(kept) = <<>> /\ Ids(kept, "tool_result") = <<>>
      /\ Ids(kept, "tool_use") = IF runs THEN calls ELSE <<>>
      /\ kept # <<>> => Says(kept) \/ Ids(kept, "tool_use") # <<>> \/ ToSet(kept) = {Other}
      /\ kept = <<>> => ~runs \/ calls = <<>>
  BY <1>4, <1>5, ReplayIs
<1> HIDE DEF kept
<1>7. CASE kept = <<>>
  <2>1. conv' = conv /\ shots' = shots /\ attempt' = 0 /\ asleep' = 0 /\ pc' = "idle" /\ pc = "sending"
    BY <1>1, <1>5, <1>6, <1>7
  <2>2. WireTypes' /\ Slept'
    BY <2>1 DEF WireInv, WireTypes, Slept, WireAssumption
  <2> QED  BY <2>1, <2>2 DEF WireInv, Answered, Shown
<1>8. CASE kept # <<>>
  <2>1. msg \in Message /\ msg.role = "assistant" /\ msg.blocks = kept
    BY <1>6 DEF Message
  <2> HIDE DEF msg
  <2>2. Distinct(<<>>) /\ Len(<<>>) = 0 /\ MaxCalls \in Nat
    BY EmptySeq DEF Distinct, WireAssumption
  <2>3. Calls(msg) = (IF runs THEN calls ELSE <<>>) /\ Replies(msg) = <<>>
    BY <1>6, <2>1 DEF Calls, Replies
  <2>4. Distinct(Calls(msg)) /\ Len(Calls(msg)) <= MaxCalls
    BY <1>4, <2>2, <2>3
  <2>5. Says(msg.blocks) \/ Calls(msg) # <<>> \/ ToSet(msg.blocks) = {Other}
    BY <1>6, <1>8, <2>1 DEF Calls
  <2>6. WellMade(msg)
    BY <1>6, <2>1, <2>3, <2>4, <2>5 DEF WellMade
  <2>7. Shots(msg.blocks) = Run(shots, shots') /\ shots' \in Nat /\ shots <= shots'
    BY <1>1, <1>2, <1>6, <2>1, RunEmpty
  <2>8. conv' = Append(conv, msg)
    BY <1>1, <1>8 DEF msg
  <2>9. Replies(msg) = Pending(conv)
    BY <1>2, <2>3
  <2>10. /\ conv' \in Seq(Message) /\ Paired(conv') /\ Pending(conv') = Calls(msg)
         /\ \E t \in 0..Cut(shots', MaxKept) : AllShots(conv') = Run(t, shots')
    BY <2>1, <2>6, <2>7, <2>8, <2>9, OneMoreMessage
  <2>11. pc' \in {"idle", "tools"} /\ (pc' = "tools" <=> Pending(conv') # <<>>)
    BY <1>1, <1>5, <2>3, <2>10
  <2>12. WireTypes' /\ Slept'
    BY <1>1, <1>2, <2>10, <2>11 DEF WireTypes, Slept, WireAssumption
  <2> QED  BY <2>10, <2>11, <2>12 DEF WireInv, Answered, Shown
<1> QED  BY <1>7, <1>8

LEMMA ToolsStep ==
  ASSUME WireAssumption, WireInv, NEW found \in [1..MaxCalls -> 0..MaxShots], NEW m, Tools(found, m)
  PROVE  WireInv'
<1> DEFINE calls == Ids(Last(conv).blocks, "tool_use")
           first == CHOOSE f : Counts(f, calls, found, shots)
           msg == [role |-> "user", blocks |-> ResultBlocks(calls, found, first)]
<1>1. /\ pc = "tools" /\ pc' = "step" /\ attempt' = attempt /\ asleep' = asleep
      /\ conv' = Append(conv, msg) /\ shots' = first[Len(calls) + 1]
  BY DEF Tools, Counts, ResultBlocks
<1>2. conv \in Seq(Message) /\ shots \in Nat /\ Paired(conv) /\ Pending(conv) # <<>>
  BY <1>1 DEF WireInv, WireTypes, Answered
<1>3. calls = Pending(conv) /\ conv # <<>>
  BY <1>2 DEF Pending, Last, Calls
<1>4. calls \in Seq(Ident) /\ Len(calls) <= MaxCalls
  <2>1. Len(conv) \in 1..Len(conv)
    BY <1>2, <1>3, LenProperties, EmptySeq
  <2> DEFINE last == conv[Len(conv)]
  <2>2. last \in Message /\ last.role \in {"user", "assistant"} /\ last.blocks \in Seq(Block) /\ WellMade(last)
    BY <1>2, <2>1, MessageIs DEF Paired
  <2>3. calls = Calls(last)
    BY <1>3 DEF Pending
  <2> HIDE DEF last, calls
  <2>4. calls \in Seq(Ident)
    BY <2>2, <2>3, IdsByType DEF Calls
  <2> QED  BY <1>2, <1>3, <2>2, <2>3, <2>4 DEF WellMade
<1>5. \A i \in 1..Len(calls) : found[i] \in Nat
  <2>1. Len(calls) \in Nat
    BY <1>4, LenProperties
  <2>2. \A i \in 1..Len(calls) : i \in 1..MaxCalls
    BY <1>4, <2>1 DEF WireAssumption
  <2> QED  BY <2>2 DEF WireAssumption
<1> HIDE DEF calls
<1>6. Counts(first, calls, found, shots)
  BY <1>2, <1>4, <1>5, CountsExist
<1> HIDE DEF first
<1> DEFINE blocks == ResultBlocks(calls, found, first)
<1>7. /\ blocks \in Seq(Block)
      /\ Ids(blocks, "tool_use") = <<>> /\ Ids(blocks, "tool_result") = calls
      /\ shots' \in Nat /\ shots <= shots' /\ Shots(blocks) = Run(shots, shots')
  BY ONLY WireAssumption, <1>1, <1>2, <1>4, <1>5, <1>6, ResultsIs, SMTT(30)
<1> HIDE DEF blocks
<1>8. msg \in Message /\ msg.role = "user" /\ msg.blocks = blocks
  BY <1>7 DEF Message, blocks
<1> HIDE DEF msg
<1>9. Calls(msg) = <<>> /\ Replies(msg) = calls
  BY <1>7, <1>8 DEF Calls, Replies
<1>10. WellMade(msg) /\ Replies(msg) = Pending(conv)
  BY <1>2, <1>3, <1>8, <1>9 DEF WellMade
<1>11. Shots(msg.blocks) = Run(shots, shots')
  BY <1>7, <1>8
<1>12. /\ conv' \in Seq(Message) /\ Paired(conv') /\ Pending(conv') = <<>>
       /\ \E t \in 0..Cut(shots', MaxKept) : AllShots(conv') = Run(t, shots')
  BY <1>1, <1>7, <1>8, <1>9, <1>10, <1>11, OneMoreMessage
<1>13. WireTypes' /\ Slept'
  BY <1>1, <1>7, <1>12 DEF WireInv, WireTypes, Slept
<1> QED  BY <1>1, <1>12, <1>13 DEF WireInv, Answered, Shown

LEMMA WireStep ==
  ASSUME WireAssumption, WireInv, SavedWell, [Next]_vars
  PROVE  WireInv'
<1>1. CASE Requests
  BY <1>1, AskStep DEF Requests
<1>2. CASE StepLimit
  BY <1>2, StepLimitStep
<1>3. CASE Prepare
  BY <1>3, PrepareStep
<1>4. CASE Sends
  BY <1>4, SendStep DEF Sends
<1>5. CASE Wake
  BY <1>5, WakeStep
<1>6. CASE Answers
  BY <1>6, CompleteStep DEF Answers
<1>9. CASE Dropped
  BY <1>9, DroppedStep
<1>7. CASE Results
  BY <1>7, ToolsStep DEF Results
<1>8. CASE UNCHANGED vars
  BY <1>8 DEF vars, WireInv, WireTypes, Slept, Answered, Shown
<1> QED  BY <1>1, <1>2, <1>3, <1>4, <1>5, <1>6, <1>7, <1>8, <1>9 DEF Next

LEMMA WireHolds == Spec => []WireInv
<1>1. Init => WireInv /\ SavedWell
  BY WireInit, WireAssumption
<1>2. WireInv /\ SavedWell /\ [Next]_vars => (WireInv /\ SavedWell)'
  BY WireStep, SavedStep, WireAssumption
<1> QED  BY <1>1, <1>2, PTL DEF Spec

---------------------------------------------------------------------------
(* Patience *)

\* However a provider misbehaves, one completion sleeps no longer than its
\* retries times the longest retry-after that is honoured, whatever these are
\* (provider.rs:112).
THEOREM WirePatience == Spec => []PatienceBounded
<1>1. WireInv => PatienceBounded
  <2> SUFFICES ASSUME WireInv
               PROVE  PatienceBounded
    OBVIOUS
  <2> DEFINE d == Retries - attempt
             p == attempt * Longest
             q == d * Longest
  <2>1. attempt \in Nat /\ d \in Nat /\ attempt + d = Retries /\ Longest \in Nat /\ asleep <= p /\ asleep \in Nat
    BY WireAssumption DEF WireInv, WireTypes, Slept, WireAssumption
  <2>2. (attempt + d) * Longest = p + q
    BY <2>1
  <2>3. p \in Nat /\ q \in Nat
    BY <2>1
  <2> HIDE DEF d, p, q
  <2>4. Retries * Longest = p + q
    BY <2>1, <2>2
  <2> QED  BY <2>1, <2>3, <2>4 DEF PatienceBounded
<1> QED  BY <1>1, WireHolds, PTL

---------------------------------------------------------------------------
(* The entries of a request *)

Wired ==
  [role : {"user", "assistant", "tool"}, text : BOOLEAN,
   calls : Seq(Ident), answers : Seq(Ident), shots : Seq(Nat)]

\* What is shown by each entry, and what each entry answers.
ShownBy(es) == [p \in DOMAIN es |-> es[p].shots]

LEMMA ShownByType ==
  ASSUME NEW es \in Seq(Wired)
  PROVE  /\ ShownBy(es) \in Seq(Seq(Nat)) /\ Len(ShownBy(es)) = Len(es)
         /\ \A p \in 1..Len(es) : ShownBy(es)[p] = es[p].shots
<1>1. Len(es) \in Nat /\ DOMAIN es = 1..Len(es)
  BY LenProperties
<1>2. \A p \in 1..Len(es) : es[p].shots \in Seq(Nat)
  <2>1. \A e \in Wired : e.shots \in Seq(Nat)
    BY DEF Wired
  <2> QED  BY <2>1, ElementOfSeq
<1> DEFINE of(p) == es[p].shots
<1>3. ShownBy(es) = [p \in 1..Len(es) |-> of(p)] /\ \A p \in 1..Len(es) : of(p) \in Seq(Nat)
  BY <1>1, <1>2 DEF ShownBy
<1> HIDE DEF of
<1>4. /\ ShownBy(es) \in Seq(Seq(Nat)) /\ Len(ShownBy(es)) = Len(es)
      /\ \A p \in 1..Len(es) : ShownBy(es)[p] = of(p)
  BY ONLY <1>1, <1>3
<1> QED  BY <1>4 DEF of

LEMMA ShownByJoined ==
  ASSUME NEW s \in Seq(Wired), NEW t \in Seq(Wired)
  PROVE  ShownBy(s \o t) = ShownBy(s) \o ShownBy(t)
<1> DEFINE a == ShownBy(s)
           b == ShownBy(t)
           all == s \o t
           c == ShownBy(all)
<1>1. /\ all \in Seq(Wired) /\ Len(s) \in Nat /\ Len(t) \in Nat /\ Len(all) = Len(s) + Len(t)
      /\ \A i \in 1..Len(s) : all[i] = s[i]
      /\ \A i \in 1..Len(t) : all[Len(s) + i] = t[i]
  BY Joined
<1> HIDE DEF all
<1>2. /\ a \in Seq(Seq(Nat)) /\ Len(a) = Len(s) /\ \A i \in 1..Len(s) : a[i] = s[i].shots
      /\ b \in Seq(Seq(Nat)) /\ Len(b) = Len(t) /\ \A i \in 1..Len(t) : b[i] = t[i].shots
      /\ c \in Seq(Seq(Nat)) /\ Len(c) = Len(all) /\ \A i \in 1..Len(all) : c[i] = all[i].shots
  BY <1>1, ShownByType
<1> HIDE DEF a, b, c
<1>3. /\ a \o b \in Seq(Seq(Nat)) /\ Len(a \o b) = Len(s) + Len(t)
      /\ \A i \in 1..Len(s) : (a \o b)[i] = a[i]
      /\ \A i \in 1..Len(t) : (a \o b)[Len(s) + i] = b[i]
  <2>1. a \in Seq(Seq(Nat)) /\ b \in Seq(Seq(Nat)) /\ Len(a) = Len(s) /\ Len(b) = Len(t)
    BY <1>2
  <2>2. /\ a \o b \in Seq(Seq(Nat)) /\ Len(a \o b) = Len(a) + Len(b)
        /\ \A i \in 1..Len(a) : (a \o b)[i] = a[i]
        /\ \A i \in 1..Len(b) : (a \o b)[Len(a) + i] = b[i]
    <3>1. a \in Seq(Seq(Nat)) /\ b \in Seq(Seq(Nat))
      BY <2>1
    <3> QED  BY <3>1, Joined
  <2> DEFINE j == a \o b
  <2> HIDE DEF j
  <2>3. /\ j \in Seq(Seq(Nat)) /\ Len(j) = Len(a) + Len(b)
        /\ \A i \in 1..Len(a) : j[i] = a[i]
        /\ \A i \in 1..Len(b) : j[Len(a) + i] = b[i]
    BY <2>2 DEF j
  <2>4. /\ j \in Seq(Seq(Nat)) /\ Len(j) = Len(s) + Len(t)
        /\ \A i \in 1..Len(s) : j[i] = a[i]
        /\ \A i \in 1..Len(t) : j[Len(s) + i] = b[i]
    BY ONLY <2>1, <2>3
  <2> QED  BY <2>4 DEF j
<1>4. ASSUME NEW i \in 1..(Len(s) + Len(t))
      PROVE  c[i] = (a \o b)[i]
  <2>1. CASE i <= Len(s)
    <3>1. i \in 1..Len(s) /\ i \in 1..Len(all)
      BY <1>1, <2>1
    <3>2. c[i] = all[i].shots /\ all[i] = s[i]
      BY ONLY <1>1, <1>2, <3>1
    <3>3. (a \o b)[i] = s[i].shots
      BY ONLY <1>2, <1>3, <3>1
    <3> QED  BY ONLY <3>2, <3>3
  <2>2. CASE ~(i <= Len(s))
    <3>1. PICK j \in 1..Len(t) : i = Len(s) + j
      <4>1. i - Len(s) \in 1..Len(t) /\ i = Len(s) + (i - Len(s))
        BY <1>1, <2>2
      <4> QED  BY <4>1
    <3>2. i \in 1..Len(all)
      BY <1>1
    <3>3. c[i] = all[i].shots /\ all[i] = t[j]
      BY ONLY <1>1, <1>2, <3>1, <3>2
    <3>4. (a \o b)[i] = t[j].shots
      BY ONLY <1>2, <1>3, <3>1
    <3> QED  BY ONLY <3>3, <3>4
  <2> QED  BY <2>1, <2>2
<1>5. c = a \o b
  BY <1>1, <1>2, <1>3, <1>4, SeqEqual
<1> QED  BY <1>5 DEF a, b, c, all

\* What the parts of a request show is what the request shows.
LEMMA FlattenTwice ==
  ASSUME NEW parts \in Seq(Seq(Wired)), NEW s \in Seq(Seq(Nat)), Len(s) = Len(parts),
         \A i \in 1..Len(s) : FlattenSeq(ShownBy(parts[i])) = s[i]
  PROVE  FlattenSeq(ShownBy(FlattenSeq(parts))) = FlattenSeq(s)
<1> DEFINE n == Len(s)
           shown(k) == FlattenSeq(ShownBy(FlattenSeq(Start(parts, k))))
           G == {k \in 0..n : shown(k) = FlattenSeq(Start(s, k))}
<1>1. n \in Nat /\ n = Len(parts)
  BY LenProperties
<1>2. 0 \in G
  <2>1. Start(parts, 0) = <<>> /\ Start(s, 0) = <<>>
    BY Starts
  <2>2. ShownBy(<<>>) = <<>>
    <3>1. <<>> \in Seq(Wired) /\ Len(<<>>) = 0
      BY EmptySeq
    <3>2. ShownBy(<<>>) \in Seq(Seq(Nat)) /\ Len(ShownBy(<<>>)) = 0
      BY <3>1, ShownByType
    <3> QED  BY <3>2, EmptySeq
  <2>3. shown(0) = <<>> /\ FlattenSeq(Start(s, 0)) = <<>>
    BY <2>1, <2>2, FlattenEmpty
  <2> QED  BY <1>1, <2>3
<1>3. ASSUME NEW k \in 1..n, k - 1 \in G
      PROVE  k \in G
  <2> DEFINE u == FlattenSeq(Start(parts, k - 1))
             x == parts[k]
  <2>1. /\ FlattenSeq(Start(parts, k)) = u \o x /\ u \in Seq(Wired) /\ x \in Seq(Wired)
    BY <1>1, FlattenStart
  <2>2. FlattenSeq(Start(s, k)) = FlattenSeq(Start(s, k - 1)) \o s[k]
    BY FlattenStart
  <2>3. FlattenSeq(ShownBy(u)) = FlattenSeq(Start(s, k - 1)) /\ k \in 0..n
    BY <1>1, <1>3
  <2>4. FlattenSeq(ShownBy(x)) = s[k]
    OBVIOUS
  <2> HIDE DEF u, x
  <2>5. ShownBy(u \o x) = ShownBy(u) \o ShownBy(x)
    BY <2>1, ShownByJoined
  <2>6. ShownBy(u) \in Seq(Seq(Nat)) /\ ShownBy(x) \in Seq(Seq(Nat))
    BY <2>1, ShownByType
  <2>7. FlattenSeq(ShownBy(u) \o ShownBy(x)) = FlattenSeq(ShownBy(u)) \o FlattenSeq(ShownBy(x))
    BY <2>6, FlattenConcat
  <2>8. shown(k) = FlattenSeq(Start(s, k))
    BY <2>1, <2>2, <2>3, <2>4, <2>5, <2>7
  <2> QED  BY <2>3, <2>8
<1> HIDE DEF G
<1>4. n \in G
  BY <1>1, <1>2, <1>3, Reaches
<1>5. Start(s, n) = s /\ Start(parts, n) = parts
  BY <1>1, Starts
<1> QED  BY <1>4, <1>5 DEF G

LEMMA HoldsText ==
  ASSUME NEW e, e.text = TRUE
  PROVE  HoldsSome(e)
  BY Zenon DEF HoldsSome

LEMMA SaysBoolean == \A blocks : Says(blocks) \in BOOLEAN
  BY DEF Says

\* The parts of a request in Chat Completions' format.
AssistantPart(m, part) ==
  /\ Len(part) = 1 /\ part[1].calls = Calls(m) /\ part[1].answers = <<>>
  /\ ToSet(m.blocks) # {Other} => HoldsSome(part[1])

UserPart(m, part) ==
  /\ Len(part) \in {Len(Replies(m)), Len(Replies(m)) + 1}
  /\ \A j \in 1..Len(part) :
       /\ m.blocks # <<Blank>> => HoldsSome(part[j])
       /\ part[j].calls = <<>>
       /\ part[j].answers = IF j <= Len(Replies(m)) THEN <<Replies(m)[j]>> ELSE <<>>

LEMMA AssistantPartIs ==
  ASSUME NEW m \in Message, WellMade(m), m.role = "assistant"
  PROVE  /\ ToOpenAi(m) \in Seq(Wired) /\ AssistantPart(m, ToOpenAi(m))
         /\ FlattenSeq(ShownBy(ToOpenAi(m))) = Shots(m.blocks)
<1> DEFINE e == Entry("assistant", Says(m.blocks), Calls(m), <<>>, <<>>)
           part == ToOpenAi(m)
<1>1. m.blocks \in Seq(Block) /\ Calls(m) \in Seq(Ident) /\ Shots(m.blocks) = <<>>
      /\ Says(m.blocks) \in BOOLEAN
  <2>1. m.blocks \in Seq(Block)
    BY DEF Message
  <2> QED  BY <2>1, SaysBoolean, IdsByType DEF Calls, WellMade
<1>2. part = <<e>>
  BY DEF ToOpenAi, Calls
<1>3. /\ e \in Wired /\ e.text = Says(m.blocks) /\ e.calls = Calls(m) /\ e.answers = <<>> /\ e.shots = <<>>
  <2>1. <<>> \in Seq(Ident) /\ <<>> \in Seq(Nat) /\ "assistant" \in {"user", "assistant", "tool"}
    BY EmptySeq
  <2>2. e \in Wired /\ e.calls = Calls(m) /\ e.answers = <<>> /\ e.shots = <<>>
    BY <1>1, <2>1 DEF Entry, Wired
  <2>3. e.text = Says(m.blocks)
    BY Zenon DEF Entry
  <2> QED  BY <2>2, <2>3, Zenon
<1> HIDE DEF e, part
<1>4. ASSUME ToSet(m.blocks) # {Other}
      PROVE  HoldsSome(e)
  <2>1. CASE Says(m.blocks)
    <3>1. Says(m.blocks) = TRUE
      BY <1>1, <2>1
    <3> QED  BY <1>3, <3>1, HoldsText
  <2>2. CASE ~Says(m.blocks)
    BY <1>3, <1>4, <2>2 DEF HoldsSome, WellMade
  <2> QED  BY <2>1, <2>2
<1>5. part \in Seq(Wired) /\ Len(part) = 1 /\ part[1] = e
  BY <1>2, <1>3
<1>6. FlattenSeq(ShownBy(part)) = <<>>
  <2>1. ShownBy(part) \in Seq(Seq(Nat)) /\ \A i \in 1..Len(ShownBy(part)) : ShownBy(part)[i] = <<>>
    BY <1>3, <1>5, ShownByType
  <2> QED  BY <2>1, FlattenNone
<1> QED  BY <1>1, <1>3, <1>4, <1>5, <1>6 DEF AssistantPart, part

LEMMA UserPartIs ==
  ASSUME NEW m \in Message, WellMade(m), m.role = "user"
  PROVE  /\ ToOpenAi(m) \in Seq(Wired) /\ UserPart(m, ToOpenAi(m)) /\ Len(ToOpenAi(m)) # 0
         /\ FlattenSeq(ShownBy(ToOpenAi(m))) = Shots(m.blocks)
<1> DEFINE a == Replies(m)
           n == Len(a)
           seen == Shots(m.blocks)
           tool(i) == Entry("tool", TRUE, <<>>, <<a[i]>>, <<>>)
           tools == [i \in DOMAIN a |-> tool(i)]
           worded == Says(m.blocks) \/ a # <<>>
           blank == m.blocks = <<Blank>>
           user == Entry("user", worded, <<>>, <<>>, seen)
           rest == IF seen = <<>> /\ ~Says(m.blocks) /\ ~blank THEN <<>> ELSE <<user>>
           part == ToOpenAi(m)
<1>1. a \in Seq(Ident) /\ seen \in Seq(Nat) /\ n \in Nat /\ DOMAIN a = 1..n
      /\ (Says(m.blocks) \/ seen # <<>> \/ blank \/ n # 0)
  <2>1. m.blocks \in Seq(Block)
    BY DEF Message
  <2>2. a \in Seq(Ident) /\ seen \in Seq(Nat)
    BY <2>1, IdsByType, SeenByType DEF Replies
  <2>3. Shows(m.blocks) => Says(m.blocks) \/ seen # <<>>
    BY <2>1, ShowsIs
  <2> QED  BY <2>2, <2>3, LenProperties, EmptySeq DEF WellMade
<1>2. part = tools \o rest
  BY DEF ToOpenAi, Replies
<1>3. <<>> \in Seq(Ident) /\ <<>> \in Seq(Nat) /\ <<>> \in Seq(Wired) /\ TRUE \in BOOLEAN
      /\ "tool" \in {"user", "assistant", "tool"} /\ "user" \in {"user", "assistant", "tool"}
  BY EmptySeq
<1>4. ASSUME NEW i \in 1..n
      PROVE  /\ tool(i) \in Wired /\ HoldsSome(tool(i)) /\ tool(i).calls = <<>>
             /\ tool(i).answers = <<a[i]>> /\ tool(i).shots = <<>>
  <2>1. <<a[i]>> \in Seq(Ident)
    <3>1. a[i] \in Ident
      BY <1>1, ElementOfSeq
    <3> QED  BY <3>1
  <2>2. /\ tool(i) \in Wired /\ tool(i).text = TRUE /\ tool(i).calls = <<>>
        /\ tool(i).answers = <<a[i]>> /\ tool(i).shots = <<>>
    BY <1>3, <2>1 DEF Entry, Wired
  <2> HIDE DEF tool
  <2> QED  BY <2>2, HoldsText
<1>5. /\ user \in Wired /\ user.calls = <<>> /\ user.answers = <<>> /\ user.shots = seen
      /\ Says(m.blocks) \/ seen # <<>> => HoldsSome(user)
  <2>1. worded \in BOOLEAN /\ (Says(m.blocks) => worded = TRUE)
    BY SaysBoolean
  <2> HIDE DEF worded
  <2>2. /\ user \in Wired /\ user.calls = <<>> /\ user.answers = <<>> /\ user.shots = seen
    BY <1>1, <1>3, <2>1 DEF Entry, Wired
  <2>3. user.text = worded
    BY Zenon DEF Entry
  <2> HIDE DEF user
  <2>4. Says(m.blocks) => HoldsSome(user)
    BY <2>1, <2>3, HoldsText
  <2>5. seen # <<>> => HoldsSome(user)
    BY <2>2 DEF HoldsSome
  <2> QED  BY <2>2, <2>4, <2>5
<1> HIDE DEF tool, user, seen, a, part, n, worded
<1>6. tools \in Seq(Wired) /\ Len(tools) = n /\ \A i \in 1..n : tools[i] = tool(i)
  <2>1. tools = [i \in 1..n |-> tool(i)] /\ n \in Nat
    BY <1>1
  <2>2. \A i \in 1..n : tool(i) \in Wired
    BY <1>4
  <2> HIDE DEF tools
  <2> QED  BY ONLY <2>1, <2>2
<1>7. /\ rest \in Seq(Wired) /\ Len(rest) \in {0, 1} /\ \A i \in 1..Len(rest) : rest[i] = user
      /\ Says(m.blocks) \/ seen # <<>> \/ blank => Len(rest) = 1
      /\ Len(rest) = 0 => seen = <<>>
      /\ Len(rest) = 1 => blank \/ HoldsSome(user)
  <2> HIDE DEF blank
  <2>1. CASE seen = <<>> /\ ~Says(m.blocks) /\ ~blank
    BY <1>3, <2>1
  <2>2. CASE ~(seen = <<>> /\ ~Says(m.blocks) /\ ~blank)
    BY <1>5, <2>2
  <2> QED  BY <2>1, <2>2
<1> HIDE DEF tools, rest
<1>8. /\ part \in Seq(Wired) /\ Len(part) = n + Len(rest)
      /\ \A i \in 1..n : part[i] = tool(i)
      /\ Len(rest) = 1 => part[n + 1] = user
  <2>1. tools \in Seq(Wired) /\ rest \in Seq(Wired)
    BY <1>6, <1>7
  <2>2. /\ tools \o rest \in Seq(Wired) /\ Len(tools \o rest) = Len(tools) + Len(rest)
        /\ \A i \in 1..Len(tools) : (tools \o rest)[i] = tools[i]
        /\ \A i \in 1..Len(rest) : (tools \o rest)[Len(tools) + i] = rest[i]
    BY ONLY <2>1, Joined
  <2>3. part \in Seq(Wired) /\ Len(part) = n + Len(rest)
    BY <1>2, <1>6, <2>2
  <2>4. ASSUME NEW i \in 1..n
        PROVE  part[i] = tool(i)
    BY <1>2, <1>6, <2>2
  <2>5. ASSUME Len(rest) = 1
        PROVE  part[n + 1] = user
    <3>1. 1 \in 1..Len(rest)
      BY <2>5
    <3>2. (tools \o rest)[Len(tools) + 1] = rest[1] /\ rest[1] = user
      BY <1>7, <2>2, <3>1
    <3> QED  BY <1>2, <1>6, <3>2
  <2> QED  BY <2>3, <2>4, <2>5
<1>9. UserPart(m, part) /\ Len(part) # 0
  <2>1. Len(part) \in {n, n + 1} /\ Len(part) # 0
    <3>1. n \in Nat /\ Len(rest) \in {0, 1} /\ Len(part) = n + Len(rest)
      BY <1>1, <1>7, <1>8
    <3>2. n # 0 \/ Len(rest) = 1
      BY <1>1, <1>7
    <3> DEFINE r == Len(rest)
               l == Len(part)
    <3>3. n \in Nat /\ (r = 0 \/ r = 1) /\ l = n + r /\ (n # 0 \/ r = 1)
      BY <3>1, <3>2
    <3> HIDE DEF r, l
    <3>4. l \in {n, n + 1} /\ l # 0
      BY ONLY <3>3
    <3> QED  BY <3>4 DEF l
  <2>2. ASSUME NEW j \in 1..Len(part)
        PROVE  /\ ~blank => HoldsSome(part[j])
               /\ part[j].calls = <<>>
               /\ part[j].answers = IF j <= n THEN <<a[j]>> ELSE <<>>
    <3>1. CASE j <= n
      <4>1. j \in 1..n /\ part[j] = tool(j)
        BY <1>1, <1>8, <3>1
      <4> QED  BY <1>4, <3>1, <4>1
    <3>2. CASE ~(j <= n)
      <4>1. n \in Nat /\ Len(rest) \in {0, 1} /\ Len(part) = n + Len(rest)
        BY <1>1, <1>7, <1>8
      <4> DEFINE r == Len(rest)
                 l == Len(part)
      <4> HIDE DEF r, l
      <4>2. n \in Nat /\ (r = 0 \/ r = 1) /\ l = n + r /\ j \in 1..l /\ ~(j <= n)
        BY <3>2, <4>1 DEF r, l
      <4>3. j = n + 1 /\ r = 1
        BY ONLY <4>2
      <4>4. part[j] = user
        BY <1>8, <4>3 DEF r
      <4> QED  BY <1>5, <1>7, <3>2, <4>3, <4>4 DEF r
    <3> QED  BY <3>1, <3>2
  <2> QED  BY <2>1, <2>2 DEF UserPart, n, a
<1>10. FlattenSeq(ShownBy(part)) = seen
  <2>1. ShownBy(part) = ShownBy(tools) \o ShownBy(rest)
    BY <1>2, <1>6, <1>7, ShownByJoined
  <2>2. ShownBy(tools) \in Seq(Seq(Nat)) /\ ShownBy(rest) \in Seq(Seq(Nat))
    BY <1>6, <1>7, ShownByType
  <2>3. FlattenSeq(ShownBy(tools)) = <<>>
    <3>1. \A i \in 1..Len(ShownBy(tools)) : ShownBy(tools)[i] = <<>>
      <4>1. tools \in Seq(Wired)
        BY <1>6
      <4>2. Len(ShownBy(tools)) = n /\ \A i \in 1..n : ShownBy(tools)[i] = tools[i].shots
        BY <1>6, <4>1, ShownByType
      <4> QED  BY <1>4, <1>6, <4>2
    <3> QED  BY <2>2, <3>1, FlattenNone
  <2>4. FlattenSeq(ShownBy(rest)) = seen
    <3>1. CASE Len(rest) = 0
      <4>1. Len(ShownBy(rest)) = 0 /\ ShownBy(rest) = <<>>
        BY <1>7, <2>2, <3>1, ShownByType, EmptySeq
      <4> QED  BY <1>7, <3>1, <4>1, FlattenEmpty
    <3>2. CASE Len(rest) = 1
      <4> DEFINE one == <<seen>>
      <4>1. ShownBy(rest) \in Seq(Seq(Nat)) /\ Len(ShownBy(rest)) = 1 /\ ShownBy(rest)[1] = seen
        BY <1>5, <1>7, <3>2, ShownByType
      <4>2. one \in Seq(Seq(Nat)) /\ Len(one) = 1 /\ one[1] = seen
        BY <1>1
      <4>3. FlattenSeq(one) = seen
        BY <1>1, FlattenOne
      <4> HIDE DEF one
      <4>4. \A i \in 1..1 : ShownBy(rest)[i] = one[i]
        BY <4>1, <4>2
      <4>5. ShownBy(rest) = one
        BY <4>1, <4>2, <4>4, SeqEqual
      <4> QED  BY <4>3, <4>5
    <3> QED  BY <1>7, <3>1, <3>2
  <2>5. FlattenSeq(ShownBy(tools) \o ShownBy(rest)) = FlattenSeq(ShownBy(tools)) \o FlattenSeq(ShownBy(rest))
    BY <2>2, FlattenConcat
  <2>6. <<>> \o seen = seen
    BY <1>1, ConcatEmptySeq
  <2> QED  BY <2>1, <2>3, <2>4, <2>5, <2>6
<1> QED  BY <1>8, <1>9, <1>10 DEF part, seen

---------------------------------------------------------------------------
(* The images of a request *)

Parts == [i \in DOMAIN conv |-> ToOpenAi(conv[i])]

LEMMA ConvIs ==
  ASSUME WireInv
  PROVE  /\ conv \in Seq(Message) /\ Len(conv) \in Nat /\ DOMAIN conv = 1..Len(conv)
         /\ \A i \in 1..Len(conv) : /\ conv[i] \in Message /\ conv[i].role \in {"user", "assistant"}
                                    /\ conv[i].blocks \in Seq(Block) /\ WellMade(conv[i])
<1>1. conv \in Seq(Message) /\ \A i \in 1..Len(conv) : WellMade(conv[i])
  BY DEF WireInv, WireTypes, Answered, Paired
<1> QED  BY <1>1, MessageIs

LEMMA PartsAre ==
  ASSUME WireInv
  PROVE  /\ Parts \in Seq(Seq(Wired)) /\ Len(Parts) = Len(conv)
         /\ \A i \in 1..Len(conv) :
              /\ FlattenSeq(ShownBy(Parts[i])) = Shots(conv[i].blocks)
              /\ Parts[i] \in Seq(Wired) /\ Len(Parts[i]) \in Nat \ {0}
              /\ conv[i].role = "assistant" => AssistantPart(conv[i], Parts[i])
              /\ conv[i].role = "user" => UserPart(conv[i], Parts[i])
<1> DEFINE part(i) == ToOpenAi(conv[i])
<1>1. ASSUME NEW i \in 1..Len(conv)
      PROVE  /\ FlattenSeq(ShownBy(part(i))) = Shots(conv[i].blocks)
             /\ part(i) \in Seq(Wired) /\ Len(part(i)) \in Nat \ {0}
             /\ conv[i].role = "assistant" => AssistantPart(conv[i], part(i))
             /\ conv[i].role = "user" => UserPart(conv[i], part(i))
  <2> DEFINE m == conv[i]
  <2>1. m \in Message /\ m.role \in {"user", "assistant"} /\ WellMade(m)
    BY ConvIs
  <2> HIDE DEF m
  <2>2. CASE m.role = "assistant"
    <3>1. ToOpenAi(m) \in Seq(Wired) /\ AssistantPart(m, ToOpenAi(m))
          /\ FlattenSeq(ShownBy(ToOpenAi(m))) = Shots(m.blocks)
      BY <2>1, <2>2, AssistantPartIs
    <3>2. Len(ToOpenAi(m)) = 1
      BY <3>1 DEF AssistantPart
    <3> QED  BY <2>2, <3>1, <3>2 DEF m
  <2>3. CASE m.role = "user"
    <3>1. ToOpenAi(m) \in Seq(Wired) /\ UserPart(m, ToOpenAi(m)) /\ Len(ToOpenAi(m)) # 0
          /\ FlattenSeq(ShownBy(ToOpenAi(m))) = Shots(m.blocks)
      BY <2>1, <2>3, UserPartIs
    <3>2. Len(ToOpenAi(m)) \in Nat
      BY <3>1, LenProperties
    <3> QED  BY <2>3, <3>1, <3>2 DEF m
  <2> QED  BY <2>1, <2>2, <2>3
<1>2. Parts = [i \in 1..Len(conv) |-> part(i)] /\ Len(conv) \in Nat
  BY ConvIs DEF Parts
<1> HIDE DEF part
<1>3. /\ Parts \in Seq(Seq(Wired)) /\ Len(Parts) = Len(conv)
      /\ \A i \in 1..Len(conv) : Parts[i] = part(i)
  <2>1. \A i \in 1..Len(conv) : part(i) \in Seq(Wired)
    BY <1>1
  <2> QED  BY ONLY <1>2, <2>1
<1> QED  BY <1>1, <1>3

LEMMA OpenAiBodyIs ==
  ASSUME WireInv
  PROVE  /\ OpenAiBody(conv) = FlattenSeq(Parts) /\ OpenAiBody(conv) \in Seq(Wired)
         /\ FlattenSeq(ShownBy(OpenAiBody(conv))) = AllShots(conv)
<1>1. OpenAiBody(conv) = FlattenSeq(Parts)
  BY DEF OpenAiBody, Parts
<1>2. Parts \in Seq(Seq(Wired)) /\ Len(Parts) = Len(conv)
  BY PartsAre
<1>3. /\ ShotsBy(conv) \in Seq(Seq(Nat)) /\ Len(ShotsBy(conv)) = Len(Parts)
      /\ \A i \in 1..Len(ShotsBy(conv)) : FlattenSeq(ShownBy(Parts[i])) = ShotsBy(conv)[i]
      /\ AllShots(conv) = FlattenSeq(ShotsBy(conv))
  BY <1>2, ConvIs, MessageIs, PartsAre
<1>4. FlattenSeq(ShownBy(FlattenSeq(Parts))) = FlattenSeq(ShotsBy(conv))
  BY <1>2, <1>3, FlattenTwice
<1> QED  BY <1>1, <1>2, <1>3, <1>4, FlattenType

LEMMA AnthropicBodyIs ==
  ASSUME WireInv
  PROVE  /\ AnthropicBody(conv) \in Seq(Wired) /\ Len(AnthropicBody(conv)) = Len(conv)
         /\ \A i \in 1..Len(conv) :
              /\ AnthropicBody(conv)[i].calls = Calls(conv[i])
              /\ AnthropicBody(conv)[i].answers = Replies(conv[i])
              /\ AnthropicBody(conv)[i].shots = Shots(conv[i].blocks)
              /\ conv[i].blocks # <<Blank>> => HoldsSome(ToAnthropic(conv[i]))
<1> DEFINE m(i) == conv[i]
           text(i) == Says(m(i).blocks) \/ Other \in ToSet(m(i).blocks)
           e(i) == Entry(m(i).role, text(i), Calls(m(i)), Replies(m(i)), Shots(m(i).blocks))
<1>1. Len(conv) \in Nat /\ DOMAIN conv = 1..Len(conv)
      /\ \A i \in 1..Len(conv) : /\ m(i) \in Message /\ m(i).role \in {"user", "assistant"}
                                 /\ m(i).blocks \in Seq(Block) /\ WellMade(m(i))
  BY ConvIs
<1>2. /\ AnthropicBody(conv) = [i \in 1..Len(conv) |-> e(i)]
      /\ \A i \in 1..Len(conv) : ToAnthropic(conv[i]) = e(i)
  BY <1>1 DEF AnthropicBody, ToAnthropic, Calls, Replies
<1>6. \A i \in 1..Len(conv) :
        /\ text(i) \in BOOLEAN /\ (Says(m(i).blocks) => text(i) = TRUE)
        /\ ToSet(m(i).blocks) = {Other} => text(i) = TRUE
  BY SaysBoolean
<1> HIDE DEF m, text
<1>3. ASSUME NEW i \in 1..Len(conv)
      PROVE  /\ e(i) \in Wired /\ e(i).calls = Calls(m(i)) /\ e(i).answers = Replies(m(i))
             /\ e(i).shots = Shots(m(i).blocks)
  <2>1. Calls(m(i)) \in Seq(Ident) /\ Replies(m(i)) \in Seq(Ident) /\ Shots(m(i).blocks) \in Seq(Nat)
    BY <1>1, IdsByType, SeenByType DEF Calls, Replies
  <2>2. m(i).role \in {"user", "assistant", "tool"} /\ text(i) \in BOOLEAN
    BY <1>1, <1>6
  <2> QED  BY <2>1, <2>2 DEF Entry, Wired
<1>4. ASSUME NEW i \in 1..Len(conv), m(i).blocks # <<Blank>>
      PROVE  HoldsSome(e(i))
  <2>1. e(i).text = text(i)
    BY Zenon DEF Entry
  <2> HIDE DEF e
  <2>2. CASE Says(m(i).blocks) \/ ToSet(m(i).blocks) = {Other}
    <3>1. text(i) = TRUE
      BY <1>6, <2>2
    <3> QED  BY <2>1, <3>1, HoldsText
  <2>3. CASE ~Says(m(i).blocks) /\ ToSet(m(i).blocks) # {Other}
    <3>1. Shows(m(i).blocks) => Shots(m(i).blocks) # <<>>
      BY <1>1, <2>3, ShowsIs
    <3>2. Calls(m(i)) # <<>> \/ Replies(m(i)) # <<>> \/ Shots(m(i).blocks) # <<>>
      BY <1>1, <1>4, <2>3, <3>1 DEF WellMade
    <3> QED  BY <1>3, <3>2 DEF HoldsSome
  <2> QED  BY <2>2, <2>3
<1> HIDE DEF e
<1>5. /\ AnthropicBody(conv) \in Seq(Wired) /\ Len(AnthropicBody(conv)) = Len(conv)
      /\ \A i \in 1..Len(conv) : AnthropicBody(conv)[i] = e(i)
  <2>1. Len(conv) \in Nat /\ \A i \in 1..Len(conv) : e(i) \in Wired
    BY <1>1, <1>3
  <2> QED  BY ONLY <1>2, <2>1
<1> QED  BY <1>2, <1>3, <1>4, <1>5 DEF m

\* A request shows the newest images, as many as the policy allows, in the
\* order they were taken, in either format, for any number of images, turns
\* and messages (vision.rs:243, provider.rs:549).
THEOREM WireNewest == Spec => []NewestImages
<1>1. WireInv => NewestImages
  <2> SUFFICES ASSUME WireInv, pc = "sending"
               PROVE  LET n == IF shots < MaxKept THEN shots ELSE MaxKept
                      IN FlattenSeq(ShownBy(Wire)) = [i \in 1..n |-> shots - n + i]
    BY DEF NewestImages, ShownBy
  <2> DEFINE n == IF shots < MaxKept THEN shots ELSE MaxKept
  <2>1. shots \in Nat /\ MaxKept \in Nat /\ AllShots(conv) = Run(Cut(shots, MaxKept), shots)
    BY WireAssumption DEF WireInv, WireTypes, Shown, WireAssumption
  <2>2. n \in Nat /\ shots - Cut(shots, MaxKept) = n /\ Cut(shots, MaxKept) = shots - n
    BY <2>1 DEF Cut
  <2> HIDE DEF n
  <2>3. Run(Cut(shots, MaxKept), shots) = [i \in 1..n |-> shots - n + i]
    BY <2>2 DEF Run
  <2>4. FlattenSeq(ShownBy(AnthropicBody(conv))) = AllShots(conv)
    <3>1. /\ ShownBy(AnthropicBody(conv)) \in Seq(Seq(Nat))
          /\ Len(ShownBy(AnthropicBody(conv))) = Len(conv)
          /\ \A i \in 1..Len(conv) : ShownBy(AnthropicBody(conv))[i] = Shots(conv[i].blocks)
      BY AnthropicBodyIs, ShownByType
    <3>2. /\ ShotsBy(conv) \in Seq(Seq(Nat)) /\ Len(ShotsBy(conv)) = Len(conv)
          /\ \A i \in 1..Len(conv) : ShotsBy(conv)[i] = Shots(conv[i].blocks)
          /\ AllShots(conv) = FlattenSeq(ShotsBy(conv))
      BY ConvIs, MessageIs
    <3>3. ShownBy(AnthropicBody(conv)) = ShotsBy(conv)
      BY <3>1, <3>2, SeqEqual
    <3> QED  BY <3>2, <3>3
  <2>5. FlattenSeq(ShownBy(Wire)) = AllShots(conv)
    BY <2>4, OpenAiBodyIs DEF Wire
  <2> QED  BY <2>1, <2>3, <2>5 DEF n
<1> QED  BY <1>1, WireHolds, PTL

---------------------------------------------------------------------------
(* Calls and their answers in a request *)

LEMMA DistinctCount ==
  ASSUME NEW ids \in Seq(Ident), Distinct(ids)
  PROVE  Cardinality(ToSet(ids)) = Len(ids)
<1>1. Len(ids) \in Nat /\ DOMAIN ids = 1..Len(ids)
  BY LenProperties
<1>2. ids \in [1..Len(ids) -> ToSet(ids)]
  BY <1>1 DEF ToSet
<1>3. IsInjective(ids)
  BY <1>1 DEF IsInjective, Distinct
<1>4. \A x \in ToSet(ids) : \E i \in 1..Len(ids) : ids[i] = x
  BY <1>1 DEF ToSet
<1>5. ids \in Bijection(1..Len(ids), ToSet(ids))
  BY <1>2, <1>3, <1>4 DEF Bijection, Injection, Surjection
<1>6. ExistsBijection(1..Len(ids), ToSet(ids))
  BY <1>5 DEF ExistsBijection
<1> QED  BY <1>1, <1>6, FS_CountingElements

\* The answers after entry i are those of the next n, if these answer calls and
\* the one after them does not.
LEMMA AnswersAre ==
  ASSUME NEW ms \in Seq(Wired), NEW i \in 1..Len(ms), NEW n \in Nat, i + n <= Len(ms),
         \A j \in 1..n : ms[i + j].answers # <<>>,
         i + n + 1 <= Len(ms) => ms[i + n + 1].answers = <<>>
  PROVE  AnsweredAfter(ms, i) = FlattenSeq([j \in 1..n |-> ms[i + j].answers])
<1> DEFINE stops == {j \in (i + 1)..Len(ms) : ms[j].answers = <<>>} \cup {Len(ms) + 1}
           end == CHOOSE j \in stops : \A k \in stops : j <= k
           x == i + n + 1
<1>1. Len(ms) \in Nat /\ x \in Nat /\ x >= i + 1 /\ x <= Len(ms) + 1 /\ stops \subseteq Nat
  BY LenProperties
<1>2. x \in stops
  BY <1>1
<1>3. ASSUME NEW k \in stops
      PROVE  x <= k
  <2>1. SUFFICES ASSUME ~(x <= k)
                 PROVE  FALSE
    OBVIOUS
  <2>2. k \in (i + 1)..Len(ms) /\ ms[k].answers = <<>>
    BY <1>1, <2>1
  <2>3. k - i \in 1..n /\ i + (k - i) = k
    BY <1>1, <2>1, <2>2
  <2>4. ms[i + (k - i)].answers # <<>>
    BY <2>3
  <2> QED  BY <2>2, <2>3, <2>4
<1> HIDE DEF stops
<1>4. end \in stops /\ \A k \in stops : end <= k
  BY <1>2, <1>3
<1>5. AnsweredAfter(ms, i) = FlattenSeq([j \in 1..(end - i - 1) |-> ms[i + j].answers])
  BY DEF AnsweredAfter, stops
<1> HIDE DEF end
<1>6. end = x
  <2>1. end \in Nat /\ x \in Nat /\ end <= x /\ x <= end
    BY <1>1, <1>2, <1>3, <1>4
  <2> QED  BY <2>1
<1>7. end - i - 1 = n
  BY <1>6
<1> QED  BY <1>5, <1>7

\* What an entry of a request owes the others.
CallsAnswered(ms, i) ==
  ms[i].calls # <<>> =>
    Cardinality(ToSet(ms[i].calls)) = Len(ms[i].calls) /\ AnsweredAfter(ms, i) = ms[i].calls

AnswersCalled(ms, i) ==
  ms[i].answers # <<>> =>
    \E k \in 1..(i - 1) : ms[k].calls # <<>> /\ \A j \in (k + 1)..i : ms[j].answers # <<>>

LEMMA Followed ==
  ASSUME WireInv, Pending(conv) = <<>>, NEW i \in 1..Len(conv), Calls(conv[i]) # <<>>
  PROVE  /\ i + 1 \in 1..Len(conv) /\ conv[i].role = "assistant" /\ conv[i + 1].role = "user"
         /\ Calls(conv[i]) \in Seq(Ident) /\ Distinct(Calls(conv[i]))
         /\ Replies(conv[i + 1]) = Calls(conv[i]) /\ Calls(conv[i + 1]) = <<>>
         /\ i + 2 \in 1..Len(conv) => Replies(conv[i + 2]) = <<>>
<1>1. Len(conv) \in Nat /\ i \in Nat
  BY ConvIs
<1>2. \A k \in 1..Len(conv) : WellMade(conv[k]) /\ conv[k].role \in {"user", "assistant"}
                              /\ conv[k].blocks \in Seq(Block)
  BY ConvIs
<1>3. \A k \in 1..Len(conv) : k # 1 => Replies(conv[k]) = Calls(conv[k - 1])
  BY DEF WireInv, Answered, Paired
<1>4. i # Len(conv)
  <2>1. conv # <<>>
    BY <1>1, EmptySeq
  <2> QED  BY <2>1 DEF Pending
<1>5. i + 1 \in 1..Len(conv) /\ i + 1 # 1 /\ (i + 1) - 1 = i
  BY <1>1, <1>4
<1>6. conv[i].role = "assistant" /\ Distinct(Calls(conv[i]))
  BY <1>2 DEF WellMade
<1>7. Calls(conv[i]) \in Seq(Ident)
  BY <1>2, IdsByType DEF Calls
<1>8. Replies(conv[i + 1]) = Calls(conv[i])
  BY <1>3, <1>5
<1>9. conv[i + 1].role = "user" /\ Calls(conv[i + 1]) = <<>>
  BY <1>2, <1>5, <1>8 DEF WellMade
<1>10. i + 2 \in 1..Len(conv) => Replies(conv[i + 2]) = <<>>
  <2>1. i + 2 # 1 /\ (i + 2) - 1 = i + 1
    BY <1>1
  <2> QED  BY <1>3, <1>9, <2>1
<1> QED  BY <1>5, <1>6, <1>7, <1>8, <1>9, <1>10

LEMMA Led ==
  ASSUME WireInv, NEW i \in 1..Len(conv), Replies(conv[i]) # <<>>
  PROVE  /\ i - 1 \in 1..Len(conv) /\ conv[i].role = "user" /\ conv[i - 1].role = "assistant"
         /\ Calls(conv[i - 1]) # <<>>
<1>1. Len(conv) \in Nat /\ i \in Nat /\ conv # <<>>
  BY ConvIs, EmptySeq
<1>2. \A k \in 1..Len(conv) : WellMade(conv[k]) /\ conv[k].role \in {"user", "assistant"}
  BY ConvIs
<1>3. i # 1
  BY <1>1 DEF WireInv, Answered, Paired
<1>4. i - 1 \in 1..Len(conv)
  BY <1>1, <1>3
<1>5. Calls(conv[i - 1]) = Replies(conv[i])
  BY <1>3 DEF WireInv, Answered, Paired
<1> QED  BY <1>2, <1>4, <1>5 DEF WellMade

LEMMA AnthropicAccepted ==
  ASSUME WireInv, Pending(conv) = <<>>, NEW i \in 1..Len(AnthropicBody(conv))
  PROVE  CallsAnswered(AnthropicBody(conv), i) /\ AnswersCalled(AnthropicBody(conv), i)
<1> DEFINE ms == AnthropicBody(conv)
<1>1. /\ ms \in Seq(Wired) /\ Len(ms) = Len(conv) /\ Len(conv) \in Nat /\ i \in 1..Len(conv)
      /\ \A k \in 1..Len(conv) : ms[k].calls = Calls(conv[k]) /\ ms[k].answers = Replies(conv[k])
  BY AnthropicBodyIs, ConvIs
<1> HIDE DEF ms
<1>2. ASSUME ms[i].calls # <<>>
      PROVE  Cardinality(ToSet(ms[i].calls)) = Len(ms[i].calls) /\ AnsweredAfter(ms, i) = ms[i].calls
  <2> DEFINE c == Calls(conv[i])
             s == [j \in 1..1 |-> ms[i + j].answers]
  <2>1. c # <<>> /\ ms[i].calls = c
    BY <1>1, <1>2
  <2>2. /\ i + 1 \in 1..Len(conv) /\ c \in Seq(Ident) /\ Distinct(c)
        /\ Replies(conv[i + 1]) = c
        /\ i + 2 \in 1..Len(conv) => Replies(conv[i + 2]) = <<>>
    BY <1>1, <2>1, Followed
  <2> HIDE DEF c
  <2>3. \A j \in 1..1 : ms[i + j].answers = c
    BY <1>1, <2>2
  <2>4. i + 1 + 1 <= Len(ms) => ms[i + 1 + 1].answers = <<>>
    <3>1. i + 1 + 1 = i + 2 /\ (i + 2 <= Len(ms) => i + 2 \in 1..Len(conv))
      BY <1>1
    <3> QED  BY <1>1, <2>2, <3>1
  <2>5. AnsweredAfter(ms, i) = FlattenSeq(s)
    <3>1. i \in 1..Len(ms) /\ i + 1 <= Len(ms) /\ \A j \in 1..1 : ms[i + j].answers # <<>>
      BY <1>1, <2>1, <2>2, <2>3
    <3> QED  BY <1>1, <2>4, <3>1, AnswersAre
  <2>6. s = <<c>>
    BY <2>3
  <2>7. FlattenSeq(<<c>>) = c
    BY <2>2, FlattenOne
  <2>8. Cardinality(ToSet(c)) = Len(c)
    BY <2>2, DistinctCount
  <2> QED  BY <2>1, <2>5, <2>6, <2>7, <2>8
<1>3. ASSUME ms[i].answers # <<>>
      PROVE  \E k \in 1..(i - 1) : ms[k].calls # <<>> /\ \A j \in (k + 1)..i : ms[j].answers # <<>>
  <2>1. Replies(conv[i]) # <<>>
    BY <1>1, <1>3
  <2>2. i - 1 \in 1..Len(conv) /\ Calls(conv[i - 1]) # <<>>
    BY <1>1, <2>1, Led
  <2>3. i - 1 \in 1..(i - 1) /\ ms[i - 1].calls # <<>> /\ \A j \in ((i - 1) + 1)..i : j = i
    BY <1>1, <2>2
  <2> QED  BY <1>3, <2>3
<1> QED  BY <1>1, <1>2, <1>3 DEF CallsAnswered, AnswersCalled, ms

LEMMA OpenAiAccepted ==
  ASSUME WireInv, Pending(conv) = <<>>, NEW p \in 1..Len(OpenAiBody(conv))
  PROVE  CallsAnswered(OpenAiBody(conv), p) /\ AnswersCalled(OpenAiBody(conv), p)
<1> DEFINE ms == OpenAiBody(conv)
           n == Len(conv)
           at(i) == Before(Parts, i)
<1>1. /\ ms \in Seq(Wired) /\ ms = FlattenSeq(Parts) /\ Len(ms) \in Nat /\ n \in Nat
      /\ Parts \in Seq(Seq(Wired)) /\ Len(Parts) = n
  BY OpenAiBodyIs, PartsAre, ConvIs, LenProperties
<1>2. \A i \in 1..n : /\ Len(Parts[i]) \in Nat \ {0} /\ conv[i].role \in {"user", "assistant"}
                      /\ conv[i].role = "assistant" => AssistantPart(conv[i], Parts[i])
                      /\ conv[i].role = "user" => UserPart(conv[i], Parts[i])
  BY PartsAre, ConvIs
<1>3. /\ at(0) = 0 /\ at(n) = Len(ms) /\ \A i \in 0..n : at(i) \in Nat
      /\ \A i \in 1..n : at(i) = at(i - 1) + Len(Parts[i])
  BY <1>1, BeforeGrows
<1>4. \A i \in 1..n, j \in Nat : j \in 1..Len(Parts[i]) =>
        at(i - 1) + j \in 1..Len(ms) /\ ms[at(i - 1) + j] = Parts[i][j]
  BY <1>1, Layout
<1>5. PICK i \in 1..n : \E j \in 1..Len(Parts[i]) : p = at(i - 1) + j
  <2>1. p \in 1..Len(FlattenSeq(Parts)) /\ Parts \in Seq(Seq(Wired))
    BY <1>1
  <2>2. \E i \in 1..Len(Parts) : \E j \in 1..Len(Parts[i]) : p = Before(Parts, i - 1) + j
    BY <2>1, Layout
  <2> QED  BY <1>1, <2>2
<1>6. PICK j \in 1..Len(Parts[i]) : p = at(i - 1) + j
  BY <1>5
<1> HIDE DEF ms, n, at
<1>7. /\ i \in Nat /\ i - 1 \in 0..n /\ at(i - 1) \in Nat /\ Len(Parts[i]) \in Nat /\ j \in Nat
      /\ p \in Nat /\ p \in 1..Len(ms) /\ ms[p] = Parts[i][j]
  <2>1. i \in Nat /\ i - 1 \in 0..n /\ Len(Parts[i]) \in Nat
    BY <1>1, <1>2
  <2>2. j \in Nat /\ at(i - 1) \in Nat
    BY <1>3, <2>1
  <2> QED  BY <1>4, <1>6, <2>1, <2>2
<1>9. ASSUME ms[p].calls # <<>>
      PROVE  Cardinality(ToSet(ms[p].calls)) = Len(ms[p].calls) /\ AnsweredAfter(ms, p) = ms[p].calls
  <2> DEFINE c == Calls(conv[i])
             k == Len(c)
             q == Parts[i + 1]
             s == [h \in 1..k |-> ms[p + h].answers]
  <2>1. conv[i].role # "user"
    BY <1>2, <1>7, <1>9 DEF UserPart
  <2>2. AssistantPart(conv[i], Parts[i])
    BY <1>2, <2>1
  <2>3. j = 1 /\ ms[p].calls = c /\ c # <<>> /\ at(i) = p
    <3>1. Len(Parts[i]) = 1 /\ at(i) = at(i - 1) + Len(Parts[i])
      BY <1>3, <2>2 DEF AssistantPart
    <3>2. j = 1
      BY <3>1
    <3> QED  BY <1>6, <1>7, <1>9, <2>2, <3>1, <3>2 DEF AssistantPart
  <2>4. /\ i + 1 \in 1..n /\ conv[i + 1].role = "user" /\ c \in Seq(Ident) /\ Distinct(c)
        /\ Replies(conv[i + 1]) = c
        /\ i + 2 \in 1..n => Replies(conv[i + 2]) = <<>>
    BY <2>3, Followed DEF n
  <2>5. k \in Nat /\ k # 0
    BY <2>3, <2>4, LenProperties, EmptySeq
  <2>6. /\ Len(q) \in {k, k + 1}
        /\ \A h \in 1..Len(q) : q[h].answers = IF h <= k THEN <<c[h]>> ELSE <<>>
    BY <1>2, <2>4 DEF UserPart
  <2> HIDE DEF c, k, q
  <2>7. \A h \in Nat : h \in 1..Len(q) => p + h \in 1..Len(ms) /\ ms[p + h] = q[h]
    <3>1. i + 1 \in 1..n /\ (i + 1) - 1 = i
      BY <1>7, <2>4
    <3> QED  BY <1>4, <2>3, <3>1 DEF q
  <2>8. \A h \in 1..k : p + h \in 1..Len(ms) /\ ms[p + h].answers = <<c[h]>>
    <3>1. ASSUME NEW h \in 1..k
          PROVE  p + h \in 1..Len(ms) /\ ms[p + h].answers = <<c[h]>>
      <4>1. h \in Nat /\ h <= k /\ h \in 1..Len(q)
        BY <2>5, <2>6
      <4> QED  BY <2>6, <2>7, <4>1
    <3> QED  BY <3>1
  <2>9. p + k <= Len(ms) /\ \A h \in 1..k : ms[p + h].answers # <<>>
    <3>1. k \in 1..k
      BY <2>5
    <3>2. p + k \in 1..Len(ms)
      BY <2>8, <3>1
    <3>3. \A x : <<x>> # <<>>
      BY EmptySeq
    <3>4. p + k <= Len(ms)
      BY <1>1, <3>2
    <3> QED  BY <2>8, <3>3, <3>4
  <2>10. ASSUME p + k + 1 <= Len(ms)
         PROVE  ms[p + k + 1].answers = <<>>
    <3>1. CASE Len(q) = k + 1
      <4>1. k + 1 \in Nat /\ k + 1 \in 1..Len(q) /\ ~(k + 1 <= k) /\ p + (k + 1) = p + k + 1
        BY <1>7, <2>5, <3>1
      <4>2. ms[p + (k + 1)] = q[k + 1] /\ q[k + 1].answers = <<>>
        BY <2>6, <2>7, <4>1
      <4> QED  BY <4>1, <4>2
    <3>2. CASE Len(q) = k
      <4>1. i + 1 \in 1..n /\ (i + 1) - 1 = i
        BY <1>7, <2>4
      <4>2. at(i + 1) = p + k
        BY <1>3, <2>3, <3>2, <4>1 DEF q
      <4>3. i + 1 # n
        <5>1. ~(p + k + 1 <= p + k)
          BY <1>7, <2>5
        <5> QED  BY <1>3, <2>10, <4>2, <5>1
      <4>4. i + 2 \in 1..n /\ (i + 2) - 1 = i + 1
        BY <1>1, <1>7, <4>1, <4>3
      <4> DEFINE r == Parts[i + 2]
      <4>5. Len(r) \in Nat \ {0} /\ 1 \in 1..Len(r) /\ 1 \in Nat
        BY <1>2, <4>4
      <4>6. ms[p + k + 1] = r[1]
        BY <1>4, <4>2, <4>4, <4>5
      <4>7. r[1].answers = <<>>
        <5>1. CASE conv[i + 2].role = "assistant"
          BY <1>2, <4>4, <5>1 DEF AssistantPart
        <5>2. CASE conv[i + 2].role = "user"
          <6>1. UserPart(conv[i + 2], r) /\ Replies(conv[i + 2]) = <<>>
            BY <1>2, <2>4, <4>4, <5>2
          <6>2. Len(<<>>) = 0 /\ ~(1 <= 0)
            BY EmptySeq
          <6> HIDE DEF r
          <6> QED  BY <4>5, <6>1, <6>2 DEF UserPart
        <5> QED  BY <1>2, <4>4, <5>1, <5>2
      <4> QED  BY <4>6, <4>7
    <3> QED  BY <2>6, <3>1, <3>2
  <2>11. AnsweredAfter(ms, p) = FlattenSeq(s)
    BY <1>1, <1>7, <2>5, <2>9, <2>10, AnswersAre
  <2>12. FlattenSeq(s) = c
    <3>1. \A h \in 1..k : c[h] \in Ident
      BY <2>4, ElementOfSeq DEF k
    <3>2. s = [h \in 1..k |-> <<c[h]>>]
      BY <2>8
    <3> HIDE DEF s
    <3>3. s \in Seq(Seq(Ident)) /\ Len(s) = k /\ \A h \in 1..k : s[h] = <<c[h]>>
      BY <2>5, <3>1, <3>2
    <3> QED  BY <2>4, <3>3, FlattenOnes DEF k
  <2>13. Cardinality(ToSet(c)) = Len(c)
    BY <2>4, DistinctCount
  <2> QED  BY <2>3, <2>11, <2>12, <2>13
<1>10. ASSUME ms[p].answers # <<>>
       PROVE  \E k \in 1..(p - 1) : ms[k].calls # <<>> /\ \A h \in (k + 1)..p : ms[h].answers # <<>>
  <2> DEFINE a == Replies(conv[i])
             k == at(i - 1)
  <2>1. conv[i].role # "assistant"
    <3>1. CASE conv[i].role = "assistant"
      <4>1. AssistantPart(conv[i], Parts[i])
        BY <1>2, <3>1
      <4>2. j = 1
        BY <4>1 DEF AssistantPart
      <4> QED  BY <1>7, <1>10, <4>1, <4>2 DEF AssistantPart
    <3> QED  BY <3>1
  <2>2. UserPart(conv[i], Parts[i])
    BY <1>2, <2>1
  <2>3. j <= Len(a)
    BY <1>7, <1>10, <2>2 DEF UserPart
  <2>4. a # <<>> /\ Len(a) \in Nat
    <3>1. Len(<<>>) = 0
      BY EmptySeq
    <3>2. conv[i].blocks \in Seq(Block)
      BY ConvIs DEF n
    <3>3. a \in Seq(Ident)
      BY <3>2, IdsByType DEF Replies
    <3>4. Len(a) \in Nat
      BY <3>3, LenProperties
    <3>5. a # <<>>
      BY <1>7, <2>3, <3>1
    <3> QED  BY <3>4, <3>5
  <2>5. /\ i - 1 \in 1..n /\ conv[i - 1].role = "assistant" /\ Calls(conv[i - 1]) # <<>>
    BY <2>4, Led DEF n
  <2>6. AssistantPart(conv[i - 1], Parts[i - 1])
    BY <1>2, <2>5
  <2>7. k = at((i - 1) - 1) + 1 /\ ms[k].calls # <<>> /\ k \in 1..Len(ms)
    <3>1. Len(Parts[i - 1]) = 1 /\ 1 \in 1..Len(Parts[i - 1])
      BY <2>6 DEF AssistantPart
    <3>2. k = at((i - 1) - 1) + 1
      BY <1>3, <2>5, <3>1
    <3>3. ms[k] = Parts[i - 1][1] /\ k \in 1..Len(ms)
      BY <1>4, <2>5, <3>1, <3>2
    <3> QED  BY <2>5, <2>6, <3>2, <3>3 DEF AssistantPart
  <2>8. k \in 1..(p - 1)
    <3>1. k \in Nat /\ k >= 1 /\ p = k + j /\ j \in Nat /\ j >= 1
      BY <1>6, <1>7, <2>7
    <3> HIDE DEF k
    <3> QED  BY <3>1
  <2>9. ASSUME NEW h \in (k + 1)..p
        PROVE  ms[h].answers # <<>>
    <3> DEFINE g == h - k
    <3>1. k \in Nat /\ p = k + j /\ j \in Nat /\ j \in 1..Len(Parts[i]) /\ Len(Parts[i]) \in Nat
      BY <1>6, <1>7
    <3>2. g \in Nat /\ g \in 1..Len(Parts[i]) /\ g <= j /\ k + g = h
      <4> HIDE DEF k
      <4> QED  BY <3>1
    <3> HIDE DEF g
    <3>3. g <= Len(a)
      BY <2>3, <2>4, <3>1, <3>2
    <3>4. ms[h] = Parts[i][g]
      BY <1>4, <3>2
    <3>5. Parts[i][g].answers = <<a[g]>>
      BY <2>2, <3>2, <3>3 DEF UserPart
    <3> QED  BY <3>4, <3>5, EmptySeq
  <2> QED  BY <2>7, <2>8, <2>9
<1> QED  BY <1>9, <1>10 DEF CallsAnswered, AnswersCalled, ms

\* What is sent for one message of the conversation.
LEMMA SentHolds ==
  ASSUME WireInv, NEW i \in 1..Len(conv), ~MayBeEmpty(conv[i]), NEW e \in Sent(conv[i])
  PROVE  HoldsSome(e)
<1> DEFINE m == conv[i]
<1>1. m.blocks # <<Blank>> /\ (Format # "anthropic" => ToSet(m.blocks) # {Other})
  BY DEF MayBeEmpty
<1>2. CASE Format = "anthropic"
  <2>1. e = ToAnthropic(m)
    BY <1>2 DEF Sent
  <2> QED  BY <1>1, <2>1, AnthropicBodyIs
<1>3. CASE Format # "anthropic"
  <2>1. Parts[i] = ToOpenAi(m) /\ e \in ToSet(ToOpenAi(m))
    BY <1>3, ConvIs DEF Sent, Parts
  <2>2. /\ Parts[i] \in Seq(Wired) /\ m.role \in {"user", "assistant"}
        /\ m.role = "assistant" => AssistantPart(m, Parts[i])
        /\ m.role = "user" => UserPart(m, Parts[i])
    BY PartsAre, ConvIs
  <2> HIDE DEF m
  <2>3. PICK j \in 1..Len(Parts[i]) : e = Parts[i][j]
    <3>1. DOMAIN Parts[i] = 1..Len(Parts[i])
      BY <2>2, LenProperties
    <3> QED  BY <2>1, <3>1 DEF ToSet
  <2>4. CASE m.role = "assistant"
    <3>1. Len(Parts[i]) = 1 /\ j = 1
      BY <2>2, <2>3, <2>4 DEF AssistantPart
    <3> QED  BY <1>1, <1>3, <2>2, <2>3, <2>4, <3>1 DEF AssistantPart
  <2>5. CASE m.role = "user"
    BY <1>1, <2>2, <2>3, <2>5 DEF UserPart
  <2> QED  BY <2>2, <2>4, <2>5
<1> QED  BY <1>2, <1>3

\* Providers refuse a request in which a call has no answer right after it, an
\* answer has no call right before it, two calls of one message share an id,
\* or a message holds nothing.  No request is like that, in either format, for
\* any ids and stop reasons the servers write, any results, any runs that are
\* dropped and any length of the conversation, but for a question that came
\* without words or images and, in Chat Completions, an answer of other blocks
\* alone (provider.rs:228, provider.rs:549, agent.rs:439, agent.rs:700).
THEOREM WireWellFormed == Spec => []WireAccepted
<1>1. WireInv => WireAccepted
  <2> SUFFICES ASSUME WireInv, pc = "sending"
               PROVE  /\ \A i \in DOMAIN Wire : CallsAnswered(Wire, i) /\ AnswersCalled(Wire, i)
                      /\ \A i \in DOMAIN conv :
                           MayBeEmpty(conv[i]) \/ \A e \in Sent(conv[i]) : HoldsSome(e)
    BY DEF WireAccepted, CallsAnswered, AnswersCalled
  <2>1. Pending(conv) = <<>>
    BY DEF WireInv, Answered
  <2>2. ASSUME NEW i \in DOMAIN Wire
        PROVE  CallsAnswered(Wire, i) /\ AnswersCalled(Wire, i)
    <3>1. CASE Format = "anthropic"
      <4>1. Wire = AnthropicBody(conv)
        BY <3>1 DEF Wire
      <4>2. i \in 1..Len(AnthropicBody(conv))
        BY <2>2, <4>1, AnthropicBodyIs, LenProperties
      <4> QED  BY <2>1, <4>1, <4>2, AnthropicAccepted
    <3>2. CASE Format # "anthropic"
      <4>1. Wire = OpenAiBody(conv)
        BY <3>2 DEF Wire
      <4>2. i \in 1..Len(OpenAiBody(conv))
        BY <2>2, <4>1, OpenAiBodyIs, LenProperties
      <4> QED  BY <2>1, <4>1, <4>2, OpenAiAccepted
    <3> QED  BY <3>1, <3>2
  <2>3. DOMAIN conv = 1..Len(conv)
    BY ConvIs
  <2> QED  BY <2>2, <2>3, SentHolds
<1> QED  BY <1>1, WireHolds, PTL
=============================================================================
