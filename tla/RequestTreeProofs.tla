------------------------- MODULE RequestTreeProofs -------------------------
(* Proofs about RequestTree, for any tools, flows, callers and bounds, and  *)
(* about Boot, for any manifests: what a request reaches was declared.      *)
EXTENDS RequestTree, Boot, Sums, SequenceTheorems

-----------------------------------------------------------------------------
(* The inductive invariant *)

Nesting == {"agent", "behaviour", "flow"}
Ready(i) == node[i].pc = "ready"
Pipelined(i) == Op(i) = "flow" /\ Kind(i) = "pipeline"

Frames == node \in Seq(Frame)

(* A frame comes after the one that called it; only the first has none.    *)
Below == \A i \in Nodes : node[i].parent < i /\ (i > 1 => node[i].parent # 0)

InOrder == \A i \in Nodes : Pipelined(i) => node[i].at <= Len(Steps(i))

(* Everybody knows who the request is from, and what needs somebody was    *)
(* refused when there is nobody.                                           *)
Owned == \A i \in Nodes :
    /\ node[i].known = node[1].known
    /\ Ready(i) /\ (Op(i) = "own" \/ Table[node[i].tool].session) => node[i].known

(* What calls others is above the ceiling. *)
Ceiling == \A i \in Nodes :
    /\ node[i].depth <= MaxDepth
    /\ Ready(i) /\ Op(i) \in Nesting => node[i].depth < MaxDepth

(* Who calls has what the call needs, and hands down no more than it has.  *)
Held == \A i \in Nodes : i > 1 =>
    /\ node[i].actor \subseteq node[node[i].parent].actor
    /\ Ready(i) => Table[node[i].tool].needs \subseteq node[node[i].parent].actor

Paid == \A i \in Nodes : Op(i) = "behaviour" =>
    Cardinality(Children(i)) <= node[i].steps /\ Cardinality(Children(i)) <= MaxSteps

IInv == /\ Frames /\ Below /\ InOrder /\ Owned /\ Ceiling /\ Held
        /\ NothingOutlives /\ Paid

-----------------------------------------------------------------------------
(* Frames *)

LEMMA NodesType ==
    ASSUME Frames
    PROVE  Len(node) \in Nat /\ Nodes = 1..Len(node) /\ \A i \in Nodes : node[i] \in Frame
<1>1. Len(node) \in Nat /\ Nodes = 1..Len(node)
  BY LenProperties DEF Frames, Nodes
<1>2. QED
  BY <1>1, ElementOfSeq DEF Frames

LEMMA EntryType ==
    ASSUME NEW t \in Tools
    PROVE  /\ Table[t].op \in Ops /\ Table[t].session \in BOOLEAN
           /\ Table[t].needs \in SUBSET Scopes /\ Table[t].grants \in SUBSET Scopes
  BY TreeAssumption DEF Entry

LEMMA DelegatedType ==
    ASSUME NEW actor \in SUBSET Scopes, NEW t \in Tools
    PROVE  Delegated(actor, t) \subseteq actor
  BY DEF Delegated

(* What a new frame is: refused and done, or ready with what it needs.     *)
Fresh(f, parent, t, actor, known, depth) ==
    /\ f \in Frame /\ f.tool = t /\ f.parent = parent /\ f.depth = depth
    /\ f.known = known /\ f.actor \subseteq actor /\ f.at = 0 /\ f.steps = 0
    /\ f.pc = "ready" =>
         /\ Table[t].needs \subseteq actor
         /\ Table[t].op \in Nesting => depth < MaxDepth
         /\ Table[t].op = "own" \/ Table[t].session => f.known

LEMMA NewFrame ==
    ASSUME NEW parent \in Nat, NEW batch \in Nat, NEW t \in Tools,
           NEW actor \in SUBSET Scopes, NEW known \in BOOLEAN, NEW depth \in Nat
    PROVE  Fresh(New(parent, batch, t, actor, known, depth), parent, t, actor, known, depth)
<1> DEFINE refusal == Refusal(parent, t, actor, known, depth)
           mine == IF Table[t].op \in {"route", "own"} THEN actor ELSE Delegated(actor, t)
           pc == IF refusal = "none" THEN "ready" ELSE "done"
           f == New(parent, batch, t, actor, known, depth)
<1>1. refusal \in Results
  BY DEF Refusal, Results
<1>2. refusal = "none" =>
        /\ Table[t].needs \subseteq actor /\ ~TooDeep(t, depth)
        /\ ~RowsRefused(parent, t, known) /\ ~SessionRefused(parent, t, known)
  BY DEF Refusal
<1>3. mine \in SUBSET Scopes /\ mine \subseteq actor
  BY DelegatedType
<1>4. pc \in {"ready", "done"} /\ (pc = "ready" => refusal = "none")
  OBVIOUS
<1>5. f = [tool |-> t, parent |-> parent, batch |-> batch, depth |-> depth, known |-> known,
           actor |-> mine, pc |-> pc, result |-> refusal, at |-> 0, steps |-> 0,
           asking |-> 0, owed |-> <<>>]
  BY DEF New
<1>6. <<>> \in Seq(Nat) /\ 0 \in 0 .. MaxSteps + 1 /\ 0 \in 0 .. Concurrent
  BY EmptySeq, TreeAssumption
<1>7. MaxDepth \in Nat /\ (Table[t].session => Table[t].op = "agent")
  BY TreeAssumption
<1> HIDE DEF refusal, mine, pc, f
<1>8. /\ f \in Frame /\ f.tool = t /\ f.parent = parent /\ f.depth = depth
      /\ f.known = known /\ f.actor = mine /\ f.at = 0 /\ f.steps = 0 /\ f.pc = pc
  BY <1>1, <1>3, <1>4, <1>5, <1>6 DEF Frame
<1>9. pc = "ready" /\ Table[t].op \in Nesting => depth < MaxDepth
  BY <1>2, <1>4, <1>7 DEF TooDeep, Nesting
<1>10. pc = "ready" /\ (Table[t].op = "own" \/ Table[t].session) => known
  BY <1>2, <1>4, <1>7 DEF RowsRefused, SessionRefused, HasOwner
<1>11. QED
  BY <1>2, <1>3, <1>4, <1>8, <1>9, <1>10 DEF f, Fresh

(* Frame i makes n calls: the new frames come last and begin below it.     *)
Called(i, n, tools, after) ==
    /\ after \in Seq(Frame) /\ Len(after) = Len(node) + n
    /\ \A j \in Nodes : j # i => after[j] = node[j]
    /\ \A k \in 1..n :
         \E b \in Nat : after[Len(node) + k]
           = New(i, b, tools[k], node[i].actor, node[i].known, node[i].depth + 1)

LEMMA FrameParts ==
    ASSUME NEW f \in Frame
    PROVE  /\ f.tool \in Tools /\ f.parent \in Nat /\ f.depth \in Nat /\ f.known \in BOOLEAN
           /\ f.actor \in SUBSET Scopes /\ f.pc \in {"ready", "done"} /\ f.at \in Nat
           /\ f.steps \in 0 .. MaxSteps + 1 /\ f.asking \in 0 .. Concurrent
           /\ f.owed \in Seq(Nat)
  BY DEF Frame

LEMMA MovedFrame ==
    ASSUME NEW f \in Frame, NEW n
    PROVE  /\ n \in Nat => [f EXCEPT !.at = n] \in Frame
           /\ n \in 0 .. MaxSteps + 1 => [f EXCEPT !.steps = n] \in Frame
<1>1. ASSUME n \in Nat PROVE [f EXCEPT !.at = n] \in Frame
  BY <1>1 DEF Frame
<1>2. ASSUME n \in 0 .. MaxSteps + 1 PROVE [f EXCEPT !.steps = n] \in Frame
  BY <1>2 DEF Frame
<1>3. QED
  BY <1>1, <1>2

LEMMA StartedFrames ==
    ASSUME Frames, NEW i \in Nodes, NEW tools \in Seq(Tools)
    PROVE  /\ Called(i, Len(tools), tools, Started(i, tools))
           /\ Started(i, tools)[i] = [node[i] EXCEPT !.at = node[i].at + 1]
<1> DEFINE n == Len(tools)
           b == node[i].at + 1
           me == [node[i] EXCEPT !.at = b]
           old == [node EXCEPT ![i] = me]
           child(k) == New(i, b, tools[k], node[i].actor, node[i].known, node[i].depth + 1)
           new == [k \in 1..n |-> child(k)]
<1>1. /\ Len(node) \in Nat /\ Nodes = 1..Len(node) /\ node[i] \in Frame /\ i \in Nat
      /\ n \in Nat /\ node \in Seq(Frame)
  BY NodesType, LenProperties DEF Frames
<1>2. /\ node[i].at \in Nat /\ b \in Nat /\ node[i].depth + 1 \in Nat
      /\ node[i].actor \in SUBSET Scopes /\ node[i].known \in BOOLEAN
  BY <1>1, FrameParts
<1> HIDE DEF b
<1>3. me \in Frame
  <2>1. \A f \in Frame : [f EXCEPT !.at = b] \in Frame
    BY <1>2, MovedFrame
  <2>2. QED
    BY <1>1, <2>1
<1> HIDE DEF me
<1>4. \A k \in 1..n : child(k) \in Frame
  <2>1. ASSUME NEW k \in 1..n PROVE child(k) \in Frame
    <3>1. tools[k] \in Tools
      BY <1>1, ElementOfSeq
    <3>2. i \in Nat
      BY <1>1
    <3> DEFINE d == node[i].depth + 1
    <3>3. d \in Nat
      BY <1>2
    <3> HIDE DEF d
    <3>4. New(i, b, tools[k], node[i].actor, node[i].known, d) \in Frame
      BY <1>2, <3>1, <3>2, <3>3, NewFrame, ZenonT(60) DEF Fresh
    <3>5. QED
      BY <3>4 DEF d
  <2>2. QED
    BY <2>1
<1> HIDE DEF child
<1>5. new \in Seq(Frame) /\ Len(new) = n /\ \A k \in 1..n : new[k] = child(k)
  BY <1>1, <1>4
<1>6. /\ old \in Seq(Frame) /\ Len(old) = Len(node)
      /\ \A j \in 1..Len(node) : old[j] = IF j = i THEN me ELSE node[j]
  BY <1>1, <1>3, ExceptSeq
<1>7. Started(i, tools) = old \o new
  BY DEF Started, me, b, child
<1> DEFINE after == Started(i, tools)
<1> HIDE DEF old, new
<1>8. /\ after \in Seq(Frame) /\ Len(after) = Len(old) + Len(new)
      /\ \A j \in 1 .. Len(old) + Len(new) :
           after[j] = IF j <= Len(old) THEN old[j] ELSE new[j - Len(old)]
  <2>1. old \in Seq(Frame) /\ new \in Seq(Frame)
    BY <1>5, <1>6
  <2>2. LET both == old \o new
        IN  /\ both \in Seq(Frame) /\ Len(both) = Len(old) + Len(new)
            /\ \A j \in 1 .. Len(old) + Len(new) :
                 both[j] = IF j <= Len(old) THEN old[j] ELSE new[j - Len(old)]
    BY <2>1, ConcatProperties
  <2>3. after = old \o new
    BY <1>7
  <2> HIDE DEF after
  <2>4. QED
    BY <2>2, <2>3
<1> HIDE DEF after
<1> HIDE DEF n
<1>9. \A j \in 1..Len(node) : after[j] = IF j = i THEN me ELSE node[j]
  <2>1. \A j \in 1..Len(node) : j \in 1 .. Len(old) + Len(new) /\ j <= Len(old)
    BY <1>1, <1>5, <1>6
  <2>2. QED
    BY <1>6, <1>8, <2>1
<1>10. \A k \in 1..n : after[Len(node) + k] = child(k)
  <2>1. ASSUME NEW k \in 1..n PROVE after[Len(node) + k] = child(k)
    <3>1. /\ Len(node) + k \in 1 .. Len(old) + Len(new) /\ ~(Len(node) + k <= Len(old))
          /\ (Len(node) + k) - Len(old) = k
      BY <1>1, <1>5, <1>6
    <3>2. QED
      BY <1>5, <1>8, <3>1
  <2>2. QED
    BY <2>1
<1>11. Called(i, n, tools, after)
  <2>1. Len(after) = Len(node) + n
    BY <1>5, <1>6, <1>8
  <2>2. \A k \in 1..n : \E c \in Nat : after[Len(node) + k]
          = New(i, c, tools[k], node[i].actor, node[i].known, node[i].depth + 1)
    BY <1>2, <1>10 DEF child
  <2>3. QED
    BY <1>1, <1>8, <1>9, <2>1, <2>2 DEF Called
<1>12. QED
  <2>1. after[i] = me
    BY <1>1, <1>9
  <2>2. QED
    BY <1>11, <2>1 DEF after, n, me, b

-----------------------------------------------------------------------------
(* The steps keep the invariant *)

(* What a frame is for good. *)
Same(f, g) ==
    /\ f.tool = g.tool /\ f.parent = g.parent /\ f.depth = g.depth
    /\ f.known = g.known /\ f.actor = g.actor

(* Frame i goes on, ends when all it called has, or makes n calls.         *)
LEMMA StepKeeps ==
    ASSUME IInv, NEW i \in Nodes, NEW n \in Nat, NEW tools,
           \A k \in 1..n : tools[k] \in Tools,
           Called(i, n, tools, node'), Same(node'[i], node[i]),
           n > 0 => Ready(i) /\ Op(i) \in Nesting,
           node'[i].pc = node[i].pc \/ (n = 0 /\ Free(i) /\ node'[i].pc = "done"),
           Pipelined(i) => node'[i].at <= Len(Steps(i)),
           node[i].steps <= node'[i].steps,
           Op(i) = "behaviour" /\ n > 0 =>
               node[i].steps + n <= node'[i].steps /\ node'[i].steps <= MaxSteps
    PROVE  IInv'
<1> DEFINE m == Len(node)
<1>1. /\ m \in Nat /\ Nodes = 1..m /\ \A j \in Nodes : node[j] \in Frame
      /\ Frames /\ Below /\ InOrder /\ Owned /\ Ceiling /\ Held /\ NothingOutlives /\ Paid
  BY NodesType DEF IInv
<1>2. node' \in Seq(Frame) /\ Len(node') = m + n /\ \A j \in Nodes : j # i => node'[j] = node[j]
  BY DEF Called
<1>3. Nodes' = 1 .. m + n /\ \A j \in Nodes' : node'[j] \in Frame
  <2>1. DOMAIN node' = 1..Len(node')
    BY <1>2, LenProperties
  <2>2. \A j \in 1..Len(node') : node'[j] \in Frame
    BY <1>2, ElementOfSeq
  <2>3. QED
    BY <1>2, <2>1, <2>2 DEF Nodes
<1> DEFINE New1(f) == /\ f.tool \in Tools
                      /\ Fresh(f, i, f.tool, node[i].actor, node[i].known, node[i].depth + 1)
<1>4. \A k \in 1..n : New1(node'[m + k])
  <2>1. ASSUME NEW k \in 1..n PROVE New1(node'[m + k])
    <3>1. PICK b \in Nat : node'[m + k]
            = New(i, b, tools[k], node[i].actor, node[i].known, node[i].depth + 1)
      BY DEF Called
    <3> DEFINE d == node[i].depth + 1
               t == tools[k]
               actor == node[i].actor
               known == node[i].known
               f == New(i, b, t, actor, known, d)
    <3>2. /\ i \in Nat /\ b \in Nat /\ d \in Nat /\ actor \in SUBSET Scopes
          /\ known \in BOOLEAN /\ t \in Tools
      BY <1>1, FrameParts
    <3>3. node'[m + k] = f
      BY <3>1
    <3> HIDE DEF d, t, actor, known
    <3>4. Fresh(f, i, t, actor, known, d)
      BY <3>2, NewFrame
    <3> HIDE DEF f
    <3>5. New1(f)
      <4>1. f.tool = t
        BY <3>4 DEF Fresh
      <4>2. QED
        BY <3>2, <3>4, <4>1 DEF d, actor, known
    <3>6. QED
      BY <3>3, <3>5
  <2>2. QED
    BY <2>1
<1>5. \A j \in Nodes' \ Nodes : j > m /\ n > 0 /\ New1(node'[j])
  <2>1. ASSUME NEW j \in Nodes' \ Nodes PROVE j > m /\ n > 0 /\ New1(node'[j])
    <3>1. j - m \in 1..n /\ m + (j - m) = j /\ j > m /\ n > 0
      BY <1>1, <1>3
    <3>2. New1(node'[m + (j - m)])
      BY <1>4, <3>1
    <3> HIDE DEF m
    <3>3. QED
      BY <3>1, <3>2
  <2>2. QED
    BY <2>1
<1>6. \A j \in Nodes : j \in Nodes' /\ Same(node'[j], node[j])
  BY <1>1, <1>2, <1>3 DEF Same
<1>7. \A j \in Nodes : node'[j].pc = "ready" => node[j].pc = "ready"
  BY <1>2
<1>8. i \in 1..m
  BY <1>1
<1> HIDE DEF m, New1
<1>9. Below'
  <2>1. ASSUME NEW j \in Nodes' PROVE node'[j].parent < j /\ (j > 1 => node'[j].parent # 0)
    <3>1. CASE j \in Nodes
      BY <1>1, <1>6, <3>1 DEF Below, Same
    <3>2. CASE j \notin Nodes
      BY <1>1, <1>3, <1>5, <1>8, <3>2 DEF New1, Fresh
    <3>3. QED
      BY <3>1, <3>2
  <2>2. QED
    BY <2>1 DEF Below
<1>10. InOrder'
  <2>1. ASSUME NEW j \in Nodes', Pipelined(j)' PROVE node'[j].at <= Len(Steps(j)')
    <3>1. CASE j \in Nodes
      <4>1. Pipelined(j) /\ Steps(j)' = Steps(j)
        BY <1>6, <2>1, <3>1 DEF Pipelined, Op, Kind, Steps, Same
      <4>2. QED
        BY <1>1, <1>2, <3>1, <4>1 DEF InOrder
    <3>2. CASE j \notin Nodes
      <4>1. node'[j].at = 0 /\ node'[j].tool \in Tools
        BY <1>5, <3>2 DEF New1, Fresh
      <4>2. Steps(j)' \in Seq(Tools)
        BY <2>1, <4>1, TreeAssumption DEF Pipelined, Op, Steps
      <4>3. QED
        BY <4>1, <4>2, LenProperties
    <3>3. QED
      BY <3>1, <3>2
  <2>2. QED
    BY <2>1 DEF InOrder
<1>11. Owned'
  <2>1. 1 \in Nodes /\ node'[1].known = node[1].known
    BY <1>1, <1>6, <1>8 DEF Same
  <2>2. ASSUME NEW j \in Nodes'
        PROVE  /\ node'[j].known = node'[1].known
               /\ Ready(j)' /\ (Op(j)' = "own" \/ Table[node'[j].tool].session)
                    => node'[j].known
    <3>1. CASE j \in Nodes
      <4>1. node'[j].known = node[j].known /\ Op(j)' = Op(j) /\ node'[j].tool = node[j].tool
        BY <1>6, <3>1 DEF Same, Op
      <4>2. QED
        BY <1>1, <1>7, <2>1, <3>1, <4>1 DEF Owned, Ready
    <3>2. CASE j \notin Nodes
      BY <1>1, <1>5, <2>1, <3>2 DEF New1, Fresh, Owned, Ready, Op
    <3>3. QED
      BY <3>1, <3>2
  <2>3. QED
    BY <2>2 DEF Owned
<1>12. Ceiling'
  <2>1. ASSUME NEW j \in Nodes'
        PROVE  /\ node'[j].depth <= MaxDepth
               /\ Ready(j)' /\ Op(j)' \in Nesting => node'[j].depth < MaxDepth
    <3>1. CASE j \in Nodes
      BY <1>1, <1>6, <1>7, <3>1 DEF Ceiling, Same, Op, Ready
    <3>2. CASE j \notin Nodes
      <4>1. node[i].depth \in Nat /\ MaxDepth \in Nat
        BY <1>1, FrameParts, TreeAssumption
      <4>2. node[i].depth < MaxDepth
        BY <1>1, <1>5, <3>2 DEF Ceiling
      <4>3. /\ node'[j].depth = node[i].depth + 1
            /\ Ready(j)' /\ Op(j)' \in Nesting => node'[j].depth < MaxDepth
        BY <1>5, <3>2 DEF New1, Fresh, Op, Ready
      <4>4. QED
        BY <4>1, <4>2, <4>3
    <3>3. QED
      BY <3>1, <3>2
  <2>2. QED
    BY <2>1 DEF Ceiling
<1>13. Held'
  <2>1. ASSUME NEW j \in Nodes', j > 1
        PROVE  /\ node'[j].actor \subseteq node'[node'[j].parent].actor
               /\ Ready(j)' =>
                    Table[node'[j].tool].needs \subseteq node'[node'[j].parent].actor
    <3>1. CASE j \in Nodes
      <4>1. /\ node'[j].parent = node[j].parent /\ node'[j].actor = node[j].actor
            /\ node'[j].tool = node[j].tool
        BY <1>6, <3>1 DEF Same
      <4>2. node[j].parent \in Nodes
        <5>1. node[j].parent \in Nat /\ node[j].parent < j /\ node[j].parent # 0
          BY <1>1, <2>1, <3>1, FrameParts DEF Below
        <5>2. QED
          BY <1>1, <3>1, <5>1
      <4>3. node'[node[j].parent].actor = node[node[j].parent].actor
        BY <1>6, <4>2 DEF Same
      <4>4. QED
        BY <1>1, <1>7, <2>1, <3>1, <4>1, <4>3 DEF Held, Ready
    <3>2. CASE j \notin Nodes
      <4>1. node'[i].actor = node[i].actor
        BY <1>6 DEF Same
      <4>2. QED
        BY <1>5, <3>2, <4>1 DEF New1, Fresh, Ready
    <3>3. QED
      BY <3>1, <3>2
  <2>2. QED
    BY <2>1 DEF Held
<1>14. \A j \in Nodes : Children(j)' = Children(j) \cup (IF j = i THEN Nodes' \ Nodes ELSE {})
  <2>1. \A j, c : j \in Nodes /\ c \in Nodes => (node'[c].parent = j <=> node[c].parent = j)
    BY <1>6 DEF Same
  <2>2. \A c \in Nodes' \ Nodes : node'[c].parent = i
    BY <1>5 DEF New1, Fresh
  <2>3. QED
    BY <1>6, <2>1, <2>2 DEF Children
<1>15. \A j \in Nodes' \ Nodes : Children(j)' = {}
  <2>1. ASSUME NEW j \in Nodes' \ Nodes, NEW c \in Nodes', node'[c].parent = j PROVE FALSE
    <3>1. CASE c \in Nodes
      <4>1. node[c].parent = j /\ node[c].parent \in Nat /\ node[c].parent < c
        BY <1>1, <1>6, <2>1, <3>1, FrameParts DEF Same, Below
      <4>2. QED
        BY <1>1, <1>5, <3>1, <4>1
    <3>2. CASE c \notin Nodes
      BY <1>5, <2>1, <3>2 DEF New1, Fresh
    <3>3. QED
      BY <3>1, <3>2
  <2>2. QED
    BY <2>1 DEF Children
<1>16. NothingOutlives'
  <2>1. ASSUME NEW j \in Nodes', Done(j)', NEW c \in Children(j)' PROVE Done(c)'
    <3>1. j \in Nodes
      BY <1>15, <2>1
    <3>2. CASE j = i /\ node'[i].pc # node[i].pc
      <4>1. n = 0 /\ Free(i)
        BY <3>2
      <4>2. Nodes' = Nodes
        BY <1>1, <1>3, <4>1
      <4>3. c \in Children(i) /\ c \in Nodes
        BY <1>14, <3>2, <4>2 DEF Children
      <4>4. c # i
        BY <1>1, <4>3 DEF Children, Below
      <4>5. QED
        BY <1>2, <4>1, <4>3, <4>4 DEF Free, Done
    <3>3. CASE ~(j = i /\ node'[i].pc # node[i].pc)
      <4>1. Done(j)
        BY <1>2, <2>1, <3>1, <3>3 DEF Done
      <4>2. ~(j = i /\ n > 0)
        BY <4>1 DEF Done, Ready
      <4>3. c \in Children(j) /\ c \in Nodes
        BY <1>5, <1>14, <3>1, <4>2 DEF Children
      <4>4. Done(c)
        BY <1>1, <3>1, <4>1, <4>3 DEF NothingOutlives
      <4>5. QED
        BY <1>2, <4>3, <4>4 DEF Done
    <3>4. QED
      BY <3>2, <3>3
  <2>2. QED
    BY <2>1 DEF NothingOutlives
<1>17. Paid'
  <2>1. ASSUME NEW j \in Nodes', Op(j)' = "behaviour"
        PROVE  Cardinality(Children(j)') <= node'[j].steps /\ Cardinality(Children(j)') <= MaxSteps
    <3>1. CASE j \notin Nodes
      <4>1. Cardinality(Children(j)') = 0 /\ node'[j].steps = 0
        BY <1>5, <1>15, <3>1, FS_EmptySet DEF New1, Fresh
      <4>2. QED
        BY <4>1, TreeAssumption
    <3>2. CASE j \in Nodes
      <4>1. Op(j) = "behaviour"
        BY <1>6, <2>1, <3>2 DEF Op, Same
      <4>2. Cardinality(Children(j)) <= node[j].steps /\ Cardinality(Children(j)) <= MaxSteps
        BY <1>1, <3>2, <4>1 DEF Paid
      <4>3. node'[j].steps \in Nat /\ node[j].steps \in Nat /\ MaxSteps \in Nat
        BY <1>1, <1>3, <1>6, <3>2, FrameParts, TreeAssumption, SMTT(30)
      <4>4. IsFiniteSet(Children(j)) /\ Cardinality(Children(j)) \in Nat
        <5>1. IsFiniteSet(Nodes)
          BY <1>1, FS_Interval
        <5>2. Children(j) \in SUBSET Nodes
          BY DEF Children
        <5>3. QED
          BY <5>1, <5>2, FS_Subset, FS_CardinalityType
      <4>5. CASE j = i /\ n > 0
        <5>1. IsFiniteSet(Nodes' \ Nodes) /\ Cardinality(Nodes' \ Nodes) = n
          <6> DEFINE first == m + 1
                     last == m + n
          <6>1. Nodes' \ Nodes = first .. last /\ first \in Int /\ last \in Int
            BY <1>1, <1>3
          <6>2. (IF first > last THEN 0 ELSE (last - first) + 1) = n
            BY <1>1
          <6> HIDE DEF first, last
          <6>3. /\ IsFiniteSet(first .. last)
                /\ Cardinality(first .. last) = IF first > last THEN 0 ELSE (last - first) + 1
            BY <6>1, FS_Interval
          <6>4. QED
            BY <6>1, <6>2, <6>3
        <5>2. Children(i) \cap (Nodes' \ Nodes) = {}
          BY DEF Children
        <5>3. Children(i)' = Children(i) \cup (Nodes' \ Nodes)
          BY <1>14
        <5>4. Cardinality(Children(i)') = Cardinality(Children(i)) + n
          <6>1. Cardinality(Children(i) \cap (Nodes' \ Nodes)) = 0
            BY <5>2, FS_EmptySet
          <6>2. Cardinality(Children(i) \cup (Nodes' \ Nodes))
                  = Cardinality(Children(i)) + Cardinality(Nodes' \ Nodes)
                    - Cardinality(Children(i) \cap (Nodes' \ Nodes))
            BY <4>4, <4>5, <5>1, FS_Union
          <6>3. QED
            BY <4>4, <4>5, <5>1, <5>3, <6>1, <6>2
        <5>5. node[i].steps + n <= node'[i].steps /\ node'[i].steps <= MaxSteps
          BY <4>1, <4>5
        <5>6. QED
          BY <4>2, <4>3, <4>4, <4>5, <5>4, <5>5
      <4>6. CASE ~(j = i /\ n > 0)
        <5>1. Children(j)' = Children(j)
          BY <1>5, <1>14, <3>2, <4>6
        <5>2. node[j].steps <= node'[j].steps
          BY <1>2, <3>2, <4>3
        <5>3. QED
          BY <4>2, <4>3, <4>4, <5>1, <5>2
      <4>7. QED
        BY <4>5, <4>6
    <3>3. QED
      BY <3>1, <3>2
  <2>2. QED
    BY <2>1 DEF Paid
<1>18. QED
  BY <1>2, <1>9, <1>10, <1>11, <1>12, <1>13, <1>16, <1>17 DEF IInv, Frames

(* Only what frame i says of itself changes. *)
LEMMA ChangeKeeps ==
    ASSUME IInv, NEW i \in Nodes, NEW me \in Frame, node' = [node EXCEPT ![i] = me],
           Same(me, node[i]), me.at = node[i].at, node[i].steps <= me.steps,
           me.pc = node[i].pc \/ (Free(i) /\ me.pc = "done")
    PROVE  IInv'
<1>1. /\ Len(node) \in Nat /\ Nodes = 1..Len(node) /\ node \in Seq(Frame)
      /\ i \in 1..Len(node)
  BY NodesType DEF IInv, Frames
<1>2. /\ node' \in Seq(Frame) /\ Len(node') = Len(node) + 0
      /\ \A j \in 1..Len(node) : node'[j] = IF j = i THEN me ELSE node[j]
  BY <1>1, ExceptSeq
<1>3. Called(i, 0, <<>>, node') /\ node'[i] = me
  BY <1>1, <1>2 DEF Called
<1>4. Pipelined(i) => node'[i].at <= Len(Steps(i))
  BY <1>3 DEF IInv, InOrder
<1>5. /\ Same(node'[i], node[i]) /\ node[i].steps <= node'[i].steps
      /\ node'[i].pc = node[i].pc \/ (Free(i) /\ node'[i].pc = "done")
  BY <1>3
<1>6. 0 \in Nat /\ ~(0 > 0) /\ \A k \in 1..0 : <<>>[k] \in Tools
  OBVIOUS
<1>7. QED
  BY <1>3, <1>4, <1>5, <1>6, StepKeeps

LEMMA FinishKeeps ==
    ASSUME IInv, NEW i \in Nodes, Free(i), NEW result \in Results, Finish(i, result)
    PROVE  IInv'
<1> DEFINE me == [node[i] EXCEPT !.pc = "done", !.result = result]
<1>1. node[i] \in Frame
  BY NodesType DEF IInv
<1>2. me \in Frame /\ me.pc = "done" /\ me.at = node[i].at /\ me.steps = node[i].steps
  BY <1>1 DEF Frame
<1>3. Same(me, node[i])
  BY <1>1 DEF Same, Frame
<1>4. node' = [node EXCEPT ![i] = me]
  BY DEF Finish
<1>5. node[i].steps <= me.steps
  BY <1>1, <1>2, FrameParts, TreeAssumption
<1>6. QED
  BY <1>2, <1>3, <1>4, <1>5, ChangeKeeps

(* Frame i makes calls; steps is what it has then charged.                 *)
LEMMA CallsKeep ==
    ASSUME IInv, NEW i \in Nodes, Free(i), Op(i) \in Nesting, NEW tools \in Seq(Tools),
           NEW steps \in 0 .. MaxSteps + 1, node[i].steps <= steps,
           Op(i) = "behaviour" => node[i].steps + Len(tools) <= steps /\ steps <= MaxSteps,
           Pipelined(i) => node[i].at < Len(Steps(i)),
           node' = [Started(i, tools) EXCEPT ![i].steps = steps]
    PROVE  IInv'
<1> DEFINE after == Started(i, tools)
           n == Len(tools)
           b == node[i].at + 1
           moved == [node[i] EXCEPT !.at = b]
           me == [moved EXCEPT !.steps = steps]
<1>1. /\ Len(node) \in Nat /\ Nodes = 1..Len(node) /\ node[i] \in Frame /\ Frames
      /\ i \in 1..Len(node)
  BY NodesType DEF IInv
<1>2. Called(i, n, tools, after) /\ after[i] = moved
  BY <1>1, StartedFrames
<1>3. b \in Nat /\ n \in Nat /\ \A k \in 1..n : tools[k] \in Tools
  BY <1>1, FrameParts, LenProperties, ElementOfSeq
<1>4. node' = [after EXCEPT ![i] = me]
  BY <1>2
<1> HIDE DEF after, n, b
<1>5. moved \in Frame /\ moved.at = b /\ Same(moved, node[i])
  BY <1>1, <1>3 DEF Frame, Same
<1>6. moved.pc = node[i].pc
  BY <1>1 DEF Frame
<1> HIDE DEF moved
<1>7. me \in Frame /\ me.at = moved.at /\ me.pc = moved.pc /\ me.steps = steps
      /\ Same(me, moved)
  BY <1>5 DEF Frame, Same
<1> HIDE DEF me
<1>8. /\ after \in Seq(Frame) /\ Len(after) = Len(node) + n /\ i \in 1..Len(after)
  BY <1>1, <1>2, <1>3 DEF Called
<1>9. /\ node' \in Seq(Frame) /\ Len(node') = Len(after)
      /\ \A j \in 1..Len(after) : node'[j] = IF j = i THEN me ELSE after[j]
  <2>1. me \in Frame
    BY <1>7
  <2>2. LET new == [after EXCEPT ![i] = me]
        IN  /\ new \in Seq(Frame) /\ Len(new) = Len(after)
            /\ \A j \in 1..Len(after) : new[j] = IF j = i THEN me ELSE after[j]
    BY <1>8, <2>1, ExceptSeq
  <2>3. QED
    BY <1>4, <2>2
<1>10. Called(i, n, tools, node') /\ node'[i] = me
  <2>1. \A j \in Nodes : j # i => node'[j] = node[j]
    BY <1>1, <1>2, <1>3, <1>8, <1>9 DEF Called
  <2>2. \A k \in 1..n : node'[Len(node) + k] = after[Len(node) + k]
    BY <1>1, <1>3, <1>8, <1>9
  <2>3. \A k \in 1..n : \E c \in Nat : node'[Len(node) + k]
          = New(i, c, tools[k], node[i].actor, node[i].known, node[i].depth + 1)
    BY <1>2, <2>2 DEF Called
  <2>4. QED
    BY <1>8, <1>9, <2>1, <2>3 DEF Called
<1>11. Pipelined(i) => node'[i].at <= Len(Steps(i))
  <2>1. ASSUME Pipelined(i) PROVE node'[i].at <= Len(Steps(i))
    <3>1. node[i].at \in Nat /\ node[i].tool \in Tools /\ node'[i].at = node[i].at + 1
      BY <1>1, <1>5, <1>7, <1>10, FrameParts DEF b
    <3>2. Len(Steps(i)) \in Nat
      BY <2>1, <3>1, LenProperties, TreeAssumption DEF Pipelined, Op, Steps
    <3>3. QED
      BY <2>1, <3>1, <3>2
  <2>2. QED
    BY <2>1
<1>12. Same(node'[i], node[i])
  BY <1>5, <1>7, <1>10 DEF Same
<1>13. /\ Ready(i) /\ node'[i].pc = node[i].pc /\ node[i].steps <= node'[i].steps
       /\ Op(i) = "behaviour" =>
            node[i].steps + n <= node'[i].steps /\ node'[i].steps <= MaxSteps
  BY <1>6, <1>7, <1>10 DEF Free, Ready, n
<1>14. QED
  BY <1>3, <1>10, <1>11, <1>12, <1>13, StepKeeps

LEMMA StartKeeps ==
    ASSUME IInv, NEW i \in Nodes, Free(i), Op(i) \in {"agent", "flow"},
           NEW tools \in Seq(Tools), Pipelined(i) => node[i].at < Len(Steps(i)),
           Start(i, tools)
    PROVE  IInv'
<1> DEFINE after == Started(i, tools)
           s == node[i].steps
<1>1. /\ Len(node) \in Nat /\ Nodes = 1..Len(node) /\ node[i] \in Frame /\ Frames
      /\ i \in 1..Len(node)
  BY NodesType DEF IInv
<1>2. /\ Called(i, Len(tools), tools, after) /\ Len(tools) \in Nat
      /\ after[i] = [node[i] EXCEPT !.at = node[i].at + 1]
  BY <1>1, StartedFrames, LenProperties
<1>3. after[i].steps = s /\ after[i] \in Frame /\ i \in DOMAIN after
  <2>1. after \in Seq(Frame) /\ i \in 1..Len(after)
    BY <1>1, <1>2 DEF Called
  <2>2. after[i].steps = s
    BY <1>1, <1>2 DEF Frame
  <2>3. QED
    BY <2>1, <2>2, LenProperties, ElementOfSeq
<1>4. s \in 0 .. MaxSteps + 1 /\ s <= s
  BY <1>1, FrameParts, TreeAssumption
<1>5. node' = after
  BY DEF Start
<1>6. after = [after EXCEPT ![i].steps = s]
  <2> HIDE DEF after, s
  <2>1. [after[i] EXCEPT !.steps = s] = after[i]
    BY <1>3 DEF Frame
  <2>2. after \in Seq(Frame)
    BY <1>2 DEF Called
  <2>3. after = [j \in DOMAIN after |-> after[j]]
    BY <2>2, LenProperties
  <2>4. QED
    BY <1>3, <2>1, <2>3
<1>7. node' = [Started(i, tools) EXCEPT ![i].steps = s]
  BY <1>5, <1>6
<1> HIDE DEF s
<1>8. QED
  BY <1>4, <1>7, CallsKeep DEF Nesting, s

LEMMA InitIInv == Init => IInv
  BY EmptySeq DEF Init, IInv, Frames, Below, InOrder, Owned, Ceiling, Held, NothingOutlives,
     Paid, Nodes

(* A request comes in, and is refused or begins at depth 0.                *)
LEMMA RootKeeps == ASSUME NEW c \in Callers, NEW t \in Tools, Root(c, t) PROVE IInv'
<1> DEFINE f == New(0, 0, t, c.scopes, c.known, 0)
<1>1. Fresh(f, 0, t, c.scopes, c.known, 0)
  <2>1. c.scopes \in SUBSET Scopes /\ c.known \in BOOLEAN
    BY TreeAssumption
  <2>2. QED
    BY <2>1, NewFrame
<1>2. node' = <<f>>
  BY DEF Root
<1> HIDE DEF f
<1>3. /\ node' \in Seq(Frame) /\ Nodes' = {1} /\ node'[1] = f
      /\ f.parent = 0 /\ f.depth = 0 /\ f.at = 0 /\ f.steps = 0 /\ f.tool = t
  BY <1>1, <1>2 DEF Fresh, Nodes
<1>4. Children(1)' = {}
  BY <1>3 DEF Children
<1>5. Below'
  BY <1>3 DEF Below
<1>6. InOrder'
  <2>1. ASSUME Pipelined(1)' PROVE Len(Steps(1)') \in Nat
    <3>1. Steps(1)' \in Seq(Tools)
      BY <1>3, <2>1, TreeAssumption DEF Pipelined, Op, Steps
    <3>2. QED
      BY <3>1, LenProperties
  <2>2. QED
    BY <1>3, <2>1 DEF InOrder
<1>7. Owned'
  BY <1>1, <1>3 DEF Owned, Fresh, Ready, Op
<1>8. Ceiling'
  BY <1>1, <1>3, TreeAssumption DEF Ceiling, Fresh, Ready, Op
<1>9. Held'
  BY <1>3 DEF Held
<1>10. NothingOutlives'
  BY <1>3, <1>4 DEF NothingOutlives
<1>11. Paid'
  <2>1. Cardinality(Children(1)') = 0
    BY <1>4, FS_EmptySet
  <2>2. node'[1].steps = 0 /\ MaxSteps \in Nat
    BY <1>3, TreeAssumption
  <2>3. QED
    BY <1>3, <2>1, <2>2 DEF Paid
<1>12. QED
  BY <1>3, <1>5, <1>6, <1>7, <1>8, <1>9, <1>10, <1>11 DEF IInv, Frames

LEMMA FlowType ==
    ASSUME IInv, NEW i \in Nodes, Op(i) = "flow"
    PROVE  /\ Steps(i) \in Seq(Tools) /\ Len(Steps(i)) \in Nat
           /\ \A k \in DOMAIN Steps(i) : <<Steps(i)[k]>> \in Seq(Tools)
<1>1. node[i].tool \in Tools
  BY NodesType, FrameParts DEF IInv
<1>2. Steps(i) \in Seq(Tools)
  BY <1>1, TreeAssumption DEF Op, Steps
<1>3. \A k \in DOMAIN Steps(i) : Steps(i)[k] \in Tools
  BY <1>2, LenProperties, ElementOfSeq
<1>4. QED
  BY <1>2, <1>3, LenProperties

LEMMA FlowKeeps ==
    ASSUME IInv, NEW i \in Nodes,
           FlowFails(i) \/ Pipeline(i) \/ Parallel(i) \/ Classify(i) \/ Choice(i)
    PROVE  IInv'
<1>1. Op(i) = "flow" /\ Free(i)
  BY DEF FlowFails, Joined, FlowGoes, Pipeline, Parallel, Classify, Choice
<1>2. /\ Steps(i) \in Seq(Tools) /\ Len(Steps(i)) \in Nat
      /\ \A k \in DOMAIN Steps(i) : <<Steps(i)[k]>> \in Seq(Tools)
  BY <1>1, FlowType
<1>3. CASE \E result \in Results : Finish(i, result)
  BY <1>1, <1>3, FinishKeeps
<1>4. CASE FlowFails(i) \/ Choice(i)
  BY <1>3, <1>4 DEF FlowFails, Choice, Results
<1>5. CASE Pipeline(i)
  <2>1. CASE Exhausted \/ node[i].at = Len(Steps(i))
    BY <1>3, <1>5, <2>1 DEF Pipeline, Concluded, Results
  <2>2. CASE ~(Exhausted \/ node[i].at = Len(Steps(i)))
    <3>1. Pipelined(i) /\ Start(i, <<Steps(i)[node[i].at + 1]>>)
      BY <1>1, <1>5, <2>2 DEF Pipeline, Pipelined
    <3>2. node[i].at \in Nat /\ node[i].at <= Len(Steps(i))
      BY <3>1, NodesType, FrameParts DEF IInv, InOrder
    <3>3. node[i].at < Len(Steps(i)) /\ node[i].at + 1 \in DOMAIN Steps(i)
      BY <1>2, <2>2, <3>2, LenProperties
    <3> DEFINE tools == <<Steps(i)[node[i].at + 1]>>
    <3>4. tools \in Seq(Tools)
      BY <1>2, <3>3
    <3> HIDE DEF tools
    <3>5. QED
      BY <1>1, <3>1, <3>3, <3>4, StartKeeps DEF tools
  <2>3. QED
    BY <2>1, <2>2
<1>6. CASE Parallel(i)
  <2>1. ~Pipelined(i)
    BY <1>6 DEF Parallel, Pipelined
  <2>2. CASE Exhausted \/ node[i].at = 1
    BY <1>3, <1>6, <2>2 DEF Parallel, Concluded, Results
  <2>3. CASE ~(Exhausted \/ node[i].at = 1)
    BY <1>1, <1>2, <1>6, <2>1, <2>3, StartKeeps DEF Parallel
  <2>4. QED
    BY <2>2, <2>3
<1>7. CASE Classify(i)
  <2>1. ~Pipelined(i)
    BY <1>7 DEF Classify, Pipelined
  <2>2. (\E k \in DOMAIN Steps(i) : Start(i, <<Steps(i)[k]>>)) \/ Finish(i, "error")
    BY <1>7 DEF Classify
  <2>3. ASSUME NEW k \in DOMAIN Steps(i), Start(i, <<Steps(i)[k]>>) PROVE IInv'
    <3> DEFINE tools == <<Steps(i)[k]>>
    <3>1. tools \in Seq(Tools) /\ Start(i, tools)
      BY <1>2, <2>3
    <3> HIDE DEF tools
    <3>2. QED
      BY <1>1, <2>1, <3>1, StartKeeps
  <2>4. QED
    BY <1>3, <2>2, <2>3 DEF Results
<1>8. QED
  BY <1>4, <1>5, <1>6, <1>7

LEMMA AgentKeeps ==
    ASSUME IInv, NEW i \in Nodes, AgentStops(i) \/ AgentSteps(i)
    PROVE  IInv'
<1>1. Op(i) = "agent" /\ Free(i)
  BY DEF AgentStops, AgentSteps
<1>2. CASE \E result \in Results : Finish(i, result)
  BY <1>1, <1>2, FinishKeeps
<1>3. CASE AgentStops(i)
  BY <1>2, <1>3 DEF AgentStops, Results
<1>4. CASE AgentSteps(i)
  <2>1. node[i] \in Frame /\ node[i].tool \in Tools /\ Frames
    BY NodesType, FrameParts DEF IInv
  <2>2. MayCall[node[i].tool] \subseteq Tools
    BY <1>1, <2>1, TreeAssumption DEF Op
  <2>3. ASSUME NEW t \in Tools, node' = [Started(i, <<t>>) EXCEPT ![i].steps = @ + 1],
               node[i].steps < MaxSteps
        PROVE  IInv'
    <3> DEFINE tools == <<t>>
               steps == node[i].steps + 1
    <3>1. tools \in Seq(Tools)
      OBVIOUS
    <3>2. Started(i, tools)[i].steps = node[i].steps
      BY <2>1, <3>1, StartedFrames, ZenonT(60) DEF Frame
    <3>3. node' = [Started(i, tools) EXCEPT ![i].steps = steps]
      BY <2>3, <3>2
    <3>4. steps \in 0 .. MaxSteps + 1 /\ node[i].steps <= steps
      BY <2>1, <2>3, FrameParts, TreeAssumption
    <3> HIDE DEF tools, steps
    <3>5. QED
      BY <1>1, <3>1, <3>3, <3>4, CallsKeep DEF Nesting, Pipelined
  <2>4. \/ \E result \in Results : Finish(i, result)
        \/ /\ node[i].steps < MaxSteps
           /\ \E t \in Tools : node' = [Started(i, <<t>>) EXCEPT ![i].steps = @ + 1]
    BY <1>4, <2>2 DEF AgentSteps, Results
  <2>5. QED
    BY <1>2, <2>3, <2>4
<1>5. QED
  BY <1>3, <1>4

LEMMA ChargedType ==
    ASSUME IInv, NEW i \in Nodes, NEW n \in Nat
    PROVE  /\ Charged(i, n) \in 0 .. MaxSteps + 1 /\ node[i].steps <= Charged(i, n)
           /\ Charged(i, n) <= MaxSteps => Charged(i, n) = node[i].steps + n
<1>1. node[i].steps \in 0 .. MaxSteps + 1 /\ MaxSteps \in Nat
  BY NodesType, FrameParts, TreeAssumption DEF IInv
<1>2. QED
  BY <1>1 DEF Charged

LEMMA BehaviourKeeps ==
    ASSUME IInv, NEW i \in Nodes,
           \/ \E n \in 1 .. 2 : \E tools \in [1 .. n -> Tools] : Calls(i, tools)
           \/ \E n \in 1 .. Concurrent : Asks(i, n)
           \/ Told(i) \/ Settle(i) \/ Ends(i)
    PROVE  IInv'
<1>1. /\ node[i] \in Frame /\ node[i].steps \in 0 .. MaxSteps + 1
      /\ node[i].asking \in 0 .. Concurrent /\ node[i].owed \in Seq(Nat)
      /\ MaxSteps \in Nat /\ Concurrent \in Nat
  BY NodesType, FrameParts, TreeAssumption DEF IInv
<1>2. ASSUME NEW n \in 1 .. 2, NEW tools \in [1 .. n -> Tools], Calls(i, tools) PROVE IInv'
  <2> DEFINE steps == Charged(i, Len(tools))
  <2>1. tools \in Seq(Tools) /\ Len(tools) \in Nat
    OBVIOUS
  <2>2. /\ steps \in 0 .. MaxSteps + 1 /\ node[i].steps <= steps
        /\ steps <= MaxSteps => steps = node[i].steps + Len(tools)
    BY <2>1, ChargedType
  <2>3. Op(i) = "behaviour" /\ Free(i)
    BY <1>2 DEF Calls, Scripted
  <2>4. node' = IF steps > MaxSteps THEN [node EXCEPT ![i].steps = steps]
                ELSE [Started(i, tools) EXCEPT ![i].steps = steps]
    BY <1>2 DEF Calls
  <2> HIDE DEF steps
  <2>5. CASE steps > MaxSteps
    <3> DEFINE me == [node[i] EXCEPT !.steps = steps]
    <3>1. /\ me \in Frame /\ me.at = node[i].at /\ me.pc = node[i].pc /\ me.steps = steps
          /\ Same(me, node[i])
      BY <1>1, <2>2 DEF Frame, Same
    <3>2. node' = [node EXCEPT ![i] = me]
      BY <2>4, <2>5
    <3> HIDE DEF me
    <3>3. QED
      BY <2>2, <3>1, <3>2, ChangeKeeps
  <2>6. CASE ~(steps > MaxSteps)
    <3>1. steps <= MaxSteps /\ node[i].steps + Len(tools) <= steps
      BY <1>1, <2>1, <2>2, <2>6
    <3>2. QED
      BY <2>1, <2>2, <2>3, <2>4, <2>6, <3>1, CallsKeep DEF Nesting, Pipelined
  <2>7. QED
    BY <2>5, <2>6
<1>3. ASSUME NEW n \in 1 .. Concurrent, Asks(i, n) PROVE IInv'
  <2> DEFINE steps == Charged(i, n)
             asking == IF steps > MaxSteps THEN 0 ELSE n
             me == [node[i] EXCEPT !.steps = steps, !.asking = asking]
  <2>1. steps \in 0 .. MaxSteps + 1 /\ node[i].steps <= steps
    BY <1>1, ChargedType
  <2>2. node' = [node EXCEPT ![i] = me]
    BY <1>3 DEF Asks
  <2> HIDE DEF steps
  <2>3. asking \in 0 .. Concurrent
    BY <1>1
  <2> HIDE DEF asking
  <2>4. /\ me \in Frame /\ me.at = node[i].at /\ me.pc = node[i].pc /\ me.steps = steps
        /\ Same(me, node[i])
    BY <1>1, <2>1, <2>3 DEF Frame, Same
  <2> HIDE DEF me
  <2>5. QED
    BY <2>1, <2>2, <2>4, ChangeKeeps
<1>4. ASSUME NEW asking \in 0 .. Concurrent, NEW owed \in Seq(Nat),
             node' = [node EXCEPT ![i] = [node[i] EXCEPT !.asking = asking, !.owed = owed]]
      PROVE  IInv'
  <2> DEFINE me == [node[i] EXCEPT !.asking = asking, !.owed = owed]
  <2>1. /\ me \in Frame /\ me.at = node[i].at /\ me.pc = node[i].pc
        /\ me.steps = node[i].steps /\ Same(me, node[i])
    BY <1>1 DEF Frame, Same
  <2>2. node' = [node EXCEPT ![i] = me] /\ node[i].steps <= me.steps
    BY <1>1, <1>4, <2>1
  <2> HIDE DEF me
  <2>3. QED
    BY <2>1, <2>2, ChangeKeeps
<1>5. CASE Told(i)
  <2> DEFINE left == node[i].asking - 1
  <2>1. left \in 0 .. Concurrent
    BY <1>1, <1>5 DEF Told
  <2>2. \E owed \in Seq(Nat) :
          node' = [node EXCEPT ![i] = [node[i] EXCEPT !.asking = left, !.owed = owed]]
    <3>1. CASE \E c \in Costs : node' = [node EXCEPT ![i].asking = @ - 1,
                                                     ![i].owed = Append(@, c)]
      <4>1. PICK c \in Costs : node' = [node EXCEPT ![i].asking = @ - 1,
                                                    ![i].owed = Append(@, c)]
        BY <3>1
      <4>2. Append(node[i].owed, c) \in Seq(Nat)
        BY <1>1, TreeAssumption, AppendProperties
      <4>3. QED
        BY <4>1, <4>2
    <3>2. CASE node' = [node EXCEPT ![i].asking = @ - 1]
      <4>1. [node[i] EXCEPT !.asking = left]
              = [node[i] EXCEPT !.asking = left, !.owed = node[i].owed]
        BY <1>1 DEF Frame
      <4>2. QED
        BY <1>1, <3>2, <4>1
    <3>3. QED
      BY <1>5, <3>1, <3>2 DEF Told
  <2>3. QED
    BY <1>4, <2>1, <2>2
<1>6. CASE Settle(i)
  <2>1. <<>> \in Seq(Nat)
    BY EmptySeq
  <2>2. [node[i] EXCEPT !.owed = <<>>]
          = [node[i] EXCEPT !.asking = node[i].asking, !.owed = <<>>]
    BY <1>1 DEF Frame
  <2>3. node' = [node EXCEPT ![i] = [node[i] EXCEPT !.asking = node[i].asking, !.owed = <<>>]]
    BY <1>6, <2>2 DEF Settle
  <2>4. QED
    BY <1>1, <1>4, <2>1, <2>3
<1>7. CASE Ends(i)
  <2>1. PICK result \in {"ok", "error"} : Finish(i, result)
    BY <1>7 DEF Ends
  <2>2. Free(i) /\ result \in Results
    BY <1>7 DEF Ends, Scripted, Results
  <2>3. QED
    BY <2>1, <2>2, FinishKeeps
<1>8. QED
  BY <1>2, <1>3, <1>5, <1>6, <1>7

LEMMA AnswerKeeps == ASSUME IInv, NEW i \in Nodes, Answer(i) PROVE IInv'
<1>1. PICK result \in {"ok", "error"} : Finish(i, result)
  BY DEF Answer
<1>2. Free(i) /\ result \in Results
  BY DEF Answer, Results
<1>3. QED
  BY <1>1, <1>2, FinishKeeps

THEOREM NextIInv == IInv /\ [Next]_vars => IInv'
<1>1. SUFFICES ASSUME IInv, [Next]_vars PROVE IInv'
  OBVIOUS
<1>2. CASE \E c \in Callers, t \in Tools : Root(c, t)
  BY <1>2, RootKeeps
<1>3. CASE Step
  BY <1>1, <1>3, AnswerKeeps, FlowKeeps, AgentKeeps, BehaviourKeeps DEF Step
<1>4. CASE UNCHANGED vars
  <2>1. node' = node
    BY <1>4 DEF vars
  <2>2. QED
    BY <1>1, <2>1, ZenonT(60) DEF IInv, Frames, Below, InOrder, Owned, Ceiling, Held, NothingOutlives, Paid,
       Nodes, Pipelined, Op, Kind, Steps, Ready, Children, Done
<1>5. QED
  BY <1>1, <1>2, <1>3, <1>4 DEF Next

-----------------------------------------------------------------------------
(* The tokens of the tree *)

(* What the behaviours of a tree of frames have been told and not charged. *)
Owed(frames) == [j \in DOMAIN frames |-> SumOf(frames[j].owed)]
Debts(frames) == SumOf(Owed(frames))

Balanced == spent \in Nat /\ received \in Nat /\ PaidInFull

(* A step that leaves every debt alone.                                    *)
SameDebts(old, new) ==
    /\ DOMAIN old \subseteq DOMAIN new
    /\ \A j \in DOMAIN old : new[j].owed = old[j].owed
    /\ \A j \in DOMAIN new \ DOMAIN old : new[j].owed = <<>>

LEMMA SumOfCosts ==
    ASSUME NEW costs \in Seq(Nat)
    PROVE  SumOf(costs) \in Nat
<1>1. costs \in [1..Len(costs) -> Nat] /\ Len(costs) \in Nat
  BY LenProperties
<1>2. IsFiniteSet(1..Len(costs))
  BY <1>1, FS_Interval
<1>3. QED
  BY <1>1, <1>2, SumType DEF SumOf

LEMMA SumOfNone == SumOf(<<>>) = 0
<1>1. DOMAIN <<>> = {}
  OBVIOUS
<1>2. QED
  BY <1>1, SumEmpty DEF SumOf

LEMMA SumOfAppend ==
    ASSUME NEW costs \in Seq(Nat), NEW c \in Nat
    PROVE  SumOf(Append(costs, c)) = SumOf(costs) + c
<1> DEFINE n == Len(costs)
           more == Append(costs, c)
<1>1. costs \in [1..n -> Nat] /\ n \in Nat
  BY LenProperties
<1>2. /\ more \in Seq(Nat) /\ Len(more) = n + 1 /\ more[n + 1] = c
      /\ \A k \in 1..n : more[k] = costs[k]
  BY AppendProperties
<1>3. more \in [1..(n + 1) -> Nat]
  BY <1>2, LenProperties
<1> HIDE DEF n, more
<1>4. SumFunction(more) = SumFunction(costs) + more[n + 1]
  BY <1>1, <1>2, <1>3, SumLonger
<1>5. QED
  BY <1>2, <1>4 DEF SumOf, more

LEMMA OwedType ==
    ASSUME NEW frames \in Seq(Frame)
    PROVE  /\ Owed(frames) \in [DOMAIN frames -> Nat] /\ IsFiniteSet(DOMAIN frames)
           /\ Debts(frames) \in Nat
<1>1. DOMAIN frames = 1..Len(frames) /\ Len(frames) \in Nat
  BY LenProperties
<1>2. \A j \in DOMAIN frames : frames[j].owed \in Seq(Nat)
  BY <1>1, ElementOfSeq, FrameParts
<1>3. \A j \in DOMAIN frames : SumOf(frames[j].owed) \in Nat
  BY <1>2, SumOfCosts
<1>4. Owed(frames) \in [DOMAIN frames -> Nat] /\ IsFiniteSet(DOMAIN frames)
  BY <1>1, <1>3, FS_Interval DEF Owed
<1>5. QED
  BY <1>4, SumType DEF Debts, SumOf

LEMMA DebtsKept ==
    ASSUME NEW old \in Seq(Frame), NEW new \in Seq(Frame), SameDebts(old, new)
    PROVE  Debts(new) = Debts(old)
<1> DEFINE f == Owed(new)
           S == DOMAIN new
           T == DOMAIN old
<1>1. f \in [S -> Nat] /\ IsFiniteSet(S) /\ T \in SUBSET S
  BY OwedType DEF SameDebts
<1>2. \A j \in S \ T : f[j] = 0
  BY SumOfNone DEF SameDebts, Owed
<1>3. [j \in T |-> f[j]] = Owed(old)
  BY DEF SameDebts, Owed
<1> HIDE DEF f, S, T
<1>4. SumFunction([j \in T |-> f[j]]) = SumFunction(f)
  BY <1>1, <1>2, SumWithout
<1>5. QED
  BY <1>3, <1>4 DEF Debts, SumOf, f

With(frames, i, me) == [frames EXCEPT ![i] = me]

LEMMA DebtChanged ==
    ASSUME NEW old \in Seq(Frame), NEW new \in Seq(Frame), NEW i \in DOMAIN old,
           NEW me, new = With(old, i, me)
    PROVE  Debts(old) + SumOf(me.owed) = Debts(new) + SumOf(old[i].owed)
<1> DEFINE f == Owed(old)
           g == Owed(new)
           S == DOMAIN old
<1>1. f \in [S -> Nat] /\ IsFiniteSet(S) /\ DOMAIN new = S /\ g \in [S -> Nat]
  BY OwedType DEF With
<1>2. \A j \in S \ {i} : f[j] = g[j]
  BY DEF Owed, With
<1>3. f[i] = SumOf(old[i].owed) /\ g[i] = SumOf(me.owed)
  BY <1>1 DEF Owed, With
<1> HIDE DEF f, g, S
<1>4. i \in S
  BY DEF S
<1>5. SumFunction(f) + g[i] = SumFunction(g) + f[i]
    <2>1. f \in [S -> Nat] /\ IsFiniteSet(S) /\ g \in [S -> Nat]
    BY <1>1
  <2>2. QED
    BY <2>1, <1>2, <1>4, SumChange
<1>6. QED
  BY <1>3, <1>5 DEF Debts, SumOf, f, g

LEMMA ExceptDebts ==
    ASSUME NEW old, NEW mid \in Seq(Frame), NEW i \in DOMAIN mid, NEW me, NEW new,
           SameDebts(old, mid), me.owed = mid[i].owed, new = [mid EXCEPT ![i] = me]
    PROVE  SameDebts(old, new)
  BY DEF SameDebts

LEMMA StartedDebts ==
    ASSUME Frames, NEW i \in Nodes, NEW tools \in Seq(Tools)
    PROVE  SameDebts(node, Started(i, tools)) /\ Started(i, tools) \in Seq(Frame)
<1> DEFINE after == Started(i, tools)
           n == Len(tools)
<1>1. /\ Called(i, n, tools, after) /\ n \in Nat
      /\ after[i] = [node[i] EXCEPT !.at = node[i].at + 1]
  BY StartedFrames, LenProperties
<1>2. Len(node) \in Nat /\ Nodes = 1..Len(node) /\ node[i] \in Frame
  BY NodesType
<1> HIDE DEF after, n
<1>3. after \in Seq(Frame) /\ DOMAIN after = 1 .. Len(node) + n
  BY <1>1, LenProperties DEF Called
<1>4. \A j \in Nodes : after[j].owed = node[j].owed
  <2>1. after[i].owed = node[i].owed
    BY <1>1, <1>2 DEF Frame
  <2>2. QED
    BY <1>1, <2>1 DEF Called
<1>5. ASSUME NEW j \in DOMAIN after \ Nodes PROVE after[j].owed = <<>>
  <2>1. j - Len(node) \in 1..n /\ Len(node) + (j - Len(node)) = j
    BY <1>1, <1>2, <1>3
  <2>2. \E b \in Nat : after[j] = New(i, b, tools[j - Len(node)], node[i].actor,
                                      node[i].known, node[i].depth + 1)
    BY <1>1, <2>1 DEF Called
  <2>3. QED
    BY <2>2 DEF New
<1>6. Nodes \subseteq DOMAIN after
  BY <1>1, <1>2, <1>3
<1>7. QED
  BY <1>3, <1>4, <1>5, <1>6 DEF SameDebts, Nodes, after

LEMMA FinishDebts ==
    ASSUME Frames, NEW i \in Nodes, NEW result, Finish(i, result)
    PROVE  SameDebts(node, node')
<1>1. node[i] \in Frame
  BY NodesType
<1> DEFINE me == [node[i] EXCEPT !.pc = "done", !.result = result]
<1>2. me.owed = node[i].owed
  BY <1>1 DEF Frame
<1>3. node' = [node EXCEPT ![i] = me]
  BY DEF Finish
<1> HIDE DEF me
<1>4. SameDebts(node, node)
  BY DEF SameDebts
<1>5. QED
  BY <1>2, <1>3, <1>4, ExceptDebts DEF Frames, Nodes

LEMMA ChargedDebts ==
    ASSUME Frames, NEW i \in Nodes, NEW tools \in Seq(Tools), NEW steps,
           node' = [Started(i, tools) EXCEPT ![i].steps = steps]
    PROVE  SameDebts(node, node')
<1> DEFINE mid == Started(i, tools)
           me == [mid[i] EXCEPT !.steps = steps]
<1>1. SameDebts(node, mid) /\ mid \in Seq(Frame) /\ i \in DOMAIN mid
  BY StartedDebts DEF SameDebts, Nodes
<1>2. node' = [mid EXCEPT ![i] = me]
  OBVIOUS
<1> HIDE DEF mid
<1>3. mid[i] \in Frame
  BY <1>1, LenProperties, ElementOfSeq
<1>4. me.owed = mid[i].owed
  BY <1>3 DEF Frame
<1> HIDE DEF me
<1>5. QED
  BY <1>1, <1>2, <1>4, ExceptDebts

(* An answer comes back, and what frame i owes grows by it; or what frame  *)
(* i owes is charged.                                                      *)
Gets(i, me, c) ==
    /\ node' = With(node, i, me) /\ me.owed = Append(node[i].owed, c)
    /\ spent' = spent /\ received' = received + c

Pays(i, me) ==
    /\ node' = With(node, i, me) /\ me.owed = <<>>
    /\ spent' = spent + SumOf(node[i].owed) /\ received' = received

LEMMA BalanceKept ==
    ASSUME IInv, IInv', Balanced, SameDebts(node, node'), NEW c \in Nat,
           spent' = spent + c, received' = received + c
    PROVE  Balanced'
<1>1. node \in Seq(Frame) /\ node' \in Seq(Frame)
  BY DEF IInv, Frames
<1>2. Debts(node') = Debts(node) /\ Debts(node) \in Nat
  BY <1>1, DebtsKept, OwedType
<1>3. received = spent + Debts(node) /\ spent \in Nat /\ received \in Nat
  BY DEF Balanced, PaidInFull, Debts, Owed, Nodes
<1>4. received' = spent' + Debts(node') /\ spent' \in Nat /\ received' \in Nat
  BY <1>2, <1>3
<1>5. QED
  BY <1>4 DEF Balanced, PaidInFull, Debts, Owed, Nodes

LEMMA DebtMoved ==
    ASSUME IInv, IInv', Balanced, NEW i \in Nodes, NEW me, node' = With(node, i, me)
    PROVE  /\ Debts(node) + SumOf(me.owed) = Debts(node') + SumOf(node[i].owed)
           /\ Debts(node) \in Nat /\ Debts(node') \in Nat
           /\ node[i].owed \in Seq(Nat) /\ SumOf(node[i].owed) \in Nat
           /\ received = spent + Debts(node) /\ spent \in Nat /\ received \in Nat
<1>1. node \in Seq(Frame) /\ node' \in Seq(Frame) /\ node[i] \in Frame /\ i \in DOMAIN node
  BY NodesType DEF IInv, Frames, Nodes
<1>3. Debts(node) + SumOf(me.owed) = Debts(node') + SumOf(node[i].owed)
  BY <1>1, DebtChanged
<1>4. /\ Debts(node) \in Nat /\ Debts(node') \in Nat
      /\ node[i].owed \in Seq(Nat) /\ SumOf(node[i].owed) \in Nat
  BY <1>1, OwedType, SumOfCosts, FrameParts
<1>5. QED
  BY <1>3, <1>4 DEF Balanced, PaidInFull, Debts, Owed, Nodes

LEMMA GetsBalanced ==
    ASSUME IInv, IInv', Balanced, NEW i \in Nodes, NEW me, NEW c \in Nat, Gets(i, me, c)
    PROVE  Balanced'
<1> DEFINE before == Debts(node)
           after == Debts(node')
           old == SumOf(node[i].owed)
<1>1. /\ before + SumOf(me.owed) = after + old /\ before \in Nat /\ after \in Nat /\ old \in Nat
      /\ node[i].owed \in Seq(Nat)
      /\ received = spent + before /\ spent \in Nat /\ received \in Nat
  BY DebtMoved DEF Gets
<1>2. SumOf(me.owed) = old + c
  BY <1>1, SumOfAppend DEF Gets
<1>3. spent' = spent /\ received' = received + c
  BY DEF Gets
<1> HIDE DEF before, after, old
<1>4. after = before + c
  BY <1>1, <1>2
<1>5. spent' \in Nat /\ received' \in Nat /\ received' = spent' + after
  BY <1>1, <1>3, <1>4
<1>6. QED
  BY <1>5 DEF Balanced, PaidInFull, Debts, Owed, Nodes, after

LEMMA PaysBalanced ==
    ASSUME IInv, IInv', Balanced, NEW i \in Nodes, NEW me, Pays(i, me)
    PROVE  Balanced'
<1> DEFINE before == Debts(node)
           after == Debts(node')
           old == SumOf(node[i].owed)
<1>1. /\ before + SumOf(me.owed) = after + old /\ before \in Nat /\ after \in Nat /\ old \in Nat
      /\ received = spent + before /\ spent \in Nat /\ received \in Nat
  BY DebtMoved DEF Pays
<1>2. SumOf(me.owed) = 0
  BY SumOfNone DEF Pays
<1>3. spent' = spent + old /\ received' = received
  BY DEF Pays
<1> HIDE DEF before, after, old
<1>4. before = after + old
  BY <1>1, <1>2
<1>5. spent' \in Nat /\ received' \in Nat /\ received' = spent' + after
  BY <1>1, <1>3, <1>4
<1>6. QED
  BY <1>5 DEF Balanced, PaidInFull, Debts, Owed, Nodes, after

LEMMA InitBalanced == Init => Balanced
<1>1. SUFFICES ASSUME Init PROVE PaidInFull
  BY DEF Init, Balanced
<1>2. Nodes = {} /\ spent = 0 /\ received = 0
  BY <1>1 DEF Init, Nodes
<1>3. SumOf([i \in Nodes |-> SumOf(node[i].owed)]) = 0
  BY <1>2, SumEmpty DEF SumOf
<1>4. QED
  BY <1>2, <1>3 DEF PaidInFull

(* Steps that charge what came back and leave every debt alone.            *)
Settles(c) ==
    /\ c \in Nat /\ spent' = spent + c /\ received' = received + c
    /\ SameDebts(node, node')

LEMMA Quiet ==
    ASSUME Balanced, UNCHANGED <<spent, received>>, SameDebts(node, node')
    PROVE  \E c \in Nat : Settles(c)
<1>1. Settles(0)
  BY DEF Settles, Balanced
<1>2. QED
  BY <1>1

LEMMA RootDebts ==
    ASSUME Balanced, NEW c \in Callers, NEW t \in Tools, Root(c, t)
    PROVE  \E d \in Nat : Settles(d)
<1> DEFINE f == New(0, 0, t, c.scopes, c.known, 0)
<1>1. node = <<>> /\ node' = <<f>> /\ UNCHANGED <<spent, received>>
  BY DEF Root
<1>2. f.owed = <<>>
  BY DEF New
<1> HIDE DEF f
<1>3. SameDebts(node, node')
  BY <1>1, <1>2 DEF SameDebts
<1>4. QED
  BY <1>1, <1>3, Quiet

LEMMA FlowDebts ==
    ASSUME IInv, Balanced, NEW i \in Nodes,
           FlowFails(i) \/ Pipeline(i) \/ Parallel(i) \/ Classify(i) \/ Choice(i)
    PROVE  \E c \in Nat : Settles(c)
<1>1. Frames /\ node[i] \in Frame /\ Op(i) = "flow"
  BY NodesType DEF IInv, FlowFails, FlowGoes, Pipeline, Parallel, Classify, Choice
<1>2. /\ Steps(i) \in Seq(Tools) /\ Len(Steps(i)) \in Nat
      /\ \A k \in DOMAIN Steps(i) : <<Steps(i)[k]>> \in Seq(Tools)
  BY <1>1, FlowType
<1>3. ASSUME NEW tools \in Seq(Tools), Start(i, tools) PROVE SameDebts(node, node')
  BY <1>1, <1>3, StartedDebts DEF Start
<1>4. ASSUME NEW result, Finish(i, result) PROVE SameDebts(node, node')
  BY <1>1, <1>4, FinishDebts
<1>5. CASE FlowFails(i) \/ Choice(i)
  BY <1>4, <1>5, Quiet DEF FlowFails, FlowGoes, Choice
<1>6. CASE Pipeline(i)
  <2>1. CASE Exhausted \/ node[i].at = Len(Steps(i))
    BY <1>4, <1>6, <2>1, Quiet DEF Pipeline, FlowGoes
  <2>2. CASE ~(Exhausted \/ node[i].at = Len(Steps(i)))
    <3> DEFINE tools == <<Steps(i)[node[i].at + 1]>>
    <3>1. Pipelined(i) /\ Start(i, tools) /\ UNCHANGED <<spent, received>>
      BY <1>1, <1>6, <2>2 DEF Pipeline, Pipelined, FlowGoes
    <3>2. node[i].at \in Nat /\ node[i].at <= Len(Steps(i))
      BY <1>1, <3>1, FrameParts DEF IInv, InOrder
    <3>3. node[i].at + 1 \in DOMAIN Steps(i)
      BY <1>2, <2>2, <3>2, LenProperties
    <3>4. tools \in Seq(Tools)
      BY <1>2, <3>3
    <3> HIDE DEF tools
    <3>5. QED
      BY <1>3, <3>1, <3>4, Quiet
  <2>3. QED
    BY <2>1, <2>2
<1>7. CASE Parallel(i)
  BY <1>2, <1>3, <1>4, <1>7, Quiet DEF Parallel, FlowGoes
<1>8. CASE Classify(i)
  <2>1. SameDebts(node, node')
    <3>1. (\E k \in DOMAIN Steps(i) : Start(i, <<Steps(i)[k]>>)) \/ Finish(i, "error")
      BY <1>8 DEF Classify
    <3>2. ASSUME NEW k \in DOMAIN Steps(i), Start(i, <<Steps(i)[k]>>) PROVE SameDebts(node, node')
      <4> DEFINE tools == <<Steps(i)[k]>>
      <4>1. tools \in Seq(Tools) /\ Start(i, tools)
        BY <1>2, <3>2
      <4> HIDE DEF tools
      <4>2. QED
        BY <1>3, <4>1
    <3>3. QED
      BY <1>4, <3>1, <3>2
  <2>2. CASE UNCHANGED <<spent, received>>
    BY <2>1, <2>2, Quiet
  <2>3. CASE \E c \in Costs : spent' = spent + c /\ received' = received + c
    BY <2>1, <2>3, TreeAssumption DEF Settles
  <2>4. QED
    BY <1>8, <2>2, <2>3 DEF Classify
<1>9. QED
  BY <1>5, <1>6, <1>7, <1>8

LEMMA AgentDebts ==
    ASSUME IInv, Balanced, NEW i \in Nodes, AgentStops(i) \/ AgentSteps(i)
    PROVE  \E c \in Nat : Settles(c)
<1>1. Frames /\ node[i] \in Frame /\ node[i].tool \in Tools /\ Op(i) = "agent"
  BY NodesType, FrameParts DEF IInv, AgentStops, AgentSteps
<1>2. MayCall[node[i].tool] \subseteq Tools
  BY <1>1, TreeAssumption DEF Op
<1>3. ASSUME NEW result, Finish(i, result) PROVE SameDebts(node, node')
  BY <1>1, <1>3, FinishDebts
<1>4. CASE AgentStops(i)
  BY <1>3, <1>4, Quiet DEF AgentStops
<1>5. CASE AgentSteps(i)
  <2>1. ASSUME NEW t \in Tools, node' = [Started(i, <<t>>) EXCEPT ![i].steps = @ + 1]
        PROVE  SameDebts(node, node')
    <3> DEFINE tools == <<t>>
               steps == Started(i, tools)[i].steps + 1
    <3>1. tools \in Seq(Tools) /\ node' = [Started(i, tools) EXCEPT ![i].steps = steps]
      BY <2>1
    <3> HIDE DEF tools, steps
    <3>2. QED
      BY <1>1, <3>1, ChargedDebts
  <2>2. SameDebts(node, node')
    BY <1>2, <1>3, <1>5, <2>1 DEF AgentSteps
  <2>3. CASE UNCHANGED <<spent, received>>
    BY <2>2, <2>3, Quiet
  <2>4. CASE \E c \in Costs : spent' = spent + c /\ received' = received + c
    BY <2>2, <2>4, TreeAssumption DEF Settles
  <2>5. QED
    BY <1>5, <2>3, <2>4 DEF AgentSteps
<1>6. QED
  BY <1>4, <1>5

(* A script calls, asks or ends.                                           *)
LEMMA ScriptDebts ==
    ASSUME IInv, Balanced, NEW i \in Nodes,
           \/ \E n \in 1 .. 2 : \E tools \in [1 .. n -> Tools] : Calls(i, tools)
           \/ \E n \in 1 .. Concurrent : Asks(i, n)
           \/ Ends(i)
    PROVE  \E c \in Nat : Settles(c)
<1>1. Frames /\ node[i] \in Frame /\ node \in Seq(Frame) /\ i \in DOMAIN node
  BY NodesType DEF IInv, Frames, Nodes
<1>2. ASSUME NEW me, me.owed = node[i].owed, node' = [node EXCEPT ![i] = me]
      PROVE  SameDebts(node, node')
  <2>1. SameDebts(node, node)
    BY DEF SameDebts
  <2>2. QED
    BY <1>1, <1>2, <2>1, ExceptDebts
<1>3. ASSUME NEW n \in 1 .. 2, NEW tools \in [1 .. n -> Tools], Calls(i, tools)
      PROVE  SameDebts(node, node')
  <2> DEFINE steps == Charged(i, Len(tools))
  <2>1. tools \in Seq(Tools)
    OBVIOUS
  <2>2. node' = IF steps > MaxSteps THEN [node EXCEPT ![i].steps = steps]
                ELSE [Started(i, tools) EXCEPT ![i].steps = steps]
    BY <1>3 DEF Calls
  <2> HIDE DEF steps
  <2>3. CASE steps > MaxSteps
    <3> DEFINE me == [node[i] EXCEPT !.steps = steps]
    <3>1. me.owed = node[i].owed
      BY <1>1 DEF Frame
    <3>2. node' = [node EXCEPT ![i] = me]
      BY <2>2, <2>3
    <3> HIDE DEF me
    <3>3. QED
      BY <1>2, <3>1, <3>2
  <2>4. CASE ~(steps > MaxSteps)
    BY <1>1, <2>1, <2>2, <2>4, ChargedDebts
  <2>5. QED
    BY <2>3, <2>4
<1>4. ASSUME NEW n \in 1 .. Concurrent, Asks(i, n) PROVE SameDebts(node, node')
  <2> DEFINE steps == Charged(i, n)
             asking == IF steps > MaxSteps THEN 0 ELSE n
             me == [node[i] EXCEPT !.steps = steps, !.asking = asking]
  <2>1. node' = [node EXCEPT ![i] = me]
    BY <1>4 DEF Asks
  <2> HIDE DEF asking, steps
  <2>2. me.owed = node[i].owed
    BY <1>1 DEF Frame
  <2> HIDE DEF me
  <2>3. QED
    BY <1>2, <2>1, <2>2
<1>5. CASE Ends(i)
  BY <1>1, <1>5, FinishDebts, Quiet DEF Ends
<1>6. CASE \E n \in 1 .. 2 : \E tools \in [1 .. n -> Tools] : Calls(i, tools)
  BY <1>3, <1>6, Quiet DEF Calls
<1>7. CASE \E n \in 1 .. Concurrent : Asks(i, n)
  BY <1>4, <1>7, Quiet DEF Asks
<1>8. QED
  BY <1>5, <1>6, <1>7

(* A prompt is answered, or its provider fails.                            *)
LEMMA ToldBalanced ==
    ASSUME IInv, IInv', Balanced, NEW i \in Nodes, Told(i)
    PROVE  Balanced'
<1>1. node[i] \in Frame /\ node \in Seq(Frame) /\ i \in DOMAIN node
  BY NodesType DEF IInv, Frames, Nodes
<1>2. ASSUME NEW c \in Costs, received' = received + c,
             node' = [node EXCEPT ![i].asking = @ - 1, ![i].owed = Append(@, c)]
      PROVE  Balanced'
  <2> DEFINE me == [node[i] EXCEPT !.asking = node[i].asking - 1,
                                   !.owed = Append(node[i].owed, c)]
  <2>1. node' = With(node, i, me)
    BY <1>2 DEF With
  <2>2. me.owed = Append(node[i].owed, c)
    BY <1>1 DEF Frame
  <2>3. c \in Nat
    BY TreeAssumption
  <2> HIDE DEF me
  <2>4. Gets(i, me, c)
    BY <1>2, <2>1, <2>2 DEF Gets, Told
  <2>5. QED
    BY <2>3, <2>4, GetsBalanced
<1>3. ASSUME node' = [node EXCEPT ![i].asking = @ - 1], UNCHANGED received
      PROVE  Balanced'
  <2> DEFINE me == [node[i] EXCEPT !.asking = node[i].asking - 1]
  <2>1. me.owed = node[i].owed
    BY <1>1 DEF Frame
  <2>2. node' = [node EXCEPT ![i] = me]
    BY <1>3
  <2> HIDE DEF me
  <2>3. SameDebts(node, node)
    BY DEF SameDebts
  <2>4. SameDebts(node, node')
    BY <1>1, <2>1, <2>2, <2>3, ExceptDebts
  <2>5. PICK c \in Nat : Settles(c)
    BY <1>3, <2>4, Quiet DEF Told
  <2>6. QED
    BY <2>5, BalanceKept DEF Settles
<1>4. QED
  BY <1>2, <1>3 DEF Told

LEMMA SettleBalanced ==
    ASSUME IInv, IInv', Balanced, NEW i \in Nodes, Settle(i)
    PROVE  Balanced'
<1> DEFINE me == [node[i] EXCEPT !.owed = <<>>]
<1>1. node[i] \in Frame
  BY NodesType DEF IInv
<1>2. node' = With(node, i, me) /\ me.owed = <<>>
  BY <1>1 DEF With, Settle, Frame
<1>3. spent' = spent + SumOf(node[i].owed) /\ received' = received
  BY DEF Settle, Settled
<1> HIDE DEF me
<1>4. Pays(i, me)
  BY <1>2, <1>3 DEF Pays
<1>5. QED
  BY <1>4, PaysBalanced

LEMMA NextBalanced == IInv /\ IInv' /\ Balanced /\ [Next]_vars => Balanced'
<1>1. SUFFICES ASSUME IInv, IInv', Balanced, [Next]_vars PROVE Balanced'
  OBVIOUS
<1>2. ASSUME \E c \in Nat : Settles(c) PROVE Balanced'
  BY <1>1, <1>2, BalanceKept DEF Settles
<1>3. CASE \E c \in Callers, t \in Tools : Root(c, t)
  BY <1>1, <1>2, <1>3, RootDebts
<1>4. ASSUME NEW i \in Nodes, Answer(i) PROVE Balanced'
  BY <1>1, <1>2, <1>4, FinishDebts, Quiet DEF Answer, IInv
<1>5. CASE Step
  BY <1>1, <1>2, <1>4, <1>5, FlowDebts, AgentDebts, ScriptDebts, ToldBalanced, SettleBalanced
     DEF Step
<1>6. CASE UNCHANGED vars
  BY <1>1, <1>6 DEF vars, Balanced, PaidInFull, Nodes
<1>7. QED
  BY <1>1, <1>3, <1>5, <1>6 DEF Next

-----------------------------------------------------------------------------
(* What holds of every behaviour *)

(* The invariant holds in every state, whatever calls whatever.            *)
THEOREM Inductive == Spec => []IInv
<1>1. Init => IInv
  BY InitIInv
<1>2. IInv /\ [Next]_vars => IInv'
  BY NextIInv
<1>3. QED
  BY <1>1, <1>2, PTL DEF Spec

(* The books of the tree are balanced in every state.                      *)
LEMMA AlwaysBalanced == Spec => []Balanced
<1>1. Init => Balanced
  BY InitBalanced
<1>2. IInv /\ IInv' /\ Balanced /\ [Next]_vars => Balanced'
  BY NextBalanced
<1>3. QED
  BY <1>1, <1>2, Inductive, PTL DEF Spec

(* Every frame has its type, and what is counted is a number of tokens     *)
(* (call_tool_in_tree).                                                    *)
THEOREM TypeCorrect == Spec => []TypeOK
<1>1. IInv /\ Balanced => TypeOK
  BY DEF IInv, Frames, Balanced, TypeOK
<1>2. QED
  BY <1>1, Inductive, AlwaysBalanced, PTL

(* Every answer that came back is charged once its batch is settled: none  *)
(* is lost to the budget running out, however many behaviours, agents and  *)
(* flows the tree has (BehaviourContext::ask_many).                        *)
THEOREM PaidSafety == Spec => []PaidInFull
<1>1. Balanced => PaidInFull
  BY DEF Balanced
<1>2. QED
  BY <1>1, AlwaysBalanced, PTL

(* Nobody's rows and nobody's conversations are out of reach of an         *)
(* anonymous request, however many flows, agents and behaviours with ids   *)
(* and kinds of their own lie between (root_is_anonymous).                 *)
THEOREM OwnerSafety == Spec => []OwnDataHasOwner
<1>1. IInv => OwnDataHasOwner
  BY DEF IInv, Owned, OwnDataHasOwner, Ready
<1>2. QED
  BY <1>1, Inductive, PTL

(* Nothing outlives what called it: not a branch of a failed flow, not a   *)
(* call of a batch (flow::run, BehaviourContext::gather).                  *)
THEOREM OutliveSafety == Spec => []NothingOutlives
<1>1. IInv => NothingOutlives
  BY DEF IInv
<1>2. QED
  BY <1>1, Inductive, PTL

(* A behaviour never makes more calls than it has steps                    *)
(* (BehaviourContext::charge_step).                                        *)
THEOREM StepsSafety == Spec => []StepsPaid
<1>1. IInv => StepsPaid
  BY DEF IInv, Paid, StepsPaid
<1>2. QED
  BY <1>1, Inductive, PTL

(* However tools call each other and themselves, no call lies deeper than  *)
(* the ceiling (App::depth_exceeded).                                      *)
THEOREM DepthBounded == Spec => [](\A i \in Nodes : node[i].depth <= MaxDepth)
<1>1. IInv => \A i \in Nodes : node[i].depth <= MaxDepth
  BY DEF IInv, Ceiling
<1>2. QED
  BY <1>1, Inductive, PTL

(* A tool that needs a scope runs only where the frame that called it has  *)
(* that scope, and each frame has no more than the one that called it: no  *)
(* agent, behaviour or flow lends anyone what it was not given             *)
(* (delegate_to_agent, dispatch).                                          *)
AuthorityHeld == \A i \in Nodes : node[i].parent # 0 =>
    /\ node[i].actor \subseteq node[node[i].parent].actor
    /\ node[i].pc = "ready" =>
         Table[node[i].tool].needs \subseteq node[node[i].parent].actor

THEOREM AuthoritySafety == Spec => []AuthorityHeld
<1>1. ASSUME IInv PROVE AuthorityHeld
  <2>1. ASSUME NEW i \in Nodes, node[i].parent # 0 PROVE i > 1
    <3>1. /\ Nodes = 1..Len(node) /\ Len(node) \in Nat
          /\ node[i].parent \in Nat /\ node[i].parent < i
      BY <1>1, NodesType, FrameParts DEF IInv, Below
    <3>2. QED
      BY <2>1, <3>1
  <2>2. QED
    BY <1>1, <2>1 DEF IInv, Held, AuthorityHeld, Ready
<1>2. QED
  BY <1>1, Inductive, PTL

-----------------------------------------------------------------------------
(* Boot: whatever manifests there are, what a request reaches was declared. *)

\* A page that shows a query's rows was found by its template alone, and asks
\* for the database afterwards: that it is there has to be known before.
Served(m, ref) ==
  /\ ref[1] # "call" => Found(m, ref)
  /\ ref[1] = "page" /\ ref[2] = "query" => m.database

\* What boots has been validated, and what was looked up can be served.
BootInv ==
  /\ manifest \in Manifests
  /\ up = "serving" => Valid(manifest)
  /\ at # Idle => up = "serving" /\ Served(manifest, at)

---------------------------------------------------------------------------
(* Lookups *)

\* A name that is declared is found, and what is found was declared.
LEMMA FindDeclared ==
  ASSUME NEW declared, NEW name \in Names(declared)
  PROVE  Find(declared, name) \in ToSet(declared)
  BY DEF Find, Names, ToSet

\* The same of tools and the routes they stand for.
LEMMA ToolRouteDeclared ==
  ASSUME NEW m, NEW t \in ToolNames(m)
  PROVE  ToolRoute(m, t) \in ToSet(m.routes)
  BY DEF ToolRoute, ToolNames

\* Every route of a valid manifest can serve what its handler looks up.
LEMMA RouteServed ==
  ASSUME NEW m \in Manifests, Valid(m), NEW r \in ToSet(m.routes)
  PROVE  Served(m, Execute(m, r.op))
<1>1. OpValid(m, r.op)
  BY DEF Valid, RoutesValid
<1>2. r.op = <<r.op[1], r.op[2]>> /\ r.op[1] \in Kinds
      /\ (r.op[1] = "behaviour" => r.op[2] \in Names(m.behaviours))
  BY DeclaredInPython
<1> DEFINE kind == r.op[1]
           name == r.op[2]
<1>3. CASE kind = "query"
  BY <1>1, <1>3 DEF Execute, Served, Found, OpValid
<1>4. CASE kind # "query"
  <2>1. Execute(m, r.op) = r.op
    BY <1>4 DEF Execute
  <2>2. Served(m, r.op)
    BY <1>1, <1>2, <1>4 DEF Served, Found, OpValid, Kinds
  <2> QED  BY <2>1, <2>2
<1> QED  BY <1>3, <1>4

\* In a valid manifest what can be served refers to nothing that cannot.
LEMMA ReferencesServed ==
  ASSUME NEW m \in Manifests, Valid(m), NEW ref, Served(m, ref), Found(m, ref),
         NEW next \in References(m, ref)
  PROVE  Served(m, next)
<1> DEFINE kind == ref[1]
           name == ref[2]
<1>1. CASE kind \in {"tool", "call"}
  <2>1. name \in ToolNames(m) /\ next = Execute(m, ToolRoute(m, name).op)
    BY <1>1 DEF Served, Found, References
  <2> QED  BY <2>1, ToolRouteDeclared, RouteServed
<1>2. CASE kind = "agent"
  <2> DEFINE a == Find(m.agents, name)
  <2>1. name \in Names(m.agents) /\ next \in Run(a)
    BY <1>2 DEF Served, Found, References
  <2>2. a \in ToSet(m.agents)
    BY <2>1, FindDeclared
  <2>3. /\ a.tools \subseteq ToolNames(m) /\ a.contexts \subseteq Names(m.contexts)
        /\ a.handoffs \subseteq Names(m.agents)
    BY <2>2 DEF Valid, AgentsValid
  <2> HIDE DEF a
  <2>4. \/ \E t \in ToolNames(m) : next = <<"tool", t>>
        \/ \E c \in Names(m.contexts) : next = <<"context", c>>
        \/ \E h \in Names(m.agents) : next = <<"agent", h>>
    BY <2>1, <2>3 DEF Run, ToolRefs, ContextRefs
  <2> QED  BY <2>4 DEF Served, Found
<1>3. CASE kind = "behaviour"
  <2> DEFINE b == Find(m.behaviours, name)
  <2>1. name \in Names(m.behaviours) /\ next \in ScriptCalls(b) \cup ContextRefs(b.contexts)
    BY <1>3 DEF Served, Found, References
  <2>2. b \in ToSet(m.behaviours)
    BY <2>1, FindDeclared
  <2>3. b.tools \subseteq ToolNames(m) /\ b.contexts \subseteq Names(m.contexts)
    BY <2>2 DEF Valid, BehavioursValid
  <2> HIDE DEF b
  <2>4. \/ next[1] = "call"
        \/ \E t \in ToolNames(m) : next = <<"tool", t>>
        \/ \E c \in Names(m.contexts) : next = <<"context", c>>
    BY <2>1, <2>3 DEF ScriptCalls, ToolRefs, ContextRefs
  <2> QED  BY <2>4 DEF Served, Found
<1>4. CASE kind = "flow"
  <2> DEFINE f == Find(m.flows, name)
  <2>1. name \in Names(m.flows) /\ next \in ToolRefs(f.steps)
    BY <1>4 DEF Served, Found, References
  <2>2. f \in ToSet(m.flows)
    BY <2>1, FindDeclared
  <2>3. f.steps \subseteq ToolNames(m)
    BY <2>2 DEF Valid, FlowsValid
  <2> HIDE DEF f
  <2> QED  BY <2>1, <2>3 DEF Served, Found, ToolRefs
<1>5. CASE kind = "context"
  <2> DEFINE c == Find(m.contexts, name)
  <2>1. name \in Names(m.contexts) /\ c.queries /\ next = <<"database", "">>
    BY <1>5 DEF Served, Found, References
  <2>2. c \in ToSet(m.contexts)
    BY <2>1, FindDeclared
  <2>3. m.database
    BY <2>1, <2>2, DeclaredInPython
  <2> QED  BY <2>1, <2>3 DEF Served, Found
<1>6. CASE kind = "page"
  <2>1. name = "query" /\ next = <<"database", "">>
    BY <1>6 DEF References
  <2>2. m.database
    BY <1>6, <2>1 DEF Served
  <2> QED  BY <2>1, <2>2 DEF Served, Found
<1> QED  BY <1>1, <1>2, <1>3, <1>4, <1>5, <1>6 DEF References

---------------------------------------------------------------------------
(* Steps *)

LEMMA WatchServed ==
  ASSUME NEW m \in Manifests, Valid(m), NEW w \in ToSet(m.watchers)
  PROVE  Served(m, <<"device", w.device>>) /\ Served(m, <<"agent", w.agent>>)
  BY DEF Valid, WatchersValid, Served, Found

LEMMA BootInvInit == BootInit => BootInv
  BY DEF BootInit, BootInv, Idle

LEMMA BootInvNext == BootInv /\ [BootNext]_bootVars => BootInv'
<1> SUFFICES ASSUME BootInv, [BootNext]_bootVars
             PROVE  BootInv'
  OBVIOUS
<1> USE DEF BootInv
<1>1. CASE Build
  <2>1. at = Idle
    BY <1>1 DEF Build
  <2> QED  BY <1>1, <2>1 DEF Build
<1>2. CASE Dispatch
  <2>1. PICK r \in ToSet(manifest.routes) : at' = Execute(manifest, r.op)
    BY <1>2 DEF Dispatch
  <2>2. Served(manifest, at')
    BY <1>2, <2>1, RouteServed DEF Dispatch
  <2> QED  BY <1>2, <2>2 DEF Dispatch
<1>3. CASE Watch
  <2>1. PICK w \in ToSet(manifest.watchers) :
          at' \in {<<"device", w.device>>, <<"agent", w.agent>>}
    BY <1>3 DEF Watch
  <2>2. Served(manifest, at')
    BY <1>3, <2>1, WatchServed DEF Watch
  <2> QED  BY <1>3, <2>2 DEF Watch
<1>4. CASE Follow
  <2>1. Served(manifest, at')
    BY <1>4, ReferencesServed DEF Follow
  <2> QED  BY <1>4, <2>1 DEF Follow
<1>5. CASE Leave
  BY <1>5 DEF Leave
<1>6. CASE UNCHANGED bootVars
  BY <1>6 DEF bootVars
<1> QED  BY <1>1, <1>2, <1>3, <1>4, <1>5, <1>6 DEF BootNext

\* manifest.rs:1073.  Whatever an application declares and its scripts say, once
\* its manifest has passed validation no request, run or watcher, however long
\* the chain of tools, handoffs, flows, scripts and contexts it follows, looks
\* up a name in vain, unless a script that declares no tools made it up.
THEOREM NamesResolve == BootSpec => []NothingDangles
<1>1. BootInv => NothingDangles
  BY DEF BootInv, NothingDangles, Served
<1> QED  BY BootInvInit, BootInvNext, <1>1, PTL DEF BootSpec

=============================================================================
