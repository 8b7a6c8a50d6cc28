---------------------------- MODULE RequestTree ----------------------------
(***************************************************************************)
(* One request and all it calls: routes, flows (flow.rs), behaviours       *)
(* (behaviour.rs) and agents that call each other as tools through         *)
(* dispatch (app.rs), with one budget, one depth ceiling, and authority    *)
(* that is delegated at every level.  The loop of a single agent is        *)
(* AgentRun, the budget's counter SharedBudget, the threads WorkerPool.    *)
(***************************************************************************)
EXTENDS Integers, Sequences, SequencesExt, FiniteSets

CONSTANTS Table,      \* what a tool is: see Entry
          FlowDefs,   \* of each flow, its kind and its steps
          MayCall,    \* the tools an agent or a behaviour declares; for a
                      \* behaviour, none is all
          Callers,    \* whom requests come from: their scopes, and whether known
          MaxDepth,   \* max_invocation_depth
          MaxSteps,   \* max_steps of agents and behaviours
          Budget,     \* token_budget of the tree
          Costs,      \* what a model's answer may cost
          Concurrent, \* prompts of one ask_many
          MaxNodes    \* bound: invocations of one tree; the depth keeps below it

Ops == {"route", "own", "agent", "behaviour", "flow"}
Tools == DOMAIN Table
Scopes == UNION {Table[t].needs : t \in Tools}

(* "own" binds @principal; an agent with a session is asked to keep one;   *)
(* grants are the declared scopes, {} for all.                             *)
Entry == [op : Ops, session : BOOLEAN, gated : BOOLEAN,
          needs : SUBSET Scopes, grants : SUBSET Scopes]

ASSUME TreeAssumption ==
    /\ Table \in [Tools -> Entry]
    /\ \A t \in Tools : Table[t].session => Table[t].op = "agent"
    /\ \A t \in Tools : Table[t].op \in {"agent", "behaviour"} => MayCall[t] \subseteq Tools
    /\ \A t \in Tools : Table[t].op = "flow" =>
         FlowDefs[t].kind \in {"pipeline", "parallel", "choice"} /\ FlowDefs[t].steps \in Seq(Tools)
    /\ \A c \in Callers : c.known \in BOOLEAN /\ c.scopes \subseteq Scopes
    /\ {MaxDepth, MaxSteps, Budget, Concurrent, MaxNodes} \subseteq Nat /\ Costs \subseteq Nat

VARIABLES node,     \* the invocations, in the order they were made
          spent,    \* the tree's budget: tokens charged
          received  \* history: tokens of the answers that came back

vars == <<node, spent, received>>

Nodes == DOMAIN node
Op(i) == Table[node[i].tool].op
Exhausted == spent >= Budget
Children(i) == {j \in Nodes : node[j].parent = i}
Done(i) == node[i].pc = "done"

(* A frame's code runs while nothing it called does. *)
Free(i) == node[i].pc = "ready" /\ \A j \in Children(i) : Done(j)

Init == node = <<>> /\ spent = 0 /\ received = 0

-----------------------------------------------------------------------------
(* Calls *)

(* delegate_to_agent: never more than the caller has. *)
Delegated(actor, t) ==
    IF Table[t].grants = {} THEN actor ELSE actor \cap Table[t].grants

(* Faulty variant: whoever calls on another's behalf is somebody. *)
HasOwner_Direct(parent, known) == known \/ parent # 0

(* root_is_anonymous: what a nested frame does is its root's. *)
HasOwner(parent, known) == known

(* Faulty variant: a flow counts for nothing on the way down. *)
TooDeep_Flows(t, depth) == Table[t].op \in {"agent", "behaviour"} /\ depth >= MaxDepth

(* depth_exceeded, of what can re-enter dispatch. *)
TooDeep(t, depth) == Table[t].op \in {"agent", "behaviour", "flow"} /\ depth >= MaxDepth

(* A query keyed by the caller has no rows for nobody. *)
RowsRefused(parent, t, known) == Table[t].op = "own" /\ ~HasOwner(parent, known)

(* run_agent: nor has nobody a conversation to continue. *)
SessionRefused(parent, t, known) ==
    Table[t].op = "agent" /\ Table[t].session /\ ~HasOwner(parent, known)

(* What dispatch and execute make of a call before it runs. *)
Refusal(parent, t, actor, known, depth) ==
    IF ~(Table[t].needs \subseteq actor) THEN "error"
    ELSE IF TooDeep(t, depth) THEN "ceiling"
    ELSE IF RowsRefused(parent, t, known) \/ SessionRefused(parent, t, known) THEN "error"
    ELSE "none"

(* call_tool_in_tree, as far as the callee's first await. *)
New(parent, batch, t, actor, known, depth) ==
    LET refusal == Refusal(parent, t, actor, known, depth)
    IN  [tool |-> t, parent |-> parent, batch |-> batch, depth |-> depth, known |-> known,
         actor |-> IF Table[t].op \in {"route", "own"} THEN actor ELSE Delegated(actor, t),
         pc |-> IF refusal = "none" THEN "ready" ELSE "done",
         result |-> refusal, at |-> 0, steps |-> 0, asking |-> 0, owed |-> <<>>]

(* A flow's steps and an agent's tools run one level deeper than it does;  *)
(* a behaviour itself runs one deeper, and its tools beside it.            *)
Started(i, tools) ==
    [node EXCEPT ![i].at = @ + 1] \o
      [k \in 1 .. Len(tools) |->
         New(i, node[i].at + 1, tools[k], node[i].actor, node[i].known, node[i].depth + 1)]

Start(i, tools) ==
    /\ Len(node) + Len(tools) <= MaxNodes
    /\ node' = Started(i, tools)

Finish(i, result) == node' = [node EXCEPT ![i].pc = "done", ![i].result = result]

(* A request comes in and is dispatched at depth 0. *)
Root(c, t) ==
    /\ node = <<>>
    /\ node' = <<New(0, 0, t, c.scopes, c.known, 0)>>
    /\ UNCHANGED <<spent, received>>

(* A handler or a query answers, or fails. *)
Answer(i) ==
    /\ Op(i) \in {"route", "own"} /\ Free(i)
    /\ \E result \in {"ok", "error"} : Finish(i, result)
    /\ UNCHANGED <<spent, received>>

-----------------------------------------------------------------------------
(* Flows *)

Kind(i) == FlowDefs[node[i].tool].kind
Steps(i) == FlowDefs[node[i].tool].steps
LastBatch(i) == {j \in Children(i) : node[j].batch = node[i].at}

(* unwrap_output: a step that waits for a human, or failed, is an error. *)
Bad(j) == node[j].result \in {"error", "ceiling", "suspended"}

(* Faulty variant: a parallel flow returns on the first error. *)
Joined_Try(i) ==
    node[i].pc = "ready" /\ (Free(i) \/ \E j \in LastBatch(i) : Done(j) /\ Bad(j))

(* join_all: every branch has ended, whatever became of the others. *)
Joined(i) == Free(i)

(* A finished flow says whether its tree ran out. *)
Concluded == IF Exhausted THEN "exhausted" ELSE "ok"

FlowFails(i) ==
    /\ Op(i) = "flow" /\ Joined(i)
    /\ \E j \in LastBatch(i) : Bad(j)
    /\ Finish(i, "error")
    /\ UNCHANGED <<spent, received>>

FlowGoes(i) ==
    /\ Op(i) = "flow" /\ Free(i) /\ \A j \in LastBatch(i) : ~Bad(j)
    /\ UNCHANGED <<spent, received>>

(* The budget is checked before each step and after the last. *)
Pipeline(i) ==
    /\ FlowGoes(i) /\ Kind(i) = "pipeline"
    /\ IF Exhausted \/ node[i].at = Len(Steps(i)) THEN Finish(i, Concluded)
       ELSE Start(i, <<Steps(i)[node[i].at + 1]>>)

Parallel(i) ==
    /\ FlowGoes(i) /\ Kind(i) = "parallel"
    /\ IF Exhausted \/ node[i].at = 1 THEN Finish(i, Concluded) ELSE Start(i, Steps(i))

(* classify's answer is charged; the step it chose is called whatever it   *)
(* cost, and the budget is not looked at again.                            *)
Classify(i) ==
    /\ Op(i) = "flow" /\ Kind(i) = "choice" /\ Free(i) /\ node[i].at = 0 /\ ~Exhausted
    /\ \/ /\ \E c \in Costs : spent' = spent + c /\ received' = received + c
          /\ \/ \E k \in DOMAIN Steps(i) : Start(i, <<Steps(i)[k]>>)
             \/ Finish(i, "error")
       \/ Finish(i, "error") /\ UNCHANGED <<spent, received>>

Choice(i) ==
    /\ FlowGoes(i) /\ Kind(i) = "choice"
    /\ \/ node[i].at = 0 /\ Exhausted /\ Finish(i, "exhausted")
       \/ node[i].at = 1 /\ Finish(i, "ok")

-----------------------------------------------------------------------------
(* Agents: one call per answer *)

(* Nothing left, or no step left: an outcome, not an error. *)
AgentStops(i) ==
    /\ Op(i) = "agent" /\ Free(i)
    /\ \/ Exhausted /\ Finish(i, "exhausted")
       \/ ~Exhausted /\ node[i].steps >= MaxSteps /\ Finish(i, "ok")
    /\ UNCHANGED <<spent, received>>

(* The model answers, asks for a tool, or fails.  A gated tool parks the   *)
(* run; another is called even when the answer exhausted the budget.       *)
AgentSteps(i) ==
    /\ Op(i) = "agent" /\ Free(i) /\ ~Exhausted /\ node[i].steps < MaxSteps
    /\ \/ Finish(i, "error") /\ UNCHANGED <<spent, received>>
       \/ /\ \E c \in Costs : spent' = spent + c /\ received' = received + c
          /\ \/ Finish(i, "ok")
             \/ \E t \in MayCall[node[i].tool] :
                  IF Table[t].gated THEN Finish(i, "suspended")
                  ELSE /\ Len(node) < MaxNodes
                       /\ node' = [Started(i, <<t>>) EXCEPT ![i].steps = @ + 1]

-----------------------------------------------------------------------------
(* Behaviours: a script that may do anything, and may catch what is raised *)

Scripted(i) == Op(i) = "behaviour" /\ Free(i) /\ node[i].asking = 0 /\ node[i].owed = <<>>

(* admit: a declared tool, and not a gated one; of all, before any is      *)
(* charged.                                                                *)
Admitted(i, tools) ==
    \A k \in DOMAIN tools :
       /\ MayCall[node[i].tool] = {} \/ tools[k] \in MayCall[node[i].tool]
       /\ ~Table[tools[k]].gated

(* Faulty variant: one step for a batch. *)
Charged_Batch(i, n) == node[i].steps + 1

(* charge_step for each item, up to the first that exceeds max_steps. *)
Charged(i, n) == IF node[i].steps + n > MaxSteps THEN MaxSteps + 1 ELSE node[i].steps + n

(* call (one tool) and gather: all run and all are waited for; without     *)
(* steps for all of them none runs.                                        *)
Calls(i, tools) ==
    LET steps == Charged(i, Len(tools))
    IN  /\ Scripted(i) /\ Admitted(i, tools)
        /\ Len(node) + Len(tools) <= MaxNodes
        /\ node' = IF steps > MaxSteps THEN [node EXCEPT ![i].steps = steps]
                   ELSE [Started(i, tools) EXCEPT ![i].steps = steps]
        /\ UNCHANGED <<spent, received>>

(* ask (one prompt) and ask_many: steps are charged, the prompts are sent. *)
Asks(i, n) ==
    LET steps == Charged(i, n)
    IN  /\ Scripted(i) /\ ~Exhausted
        /\ node' = [node EXCEPT ![i].steps = steps,
                                ![i].asking = IF steps > MaxSteps THEN 0 ELSE n]
        /\ UNCHANGED <<spent, received>>

(* One of the prompts is answered, or its provider fails. *)
Told(i) ==
    /\ node[i].asking > 0
    /\ \/ \E c \in Costs :
            /\ node' = [node EXCEPT ![i].asking = @ - 1, ![i].owed = Append(@, c)]
            /\ received' = received + c
       \/ /\ node' = [node EXCEPT ![i].asking = @ - 1]
          /\ UNCHANGED received
    /\ UNCHANGED spent

SumOf(costs) == SumFunction(costs)

(* Faulty variant: settling stops where the budget does. *)
Settled_UpTo(costs) ==
    FoldLeft(LAMBDA acc, c : IF acc >= Budget THEN acc ELSE acc + c, spent, costs)

(* Every answer is charged before anything is raised. *)
Settled(costs) == spent + SumOf(costs)

Settle(i) ==
    /\ Op(i) = "behaviour" /\ node[i].asking = 0 /\ node[i].owed # <<>>
    /\ spent' = Settled(node[i].owed)
    /\ node' = [node EXCEPT ![i].owed = <<>>]
    /\ UNCHANGED received

(* The script returns, or something it did not catch ends it. *)
Ends(i) ==
    /\ Scripted(i)
    /\ \E result \in {"ok", "error"} : Finish(i, result)
    /\ UNCHANGED <<spent, received>>

-----------------------------------------------------------------------------

Step ==
    \E i \in Nodes :
      \/ Answer(i)
      \/ FlowFails(i) \/ Pipeline(i) \/ Parallel(i) \/ Classify(i) \/ Choice(i)
      \/ AgentStops(i) \/ AgentSteps(i)
      \/ \E n \in 1 .. 2 : \E tools \in [1 .. n -> Tools] : Calls(i, tools)
      \/ \E n \in 1 .. Concurrent : Asks(i, n)
      \/ Told(i) \/ Settle(i) \/ Ends(i)

Next == (\E c \in Callers, t \in Tools : Root(c, t)) \/ Step

Spec == Init /\ [][Next]_vars

(* Handlers answer, providers answer or fail, scripts return. *)
FairSpec == Spec /\ WF_vars(Step)

-----------------------------------------------------------------------------
(* Properties *)

Results == {"none", "ok", "error", "ceiling", "suspended", "exhausted"}

Frame == [tool : Tools, parent : Nat, batch : Nat, depth : Nat, known : BOOLEAN,
          actor : SUBSET Scopes, pc : {"ready", "done"}, result : Results, at : Nat,
          steps : 0 .. MaxSteps + 1, asking : 0 .. Concurrent, owed : Seq(Nat)]

TypeOK == node \in Seq(Frame) /\ spent \in Nat /\ received \in Nat

(* auth.rs:58, app.rs:618, app.rs:951.  A query that binds @principal and  *)
(* an agent that keeps a session run only for a caller who is somebody,    *)
(* however many agents, behaviours and flows lie between.                  *)
OwnDataHasOwner ==
    \A i \in Nodes :
       (Op(i) = "own" \/ Table[node[i].tool].session) /\ node[i].pc = "ready" => node[1].known

(* flow.rs:87, behaviour.rs:454.  Nothing outlives what called it: when a  *)
(* frame ends, every branch and every call of a batch has ended, also when *)
(* another of them failed first.                                           *)
NothingOutlives == \A i \in Nodes : Done(i) => \A j \in Children(i) : Done(j)

(* behaviour.rs:149.  What a behaviour called never exceeds its steps, by  *)
(* calls and batches in any mixture.                                       *)
StepsPaid ==
    \A i \in Nodes : Op(i) = "behaviour" => Cardinality(Children(i)) <= MaxSteps

(* behaviour.rs:620.  Every answer that came back is charged once the      *)
(* batch it belongs to is settled: none is lost to the budget running out. *)
PaidInFull == received = spent + SumOf([i \in Nodes |-> SumOf(node[i].owed)])

(* app.rs:776.  A request ends, however flows, agents and behaviours call  *)
(* each other and themselves.                                              *)
TreeEnds == node # <<>> ~> (node # <<>> /\ Done(1))

=============================================================================
