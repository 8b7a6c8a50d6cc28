------------------------------ MODULE AgentRun ------------------------------
(***************************************************************************)
(* The agent loop of agent.rs: AgentRuntime::run, drive_steps,             *)
(* execute_calls, dispatch_call, handoff, maybe_compact, suspend,          *)
(* resume_approval and finish, for the runs on one session.                *)
(*                                                                         *)
(* One run is in control at a time (SessionTurns shows that the turn lock  *)
(* provides this); others may be parked, waiting for a human.  The model,  *)
(* the tools, the summariser and the human are the environment: they       *)
(* answer anything they can.  The run's future may be dropped at every     *)
(* await.                                                                  *)
(*                                                                         *)
(* A message keeps its kind and the tool calls it asks for or answers.  A  *)
(* tool call is named by the step and the position that asked for it.      *)
(***************************************************************************)
EXTENDS SessionBound, FiniteSets

CONSTANTS Agents, Tools, Scopes,
          Wild,            \* the scope "*"
          ToolsOf,         \* AgentDef.tools: the tools each agent was given
          HandoffsOf,      \* AgentDef.handoffs
          ScopesOf,        \* AgentDef.scopes
          Required,        \* the scopes each tool's route requires
          Gated,           \* the tools whose route has approval = required
          Callers,         \* the scope sets a caller may hold
          NoRun,
          Garbled,         \* a call of no tool, or whose arguments are no object
          Keep,            \* policy.keep_recent, at least one
          MaxSteps,        \* max_steps of the entry agent
          MaxParked,       \* the capacity of App.approvals (1000)
          MaxCalls,        \* bound: calls a model asks for in one step
          MaxTurns         \* bound: runs started

Grant == Scopes \cup {Wild}

ASSUME AgentAssumption ==
    /\ Wild \notin Scopes /\ Agents \cap Tools = {} /\ Garbled \notin Tools \cup Agents
    /\ ToolsOf \in [Agents -> SUBSET Tools]
    /\ HandoffsOf \in [Agents -> SUBSET Agents]
    /\ ScopesOf \in [Agents -> SUBSET Grant]
    /\ Required \in [Tools -> SUBSET Scopes]
    /\ Gated \subseteq Tools /\ Callers \subseteq SUBSET Grant
    /\ Keep \in Nat \ {0} /\ MaxSteps \in Nat
    /\ MaxParked \in Nat \ {0}
    /\ MaxCalls \in [Agents -> Nat \ {0}] /\ MaxTurns \in Nat

VARIABLES
    st,         \* the RunState of the run in control, or NoRun
    phase,      \* where its future is
    calls,      \* the tool calls of the model's last answer
    at,         \* the call being looked at
    results,    \* the calls answered so far
    cleared,    \* a human has approved the call at `at`
    parked,     \* App.approvals: the suspended runs
    saved,      \* the session: its conversation and revision
    revisions,  \* SessionStore.revisions
    nextTurn,
    ran,        \* audit: the calls that were dispatched
    approved,   \* audit: the calls a human approved
    declined    \* audit: the calls a human declined

callVars == <<calls, at, results, cleared>>
sessionVars == <<saved, revisions>>
auditVars == <<ran, approved, declined>>
vars == <<st, phase, callVars, parked, sessionVars, nextTurn, auditVars>>

-----------------------------------------------------------------------------
(* Authority: auth.rs *)

HasScope(held, s) == s \in held \/ Wild \in held

(* What a principal with these scopes may do, the wildcard written out. *)
Allows(held) == {s \in Scopes : HasScope(held, s)}

(* delegate_to_agent: an agent that declares nothing holds what its caller *)
(* holds, any other the scopes it declares that its caller holds.          *)
Delegated(held, declared) ==
    IF declared = {} THEN held ELSE {s \in declared : HasScope(held, s)}

(* Faulty variant: a handoff forgets what the current agent held. *)
HandoffActor_FromCaller(caller, actor, next) == Delegated(caller, ScopesOf[next])

(* handoff: delegated from the caller, and no more than the actor held.    *)
HandoffActor(caller, actor, next) ==
    {s \in Delegated(caller, ScopesOf[next]) : HasScope(actor, s)}

-----------------------------------------------------------------------------
(* Calls, messages and runs *)

CallId == (1..MaxTurns) \X Nat \X (Nat \ {0})

(* A call of a tool or, for transfer_to_x, of an agent; a handoff does not *)
(* look at its arguments, so only a tool's can be garbled.                 *)
Call == [id : CallId, to : Tools \cup Agents \cup {Garbled}]

(* Serialised sizes are of no interest here: MaxMessages bounds a session. *)
Message == [kind : {"question", "summary", "answer", "results"}, ids : Seq(CallId),
            start : BOOLEAN, size : {1}]

Plain(kind, ids) ==
    [kind |-> kind, ids |-> ids, start |-> kind \in {"question", "summary"}, size |-> 1]

RunState == [turn : 1..MaxTurns, def : Agents, caller : SUBSET Grant, actor : SUBSET Grant,
             conv : Seq(Message), turn_start : Nat, rev : Nat, steps : Nat,
             broke : BOOLEAN,       \* the run's or the tree's budget is spent
             big : BOOLEAN,         \* last_input_tokens > max_context_tokens
             failures : Nat,        \* compaction_failures
             retry_at : Nat]        \* compaction_retry_at

ASSUME NoRunAssumption == NoRun \notin RunState

Ids(cs) == [i \in DOMAIN cs |-> cs[i].id]

Init ==
    /\ st = NoRun /\ phase = "idle"
    /\ calls = <<>> /\ at = 1 /\ results = <<>> /\ cleared = FALSE
    /\ parked = {}
    /\ saved = [conv |-> <<>>, rev |-> 0] /\ revisions = 0
    /\ nextTurn = 1
    /\ ran = {} /\ approved = {} /\ declined = {}

(* run: load the session, or forget it, and add the question.              *)
Begin ==
    /\ phase = "idle" /\ nextTurn <= MaxTurns
    /\ \E entry \in Agents, held \in Callers, reset \in BOOLEAN :
        LET base == IF reset THEN <<>> ELSE saved.conv
        IN  /\ st' = [turn |-> nextTurn, def |-> entry, caller |-> held,
                      actor |-> Delegated(held, ScopesOf[entry]),
                      conv |-> Append(base, Plain("question", <<>>)),
                      turn_start |-> Len(base), rev |-> IF reset THEN 0 ELSE saved.rev,
                      steps |-> 0, broke |-> FALSE, big |-> FALSE, failures |-> 0, retry_at |-> 0]
            /\ saved' = IF reset THEN [conv |-> <<>>, rev |-> 0] ELSE saved
    /\ phase' = "top"
    /\ nextTurn' = nextTurn + 1
    /\ UNCHANGED <<callVars, parked, revisions, auditVars>>

(* run, when a context provider fails or the future is dropped meanwhile.  *)
BeginFails ==
    /\ phase = "idle" /\ nextTurn <= MaxTurns
    /\ saved' \in {saved, [conv |-> <<>>, rev |-> 0]}
    /\ nextTurn' = nextTurn + 1
    /\ UNCHANGED <<st, phase, callVars, parked, revisions, auditVars>>

(* The session expires or is evicted while no turn holds it. *)
SessionLost ==
    /\ phase = "idle" /\ saved.rev # 0
    /\ saved' = [conv |-> <<>>, rev |-> 0]
    /\ UNCHANGED <<st, phase, callVars, parked, revisions, nextTurn, auditVars>>

-----------------------------------------------------------------------------
(* How a run ends *)

Free ==
    /\ st' = NoRun /\ phase' = "idle"
    /\ calls' = <<>> /\ at' = 1 /\ results' = <<>> /\ cleared' = FALSE

(* finish with any status but AwaitingApproval: the session is saved.      *)
Finish(conv) ==
    /\ Free
    /\ saved' = [conv |-> Bound(conv), rev |-> revisions + 1]
    /\ revisions' = revisions + 1
    /\ UNCHANGED <<parked, nextTurn, auditVars>>

(* The future is dropped at an await: a timeout, or the client is gone.    *)
Cancel ==
    /\ phase \in {"compacting", "asking", "calling"}
    /\ Free
    /\ UNCHANGED <<parked, sessionVars, nextTurn, auditVars>>

-----------------------------------------------------------------------------
(* The top of the loop *)

OverLimit == st.steps >= MaxSteps \/ st.broke

(* The last answer such that at least Keep messages start with it.         *)
LastAnswer ==
    LET n == Len(st.conv)
    IN  {i \in 2..n : /\ st.conv[i].kind = "answer" /\ n - i + 1 >= Keep
                      /\ \A j \in i + 1 .. n - Keep + 1 : st.conv[j].kind # "answer"}

(* maybe_compact is due: the context is over the window and there is a cut *)
(* with at least two messages before it.                                   *)
CompactionDue ==
    /\ st.steps >= st.retry_at /\ st.big
    /\ Len(st.conv) > Keep + 1
    /\ \E i \in LastAnswer : i > 2

GiveUp == phase = "top" /\ OverLimit /\ Finish(st.conv)

Proceed ==
    /\ phase = "top" /\ ~OverLimit
    /\ phase' = IF CompactionDue THEN "compacting" ELSE "asking"
    /\ UNCHANGED <<st, callVars, parked, sessionVars, nextTurn, auditVars>>

(* charge(): what a response cost may be all that was left. *)
Charged(r) == {[r EXCEPT !.broke = b] : b \in {TRUE, r.broke}}

Cuts == LastAnswer

(* Where this run's messages start once a summary stands for what was      *)
(* before the cut: at the summary, when they began before it.              *)
MovedStart(start, cut) == IF start >= cut - 1 THEN start - cut + 2 ELSE 0

(* The summary replaces everything before the cut. *)
Compacted ==
    /\ phase = "compacting"
    /\ \E i \in Cuts, r \in Charged(st) :
        st' = [r EXCEPT
            !.conv = <<Plain("summary", <<>>)>> \o SubSeq(st.conv, i, Len(st.conv)),
            !.turn_start = MovedStart(st.turn_start, i),
            !.big = FALSE, !.failures = 0]
    /\ phase' = "asking"
    /\ UNCHANGED <<callVars, parked, sessionVars, nextTurn, auditVars>>

(* The next attempt waits 2, 4, 8 ... steps.                               *)
RetryAt(steps, failures) == steps + 2^failures

(* Faulty variant: a failed compaction is tried again until it succeeds. *)
CompactionFails_Retried ==
    /\ phase = "compacting"
    /\ \E r \in Charged(st) : st' = r
    /\ phase' = "top"
    /\ UNCHANGED <<callVars, parked, sessionVars, nextTurn, auditVars>>

(* The summariser fails, or answers nothing, which is charged.             *)
CompactionFails ==
    /\ phase = "compacting"
    /\ \E r \in Charged(st) :
        st' = [r EXCEPT !.failures = st.failures + 1,
                        !.retry_at = RetryAt(st.steps, st.failures + 1)]
    /\ phase' = "asking"
    /\ UNCHANGED <<callVars, parked, sessionVars, nextTurn, auditVars>>

-----------------------------------------------------------------------------
(* The model's answer *)

ProviderFails == phase = "asking" /\ Finish(st.conv)

(* A charged answer of the provider, one step further. *)
Answered == UNION {Charged([st EXCEPT !.steps = st.steps + 1, !.big = b]) : b \in BOOLEAN}

(* Faulty variant: an answer that will not be followed is kept whole. *)
Replayable_Whole == {<<>>, <<Plain("answer", <<<<st.turn, st.steps + 1, 1>>>>)>>}

(* replayable: without its tool calls, and left out when nothing remains.  *)
Replayable == {<<>>, <<Plain("answer", <<>>)>>}

(* No calls to run, or an answer cut off by max_tokens: the run is over.   *)
AnswerEnds ==
    /\ phase = "asking"
    /\ \E said \in Replayable : Finish(st.conv \o said)

AnswerAsks ==
    /\ phase = "asking"
    /\ \E n \in 1..MaxCalls[st.def] :
       \E to \in [1..n -> Tools \cup Agents \cup {Garbled}], r \in Answered :
        LET asked == [i \in 1..n |-> [id |-> <<st.turn, st.steps + 1, i>>, to |-> to[i]]]
        IN  /\ calls' = asked
            /\ st' = [r EXCEPT !.conv = Append(st.conv, Plain("answer", Ids(asked)))]
    /\ at' = 1 /\ results' = <<>> /\ cleared' = FALSE
    /\ phase' = "calling"
    /\ UNCHANGED <<parked, sessionVars, nextTurn, auditVars>>

-----------------------------------------------------------------------------
(* execute_calls: the calls of one answer, in order *)

Current == calls[at]
Calling == phase = "calling" /\ at <= Len(calls)

Answer == /\ results' = Append(results, Current.id)
          /\ at' = at + 1 /\ cleared' = FALSE
          /\ UNCHANGED <<calls, phase, parked, sessionVars, nextTurn>>

IsHandoff == ~cleared /\ Current.to \in HandoffsOf[st.def]
Refusable == ~cleared /\ Current.to \notin ToolsOf[st.def]

Handoff ==
    /\ Calling /\ IsHandoff
    /\ st' = [st EXCEPT !.def = Current.to,
                        !.actor = HandoffActor(st.caller, st.actor, Current.to)]
    /\ Answer /\ UNCHANGED auditVars

(* The target's context providers fail: nothing changes hands.             *)
HandoffFails == Calling /\ IsHandoff /\ Answer /\ UNCHANGED <<st, auditVars>>

(* Not a tool of this agent, or the arguments are not an object.           *)
Refuse == Calling /\ ~IsHandoff /\ Refusable /\ Answer /\ UNCHANGED <<st, auditVars>>

(* Faulty variant: the gate is looked up after the call was dispatched. *)
NeedsHuman_Never(c) == FALSE

NeedsHuman(c) == c.to \in Gated

(* dispatch_call: through App::dispatch, which checks the actor's scopes.  *)
Dispatch ==
    /\ Calling /\ ~IsHandoff /\ ~Refusable
    /\ cleared \/ ~NeedsHuman(Current)
    /\ ran' = IF Required[Current.to] \subseteq Allows(st.actor)
              THEN ran \cup {Current.id} ELSE ran
    /\ \E r \in Charged(st) : st' = r    \* nested runs spend the same budget
    /\ Answer /\ UNCHANGED <<approved, declined>>

(* A gated call parks the run; finish(AwaitingApproval) saves nothing.  At *)
(* capacity one makes room (the oldest; the model keeps no ages).          *)
Suspend ==
    /\ Calling /\ ~IsHandoff /\ ~Refusable /\ ~cleared /\ NeedsHuman(Current)
    /\ \E kept \in {q \in SUBSET parked :
                     Cardinality(q) = Min({Cardinality(parked), MaxParked - 1})} :
        parked' = kept \cup {[st |-> st, calls |-> calls, gated |-> at, results |-> results]}
    /\ Free
    /\ UNCHANGED <<sessionVars, nextTurn, auditVars>>

(* All calls are answered: their results go back to the model.             *)
Results ==
    /\ phase = "calling" /\ at > Len(calls)
    /\ st' = [st EXCEPT !.conv = Append(@, Plain("results", results))]
    /\ phase' = "top"
    /\ UNCHANGED <<callVars, parked, sessionVars, nextTurn, auditVars>>

-----------------------------------------------------------------------------
(* The human's decision *)

(* rebase_onto_session: the run's own messages move onto the session as it *)
(* is now, if that has moved.                                              *)
Rebased(r) ==
    IF saved.rev = r.rev THEN r
    ELSE [r EXCEPT !.conv = saved.conv \o SubSeq(r.conv, r.turn_start + 1, Len(r.conv)),
                   !.turn_start = Len(saved.conv), !.rev = saved.rev]

(* Faulty variant: an approved run starts its calls over. *)
Approve_StartsOver(p) ==
    /\ phase = "idle"
    /\ parked' = parked \ {p}
    /\ st' = Rebased(p.st) /\ calls' = p.calls /\ results' = <<>>
    /\ at' = 1 /\ cleared' = (p.gated = 1) /\ phase' = "calling"
    /\ approved' = approved \cup {p.calls[p.gated].id}
    /\ UNCHANGED <<sessionVars, nextTurn, ran, declined>>

(* An approval dispatches the gated call and goes on with the next one.    *)
Approve(p) ==
    /\ phase = "idle"
    /\ parked' = parked \ {p}
    /\ st' = Rebased(p.st) /\ calls' = p.calls /\ results' = p.results
    /\ at' = p.gated /\ cleared' = TRUE /\ phase' = "calling"
    /\ approved' = approved \cup {p.calls[p.gated].id}
    /\ UNCHANGED <<sessionVars, nextTurn, ran, declined>>

AfterDenial(gated) == gated + 1

(* A denial answers the call with an error and goes on with the next one.  *)
Decline(p) ==
    LET id == p.calls[p.gated].id
    IN  /\ phase = "idle"
        /\ parked' = parked \ {p}
        /\ st' = Rebased(p.st) /\ calls' = p.calls
        /\ results' = Append(p.results, id)
        /\ at' = AfterDenial(p.gated) /\ cleared' = FALSE /\ phase' = "calling"
        /\ declined' = declined \cup {id}
        /\ UNCHANGED <<sessionVars, nextTurn, ran, approved>>

(* The suspension is past its time to live. *)
Forgotten(p) ==
    /\ parked' = parked \ {p}
    /\ UNCHANGED <<st, phase, callVars, sessionVars, nextTurn, auditVars>>

-----------------------------------------------------------------------------
Running ==
    \/ GiveUp \/ Proceed \/ Compacted \/ CompactionFails
    \/ ProviderFails \/ AnswerEnds \/ AnswerAsks
    \/ Handoff \/ HandoffFails \/ Refuse \/ Dispatch \/ Suspend \/ Results

Next ==
    \/ Begin \/ BeginFails \/ SessionLost \/ Running \/ Cancel
    \/ \E p \in parked : Approve(p) \/ Decline(p) \/ Forgotten(p)

Spec == Init /\ [][Next]_vars

(* The future is polled again while anything it waits for can answer: the  *)
(* provider's client and the request both have timeouts.                   *)
FairSpec == Spec /\ WF_vars(Running)

-----------------------------------------------------------------------------
(* Properties *)

TypeOK ==
    /\ st \in RunState \cup {NoRun}
    /\ phase \in {"idle", "top", "compacting", "asking", "calling"}
    /\ phase = "idle" <=> st = NoRun
    /\ calls \in Seq(Call) /\ results \in Seq(CallId)
    /\ at \in Nat \ {0} /\ cleared \in BOOLEAN
    /\ \A p \in parked : /\ p.st \in RunState /\ p.calls \in Seq(Call)
                         /\ p.gated \in DOMAIN p.calls /\ p.results \in Seq(CallId)
    /\ saved.conv \in Seq(Message) /\ saved.rev \in Nat /\ revisions \in Nat
    /\ nextTurn \in Nat \ {0}
    /\ ran \subseteq CallId /\ approved \subseteq CallId /\ declined \subseteq CallId

(* Every tool_use is followed by its tool_results, in order, and nothing   *)
(* else holds tool_results; a conversation opens with a question or a      *)
(* summary.                                                                *)
Paired(conv) ==
    /\ conv # <<>> => conv[1].start
    /\ \A i \in DOMAIN conv :
        /\ conv[i].kind = "answer" /\ conv[i].ids # <<>> =>
            /\ i < Len(conv) /\ conv[i + 1].kind = "results" /\ conv[i + 1].ids = conv[i].ids
        /\ conv[i].kind = "results" => i > 1 /\ conv[i - 1].ids = conv[i].ids

(* No conversation sent to a provider, and none saved, holds a tool call   *)
(* apart from its result, whatever compactions, suspensions, rebases,      *)
(* truncated answers and bound() did to it (drive_steps, replayable).      *)
ToolPairsWhole ==
    /\ Paired(saved.conv)
    /\ phase \in {"asking", "top"} => Paired(st.conv)

(* A gated tool runs only on the call a human approved, and a call a human *)
(* declined never runs (execute_calls, resume_approval).                   *)
GateHolds ==
    /\ ran \cap declined = {}
    /\ \A c \in {calls[i] : i \in DOMAIN calls} :
        c.id \in ran /\ c.to \in Gated => c.id \in approved

(* The calls of an answer run at most once and in order: none still to be  *)
(* looked at, now or after an approval, has run.                           *)
RunsOnce ==
    /\ phase = "calling" => \A i \in at..Len(calls) : calls[i].id \notin ran
    /\ \A p \in parked : \A i \in p.gated..Len(p.calls) : p.calls[i].id \notin ran

(* The runs there are, in control or parked. *)
Runs == ({st} \ {NoRun}) \cup {p.st : p \in parked}

(* "Authority can only shrink along a chain of handoffs" (handoff), also   *)
(* when a run is parked between them and resumed: a run that a step leaves *)
(* in control or parked, and did not begin, was there before the step, and *)
(* could do all it can do now.                                             *)
AuthorityShrinks ==
    [][\A r \in Runs' : r.turn < nextTurn =>
        \E was \in Runs : was.turn = r.turn /\ Allows(r.actor) \subseteq Allows(was.actor)]_vars

(* Every run ends, or waits for a human. *)
RunEnds == (phase # "idle") ~> (phase = "idle")

=============================================================================
