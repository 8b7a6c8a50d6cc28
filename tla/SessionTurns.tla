---------------------------- MODULE SessionTurns ----------------------------
(***************************************************************************)
(* Turns on agent sessions: SessionStore (agent/session.rs), the parts of  *)
(* AgentRuntime::run, resume_approval and finish (agent.rs) that touch it, *)
(* and the map of suspended runs (App::suspend, App::resolve_approval).    *)
(*                                                                         *)
(* A task is one request's future.  It carries a turn on a session: it     *)
(* takes the session's turn lock, loads the conversation, adds messages,   *)
(* and either saves the conversation or parks the run for a human.  A      *)
(* later task resumes a parked run.  Tasks interleave at every lock and    *)
(* every await, and a task may be dropped at an await (its request timed   *)
(* out, or its client went away).                                          *)
(*                                                                         *)
(* A message is reduced to the set of turns whose words it carries (its    *)
(* own turn's; a compaction summary carries several), whether it starts a  *)
(* turn, and its size.  One that starts no turn stands for a model's       *)
(* answer with the tool results after it, which no cut separates.          *)
(***************************************************************************)
EXTENDS SessionBound, FiniteSets

CONSTANTS Tasks,          \* request futures
          Keys,           \* session keys: agent, principal and session id
          NestedKeys,     \* the keys nested runs (depth > 0) use
          Locks,          \* identities of the per-session mutexes (the Arcs)
          None,
          Capacity,       \* sessions the store keeps
          MaxApprovals,   \* suspended runs the app keeps (1000 in the code)
          MaxTurns,       \* bound: turns started
          MaxOwn,         \* bound: length of a conversation a run still adds to
          MaxSuspensions  \* bound: suspensions over the whole behaviour

ASSUME TurnsAssumption ==
    /\ NestedKeys \subseteq Keys
    /\ None \notin Tasks \cup Keys \cup Locks
    /\ Capacity \in Nat \ {0} /\ MaxApprovals \in Nat \ {0}
    /\ MaxTurns \in Nat /\ MaxOwn \in Nat /\ MaxSuspensions \in Nat

VARIABLES
    pc,          \* where each task is
    run,         \* the RunState each task carries
    arc,         \* the lock each task holds a reference to
    lockOf,      \* SessionStore.turns: the lock of each session
    holder,      \* who holds each lock (the semaphore's permit)
    waiters,     \* who waits for each lock, in arrival order
    store,       \* SessionStore.inner: the saved sessions
    lru,         \* the saved sessions' keys, the least recently touched first
    stale,       \* saved sessions whose time to live has passed
    revisions,   \* SessionStore.revisions
    approvals,   \* App.approvals: the suspended runs
    overdue,     \* suspensions up to this one are past approval_ttl_secs
    nextTurn,    \* the next turn's identity
    nextApproval \* the next suspension's identity

lockVars     == <<arc, lockOf, holder, waiters>>
storeVars    == <<store, lru, stale, revisions>>
approvalVars == <<approvals, overdue, nextApproval>>
vars == <<pc, run, lockVars, storeVars, approvalVars, nextTurn>>

-----------------------------------------------------------------------------
(* Messages, conversations and runs *)

Turns == 1..MaxTurns
Message == [turns : SUBSET Turns, start : BOOLEAN, size : Nat]
Entry == [conv : Seq(Message), rev : Nat]

(* turn_start is how many messages come before the run's own; resumed tells *)
(* a run that a human has decided on from one that has just been asked for. *)
Run == [turn : Turns, key : Keys, nested : BOOLEAN, reset : BOOLEAN,
        conv : Seq(Message), turn_start : Nat, rev : Nat, resumed : BOOLEAN]

Suspended == [id : Nat, run : Run]

(* Every turn some message of the conversation carries. *)
Carried(conv) == UNION {conv[i].turns : i \in DOMAIN conv}

Said(u, first) == [turns |-> {u}, start |-> first, size |-> 1]

Without(seq, S) == SelectSeq(seq, LAMBDA x : x \notin S)

(* What load_with_revision answers: an expired session reads as missing.   *)
Live(k) == store[k] # None /\ k \notin stale
History(k) == IF Live(k) THEN store[k].conv ELSE <<>>
Revision(k) == IF Live(k) THEN store[k].rev ELSE 0

Pending == {a \in approvals : a.id > overdue}

Init ==
    /\ pc = [t \in Tasks |-> "idle"]
    /\ run = [t \in Tasks |-> None]
    /\ arc = [t \in Tasks |-> None]
    /\ lockOf = [k \in Keys |-> None]
    /\ holder = [l \in Locks |-> None]
    /\ waiters = [l \in Locks |-> <<>>]
    /\ store = [k \in Keys |-> None]
    /\ lru = <<>>
    /\ stale = {}
    /\ revisions = 0
    /\ approvals = {}
    /\ overdue = 0
    /\ nextTurn = 1
    /\ nextApproval = 1

-----------------------------------------------------------------------------
(* The turn lock *)

(* A request to run an agent in a session.  A nested run does not wait.    *)
Arrive(t, k, nested, reset) ==
    /\ pc[t] = "idle"
    /\ nextTurn \in Turns
    /\ nested => k \in NestedKeys
    /\ run' = [run EXCEPT ![t] =
                [turn |-> nextTurn, key |-> k, nested |-> nested, reset |-> reset,
                 conv |-> <<>>, turn_start |-> 0, rev |-> 0, resumed |-> FALSE]]
    /\ nextTurn' = nextTurn + 1
    /\ pc' = [pc EXCEPT ![t] = IF nested THEN "entering" ELSE "arrived"]
    /\ UNCHANGED <<lockVars, storeVars, approvalVars>>

(* lock_turn under the `turns` mutex: drop the locks nobody refers to, then *)
(* find this session's lock, or make one, and take a reference to it.       *)
Referenced(l) == \E t \in Tasks : arc[t] = l

(* Faulty variant: every other lock goes. *)
KeptLocks_DropsHeld(k) == [j \in Keys |-> IF j = k THEN lockOf[j] ELSE None]

KeptLocks(k) ==
    [j \in Keys |-> IF j = k \/ Referenced(lockOf[j]) THEN lockOf[j] ELSE None]

IsFresh(l, kept) == ~Referenced(l) /\ \A j \in Keys : kept[j] # l

CloneLock(t) ==
    LET k == run[t].key
        kept == KeptLocks(k)
    IN  /\ pc[t] = "arrived"
        /\ \E l \in Locks :
            /\ IF kept[k] = None THEN IsFresh(l, kept) ELSE l = kept[k]
            /\ lockOf' = [kept EXCEPT ![k] = l]
            /\ arc' = [arc EXCEPT ![t] = l]
        /\ pc' = [pc EXCEPT ![t] = "cloned"]
        /\ UNCHANGED <<run, holder, waiters, storeVars, approvalVars, nextTurn>>

(* The first poll of lock_owned: take the free permit or join the queue.   *)
Enqueue(t) ==
    LET l == arc[t]
    IN  /\ pc[t] = "cloned"
        /\ pc' = [pc EXCEPT ![t] = "waiting"]
        /\ IF holder[l] = None
           THEN holder' = [holder EXCEPT ![l] = t] /\ UNCHANGED waiters
           ELSE waiters' = [waiters EXCEPT ![l] = Append(@, t)] /\ UNCHANGED holder
        /\ UNCHANGED <<run, arc, lockOf, storeVars, approvalVars, nextTurn>>

(* Faulty variant: the lock is freed, and nobody is woken. *)
DropLock_WakesNobody(t) ==
    /\ arc' = [arc EXCEPT ![t] = None]
    /\ holder' = [l \in Locks |-> IF holder[l] = t THEN None ELSE holder[l]]
    /\ waiters' = [l \in Locks |-> Without(waiters[l], {t})]
    /\ UNCHANGED lockOf

(* Dropping the guard, or the wait for it: the permit passes to the first  *)
(* waiter, or a waiter leaves the queue, and the reference goes.           *)
DropLock(t) ==
    LET l == arc[t]
    IN  /\ arc' = [arc EXCEPT ![t] = None]
        /\ IF l = None THEN UNCHANGED <<holder, waiters>>
           ELSE IF holder[l] # t
           THEN /\ \E i \in DOMAIN waiters[l] :
                    /\ waiters[l][i] = t
                    /\ waiters' = [waiters EXCEPT ![l] = SubSeq(@, 1, i - 1)
                                                        \o SubSeq(@, i + 1, Len(@))]
                /\ UNCHANGED holder
           ELSE IF waiters[l] = <<>>
           THEN holder' = [holder EXCEPT ![l] = None] /\ UNCHANGED waiters
           ELSE /\ holder' = [holder EXCEPT ![l] = Head(waiters[l])]
                /\ waiters' = [waiters EXCEPT ![l] = Tail(@)]
        /\ UNCHANGED lockOf

(* The run has its result and its future ends. *)
Leave(t) ==
    /\ pc[t] = "leaving"
    /\ pc' = [pc EXCEPT ![t] = "idle"]
    /\ run' = [run EXCEPT ![t] = None]
    /\ DropLock(t)
    /\ UNCHANGED <<storeVars, approvalVars, nextTurn>>

(* The future is dropped at an await, or the agent's context providers     *)
(* fail: the run ends and nothing is saved.                                *)
Abandon(t) ==
    /\ pc[t] \in {"waiting", "running"}
    /\ pc' = [pc EXCEPT ![t] = "idle"]
    /\ run' = [run EXCEPT ![t] = None]
    /\ DropLock(t)
    /\ UNCHANGED <<storeVars, approvalVars, nextTurn>>

-----------------------------------------------------------------------------
(* Entering the session *)

(* forget(), and what load_with_revision does to an expired entry.         *)
Remove(k) ==
    /\ store' = [store EXCEPT ![k] = None]
    /\ lru' = Without(lru, {k})
    /\ stale' = stale \ {k}
    /\ UNCHANGED revisions

(* load_with_revision's effect: a live entry is touched, others removed.   *)
Load(k) ==
    IF Live(k)
    THEN lru' = Append(Without(lru, {k}), k) /\ UNCHANGED <<store, stale, revisions>>
    ELSE Remove(k)

(* lock_turn has returned, or there was nothing to wait for. *)
MayEnter(t) == \/ pc[t] = "entering"
               \/ pc[t] = "waiting" /\ holder[arc[t]] = t

(* A new turn loads the session, or forgets it, and adds its question.     *)
Begin(t) ==
    LET r == run[t]
        base == IF r.reset THEN <<>> ELSE History(r.key)
    IN  /\ MayEnter(t) /\ ~r.resumed
        /\ IF r.reset THEN Remove(r.key) ELSE Load(r.key)
        /\ run' = [run EXCEPT
                ![t].conv = Append(base, Said(r.turn, TRUE)),
                ![t].turn_start = Len(base),
                ![t].rev = IF r.reset THEN 0 ELSE Revision(r.key)]
        /\ pc' = [pc EXCEPT ![t] = "running"]
        /\ UNCHANGED <<lockVars, approvalVars, nextTurn>>

(* Faulty variant: a resumed run goes on with the history it was parked with. *)
Rebased_Never(r) == r

(* rebase_onto_session: a run that was suspended carries its own messages  *)
(* over to the session as it is now, if that has moved.                    *)
Rebased(r) ==
    LET base == History(r.key)
        own == SubSeq(r.conv, r.turn_start + 1, Len(r.conv))
    IN  IF Revision(r.key) = r.rev THEN r
        ELSE [r EXCEPT !.conv = base \o own, !.turn_start = Len(base), !.rev = Revision(r.key)]

Resume(t) ==
    LET r == run[t]
    IN  /\ MayEnter(t) /\ r.resumed
        /\ Load(r.key)
        /\ run' = [run EXCEPT ![t] = Rebased(r)]
        /\ pc' = [pc EXCEPT ![t] = "running"]
        /\ UNCHANGED <<lockVars, approvalVars, nextTurn>>

-----------------------------------------------------------------------------
(* The run *)

(* A model's answer or a batch of tool results is added. *)
Speak(t) ==
    /\ pc[t] = "running"
    /\ Len(run[t].conv) < MaxOwn
    /\ run' = [run EXCEPT ![t].conv = Append(@, Said(run[t].turn, FALSE))]
    /\ UNCHANGED <<pc, lockVars, storeVars, approvalVars, nextTurn>>

(* Faulty variant: the shift forgets the summary that stands for the cut. *)
Compacted_SummaryUncounted(r, cut) ==
    LET summary == [turns |-> Carried(SubSeq(r.conv, 1, cut)), start |-> TRUE, size |-> 1]
    IN  [r EXCEPT !.conv = <<summary>> \o SubSeq(r.conv, cut + 1, Len(r.conv)),
                  !.turn_start = IF r.turn_start >= cut THEN r.turn_start - cut ELSE 0]

(* maybe_compact: the messages before the cut become one summary, and the  *)
(* start of the run's own messages moves with the cut.                     *)
Compacted(r, cut) ==
    LET summary == [turns |-> Carried(SubSeq(r.conv, 1, cut)), start |-> TRUE, size |-> 1]
    IN  [r EXCEPT !.conv = <<summary>> \o SubSeq(r.conv, cut + 1, Len(r.conv)),
                  !.turn_start = IF r.turn_start >= cut THEN r.turn_start - cut + 1 ELSE 0]

Compact(t) ==
    /\ pc[t] = "running"
    /\ \E cut \in 2 .. Len(run[t].conv) - 1 :
        /\ ~run[t].conv[cut + 1].start
        /\ run' = [run EXCEPT ![t] = Compacted(run[t], cut)]
    /\ UNCHANGED <<pc, lockVars, storeVars, approvalVars, nextTurn>>

(* SessionStore::save: bound the conversation, drop expired sessions, make *)
(* room by dropping the least recently touched, and take a new revision.   *)
Save(k, conv) ==
    LET live == Without(lru, stale)
        evicted == IF Len(live) >= Capacity /\ \A i \in DOMAIN live : live[i] # k
                   THEN {Head(live)} ELSE {}
        entry == [conv |-> Bound(conv), rev |-> revisions + 1]
    IN  /\ store' = [j \in Keys |-> IF j = k THEN entry
                                   ELSE IF j \in stale \cup evicted THEN None ELSE store[j]]
        /\ lru' = Append(Without(live, evicted \cup {k}), k)
        /\ stale' = {}
        /\ revisions' = revisions + 1

(* finish with any status but AwaitingApproval. *)
Finish(t) ==
    /\ pc[t] = "running"
    /\ Save(run[t].key, run[t].conv)
    /\ pc' = [pc EXCEPT ![t] = "leaving"]
    /\ UNCHANGED <<run, lockVars, approvalVars, nextTurn>>

(* A tool call needs a human: App::suspend drops the overdue runs, makes   *)
(* room by dropping the oldest, and parks this one; finish saves nothing.  *)
Suspend(t) ==
    LET evicted == IF Cardinality(Pending) >= MaxApprovals
                   THEN {a \in Pending : \A b \in Pending : a.id <= b.id} ELSE {}
    IN  /\ pc[t] = "running"
        /\ nextApproval <= MaxSuspensions
        /\ approvals' = (Pending \ evicted) \cup {[id |-> nextApproval, run |-> run[t]]}
        /\ nextApproval' = nextApproval + 1
        /\ pc' = [pc EXCEPT ![t] = "leaving"]
        /\ UNCHANGED <<run, lockVars, storeVars, overdue, nextTurn>>

-----------------------------------------------------------------------------
(* The human's decision *)

(* Faulty variant: the suspended run is read, not taken, out of the map. *)
Resolve_NotConsumed(t, a) ==
    /\ pc[t] = "idle"
    /\ a \in Pending
    /\ run' = [run EXCEPT ![t] = [a.run EXCEPT !.resumed = TRUE]]
    /\ pc' = [pc EXCEPT ![t] = IF a.run.nested THEN "entering" ELSE "arrived"]
    /\ UNCHANGED <<lockVars, storeVars, approvalVars, nextTurn>>

(* resolve_approval: the decision is consumed even when it comes too late. *)
Resolve(t, a) ==
    /\ pc[t] = "idle"
    /\ a \in approvals
    /\ approvals' = approvals \ {a}
    /\ IF a \in Pending
       THEN /\ run' = [run EXCEPT ![t] = [a.run EXCEPT !.resumed = TRUE]]
            /\ pc' = [pc EXCEPT ![t] = IF a.run.nested THEN "entering" ELSE "arrived"]
       ELSE UNCHANGED <<run, pc>>
    /\ UNCHANGED <<lockVars, storeVars, overdue, nextApproval, nextTurn>>

(* pending_approvals sweeps the overdue runs. *)
ListApprovals ==
    /\ approvals # Pending
    /\ approvals' = Pending
    /\ UNCHANGED <<pc, run, lockVars, storeVars, overdue, nextApproval, nextTurn>>

(* Time passes: the session touched longest ago, or the oldest suspension, *)
(* goes past its time to live.                                             *)
SessionExpires ==
    LET live == Without(lru, stale)
    IN  /\ live # <<>>
        /\ stale' = stale \cup {Head(live)}
        /\ UNCHANGED <<pc, run, lockVars, store, lru, revisions, approvalVars, nextTurn>>

ApprovalExpires ==
    /\ overdue + 1 < nextApproval
    /\ overdue' = overdue + 1
    /\ UNCHANGED <<pc, run, lockVars, storeVars, approvals, nextApproval, nextTurn>>

-----------------------------------------------------------------------------
Next ==
    \/ \E t \in Tasks :
        \/ \E k \in Keys, nested, reset \in BOOLEAN : Arrive(t, k, nested, reset)
        \/ CloneLock(t) \/ Enqueue(t) \/ Begin(t) \/ Resume(t)
        \/ Speak(t) \/ Compact(t) \/ Finish(t) \/ Suspend(t)
        \/ Leave(t) \/ Abandon(t)
        \/ \E a \in approvals : Resolve(t, a)
    \/ ListApprovals
    \/ SessionExpires
    \/ ApprovalExpires

Spec == Init /\ [][Next]_vars

(* A task that can move is polled again, and a run ends: max_steps bounds  *)
(* its model calls, and a request's timeout drops it.                      *)
Fairness ==
    \A t \in Tasks :
        /\ WF_vars(CloneLock(t)) /\ WF_vars(Enqueue(t))
        /\ WF_vars(Begin(t)) /\ WF_vars(Resume(t))
        /\ WF_vars(Finish(t)) /\ WF_vars(Leave(t))

FairSpec == Spec /\ Fairness

-----------------------------------------------------------------------------
(* Properties *)

TypeOK ==
    /\ pc \in [Tasks -> {"idle", "arrived", "cloned", "waiting", "entering", "running", "leaving"}]
    /\ run \in [Tasks -> Run \cup {None}]
    /\ arc \in [Tasks -> Locks \cup {None}]
    /\ lockOf \in [Keys -> Locks \cup {None}]
    /\ holder \in [Locks -> Tasks \cup {None}]
    /\ waiters \in [Locks -> Seq(Tasks)]
    /\ store \in [Keys -> Entry \cup {None}]
    /\ revisions \in Nat
    /\ approvals \subseteq Suspended
    /\ overdue \in Nat /\ nextTurn \in Nat /\ nextApproval \in Nat

(* A task inside a session whose turn lock it holds. *)
InTurn(t) == pc[t] \in {"running", "leaving"} /\ ~run[t].nested

(* Two top-level turns are never inside one session, although locks nobody *)
(* refers to are dropped from the map and made again (lock_turn).          *)
OneTurnAtATime ==
    \A t, u \in Tasks :
        InTurn(t) /\ InTurn(u) /\ run[t].key = run[u].key => t = u

(* What a turn inside a session will save still carries every turn that is *)
(* saved there now: no concurrent turn, approval, reset, expiry or         *)
(* compaction makes it overwrite another.  For sessions no nested run uses.*)
HistoryKept ==
    \A t \in Tasks :
        InTurn(t) /\ run[t].key \notin NestedKeys /\ store[run[t].key] # None
            => Carried(store[run[t].key].conv) \subseteq Carried(run[t].conv)

(* A run that has asked for approval continues at most once: each turn is  *)
(* carried by one task or waits as one suspended run, never both.          *)
OneLifePerTurn ==
    \A u \in Turns :
        LET carrying == {t \in Tasks : pc[t] \notin {"idle", "leaving"} /\ run[t].turn = u}
            parked == {a \in approvals : a.run.turn = u}
        IN  Cardinality(carrying) + Cardinality(parked) <= 1

(* turn_start is where the run's own messages begin: none before it has    *)
(* the run's words and all after it have, so that a rebase moves each of   *)
(* them.  They have no one else's, so that it repeats no history: only the *)
(* first of them may, once a summary has taken in the turn's beginning     *)
(* with the history before it.                                             *)
OwnTurnMovable ==
    LET Exact(r) ==
            /\ r.turn_start < Len(r.conv)
            /\ \A i \in DOMAIN r.conv :
                /\ r.turn \in r.conv[i].turns <=> i > r.turn_start
                /\ i > r.turn_start + 1 => r.conv[i].turns = {r.turn}
    IN  /\ \A t \in Tasks : pc[t] = "running" => Exact(run[t])
        /\ \A a \in approvals : Exact(a.run)

(* A task waiting for a session gets it, or gives up: the lock is handed   *)
(* on by every turn that ends, however it ends.                            *)
EveryWaitEnds == \A t \in Tasks : (pc[t] = "waiting") ~> (pc[t] # "waiting")

=============================================================================
