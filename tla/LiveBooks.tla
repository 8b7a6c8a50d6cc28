------------------------------ MODULE LiveBooks ------------------------------
(* What the server says of its runs while they run: the book of runs in      *)
(* flight and the tallies per agent (status.rs), the spend ledger            *)
(* (ledger.rs), and the watcher, a task that looks at a device every so      *)
(* often and asks an agent when something changed (devices.rs).  Requests    *)
(* time out, clients go away and humans answer approvals while all of these  *)
(* are being written, each under a lock of its own.                          *)
(*                                                                           *)
(* A run is known by its id.  A step of it costs one token.  What a run does *)
(* beyond this is in AgentRun; outcomes other than cancelled are one.        *)
EXTENDS Integers, Sequences, FiniteSets, Functions

CONSTANTS
  RunIds,      \* the ids of runs, each used once
  Agents,      \* the agents; a run of one may be handed to another
  Watched,     \* the agent the watcher asks
  Scenes,      \* what the device may show
  Quiet,       \* no digest yet
  Places,      \* runs the book of runs in flight holds (10_000)
  MaxKeys,     \* MAX_KEYS of the ledger
  Priced,      \* the agents whose model has a declared price: one a token
  PerHour,     \* max_runs_per_hour
  Hour,        \* in ticks of the clock
  OnlyOnChange,\* only_on_change
  MaxSteps,    \* bound: steps of one run
  MaxStints,   \* bound: times one run is started or resumed
  MaxNow       \* bound: the clock

ASSUME BooksAssumption ==
  /\ Watched \in Agents /\ Quiet \notin Scenes /\ Priced \subseteq Agents
  /\ {Places, MaxKeys, Hour} \subseteq Nat /\ PerHour \in Nat \ {0}
  /\ OnlyOnChange \in BOOLEAN
  /\ IsFiniteSet(RunIds) /\ IsFiniteSet(Agents)

VARIABLES
  run,         \* per run: its state, and what happened to it (see Begun)
  parked,      \* app.approvals: the runs that wait for a human
  inFlight,    \* RunBook.in_flight: of each run in it, its entry agent
  tally,       \* RunBook.by_agent: [runs, cancelled]
  lines,       \* Ledger.entries: tokens of each line
  scene,       \* what the device shows
  watch,       \* WatchState, and the run it waits for: [digest, runs, asks]
  asked,       \* when the watcher asked its agent, all of it
  now

books == <<inFlight, tally, lines>>
booksVars == <<run, parked, inFlight, tally, lines, scene, watch, asked, now>>

NoRun == "none"
Overflow == "(overflow)"

\* A run of the agent, which holds it (def) and began it (entry); as: the agent
\* the book last had it under; closing: how often it was stored for a human and
\* has yet to be recorded as waiting; finished and dropped: how often it was
\* recorded as stopped and went with its request; missed: whether it ever ran
\* without a place in the book.
Begun(agent, by, at, missed) ==
  [at |-> at, def |-> agent, entry |-> agent, as |-> agent, by |-> by, tokens |-> 0,
   stints |-> 1, closing |-> 0, finished |-> 0, dropped |-> 0, missed |-> missed]

BooksInit ==
  /\ run = [r \in RunIds |-> Begun(Watched, "caller", "new", FALSE)]
  /\ parked = {} /\ inFlight = <<>> /\ lines = <<>>
  /\ tally = [a \in Agents |-> [runs |-> 0, cancelled |-> 0]]
  /\ scene \in Scenes /\ watch = [digest |-> Quiet, runs |-> <<>>, asks |-> NoRun]
  /\ asked = <<>> /\ now = 0

---------------------------------------------------------------------------
(* The recorder and the ledger *)

\* A map's insert.
Put(map, key, value) ==
  [k \in DOMAIN map \cup {key} |-> IF k = key THEN value ELSE map[k]]

Full == Cardinality(DOMAIN inFlight) >= Places

\* A full book keeps what it has, also of a run that it has.
RunStarted(r, agent) ==
  inFlight' = IF Full THEN inFlight ELSE Put(inFlight, r, agent)

\* A mutant: a run is counted for the agent that ended it.
RunFinished_Holder(r) ==
  /\ inFlight' = Restrict(inFlight, DOMAIN inFlight \ {r})
  /\ tally' = [tally EXCEPT ![run[r].def].runs = @ + 1]

\* Counted for the agent the run began as, first on its path.
RunFinished(r) ==
  /\ inFlight' = Restrict(inFlight, DOMAIN inFlight \ {r})
  /\ tally' = [tally EXCEPT ![run[r].entry].runs = @ + 1]

\* A run that is not in the book is not counted: it was, or it had no place.
RunCancelled(r) ==
  IF r \notin DOMAIN inFlight THEN UNCHANGED <<inFlight, tally>>
  ELSE /\ inFlight' = Restrict(inFlight, DOMAIN inFlight \ {r})
       /\ tally' = [tally EXCEPT ![inFlight[r]].runs = @ + 1, ![inFlight[r]].cancelled = @ + 1]

\* A mutant: spend past the bound is dropped.
LedgerCharge_Bounded(key, cost) ==
  lines' = IF Cardinality(DOMAIN lines) >= MaxKeys /\ key \notin DOMAIN lines THEN lines
           ELSE Put(lines, key, cost + (IF key \in DOMAIN lines THEN lines[key] ELSE 0))

\* Spend past the bound is pooled on one line.
LedgerCharge(key, cost) ==
  LET line == IF Cardinality(DOMAIN lines) >= MaxKeys /\ key \notin DOMAIN lines THEN Overflow ELSE key
  IN lines' = Put(lines, line, cost + (IF line \in DOMAIN lines THEN lines[line] ELSE 0))

Unknown == -1

\* What the control plane reports of the ledger: every line's tokens, the cost
\* of the lines that have a price, and a cost of everything only if all have.
Report ==
  LET priced == Restrict(lines, DOMAIN lines \cap Priced)
  IN [total_tokens |-> SumFunction(lines), priced_cost |-> SumFunction(priced),
      estimated_cost |-> IF DOMAIN lines \subseteq Priced THEN SumFunction(priced) ELSE Unknown]

---------------------------------------------------------------------------
(* Runs *)

Goes(r, by, agent) ==
  /\ run[r].at = "new"
  /\ run' = [run EXCEPT ![r] = Begun(agent, by, "steps", Full)]
  /\ RunStarted(r, agent)

Start(r, agent) ==
  /\ Goes(r, "caller", agent)
  /\ UNCHANGED <<parked, tally, lines, scene, watch, asked, now>>

\* One answer of the model, charged to the run and to the agent in control.
Charge(r) ==
  /\ run[r].at = "steps" /\ run[r].tokens < MaxSteps
  /\ run' = [run EXCEPT ![r].tokens = @ + 1]
  /\ LedgerCharge(run[r].def, 1)
  /\ UNCHANGED <<parked, inFlight, tally, scene, watch, asked, now>>

Handoff(r, agent) ==
  /\ run[r].at = "steps" /\ agent # run[r].def
  /\ run' = [run EXCEPT ![r].def = agent]
  /\ UNCHANGED <<parked, books, scene, watch, asked, now>>

\* A watcher that waits for this run goes on to the next tick.
Answered(r) ==
  watch' = IF watch.asks = r THEN [watch EXCEPT !.asks = NoRun] ELSE watch

Finish(r) ==
  /\ run[r].at = "steps"
  /\ RunFinished(r)
  /\ run' = [run EXCEPT ![r].at = "over", ![r].finished = @ + 1]
  /\ IF run[r].stints = 1 THEN Answered(r) ELSE UNCHANGED watch
  /\ UNCHANGED <<parked, lines, scene, asked, now>>

Stored(x) == [x EXCEPT !.at = "parked", !.closing = x.closing + 1]

\* A run that was answered before this is out of the book from here on.
Recorded(x) ==
  [x EXCEPT !.closing = x.closing - 1, !.finished = x.finished + 1,
            !.missed = x.missed \/ x.at \in {"call", "steps"}]

Resumed(x, known) ==
  [x EXCEPT !.at = "call", !.stints = x.stints + 1, !.as = IF Full THEN x.as ELSE x.def,
            !.missed = x.missed \/ (Full /\ ~known)]

\* A run that needs a human is stored where one can find it, and recorded
\* after that, with nothing awaited between.
Suspend(r) ==
  /\ run[r].at = "steps" /\ run[r].stints < MaxStints
  /\ parked' = parked \cup {r}
  /\ run' = [run EXCEPT ![r] = Stored(run[r])]
  /\ UNCHANGED <<books, scene, watch, asked, now>>

Suspended(r) ==
  /\ run[r].closing > 0
  /\ RunFinished(r)
  /\ run' = [run EXCEPT ![r] = Recorded(run[r])]
  /\ Answered(r)
  /\ UNCHANGED <<parked, lines, scene, asked, now>>

\* The human answers: another request carries the run on, which the book has
\* from here on under the agent that holds it by now.
Resume(r) ==
  /\ r \in parked /\ parked' = parked \ {r}
  /\ run' = [run EXCEPT ![r] = Resumed(run[r], r \in DOMAIN inFlight)]
  /\ RunStarted(r, run[r].def)
  /\ UNCHANGED <<tally, lines, scene, watch, asked, now>>

\* The approved call returns, and the run is driven as before.
Drive(r) ==
  /\ run[r].at = "call"
  /\ run' = [run EXCEPT ![r].at = "steps"]
  /\ UNCHANGED <<parked, books, scene, watch, asked, now>>

\* A mutant: only a run that is being driven has a guard.
Guard_Driven(r) ==
  IF run[r].at = "call" THEN UNCHANGED <<inFlight, tally>> ELSE RunCancelled(r)

\* The guards of resume_approval and of drive both report a run that goes
\* with them; the second finds it gone.
Guard(r) == RunCancelled(r)

\* The request that drives the run times out, or its client goes away.  A run
\* of a watcher has neither, unless a human's answer carries it.
Dropped(r) ==
  /\ run[r].at \in {"call", "steps"}
  /\ run[r].by = "caller" \/ run[r].stints > 1
  /\ Guard(r)
  /\ run' = [run EXCEPT ![r].at = "over", ![r].dropped = @ + 1]
  /\ UNCHANGED <<parked, lines, scene, watch, asked, now>>

\* An approval runs out unanswered (approval_ttl_secs, or the cap of 1000).
Lapse(r) ==
  /\ r \in parked /\ parked' = parked \ {r}
  /\ UNCHANGED <<run, books, scene, watch, asked, now>>

---------------------------------------------------------------------------
(* The watcher *)

Changes(s) ==
  /\ s # scene /\ scene' = s
  /\ UNCHANGED <<run, parked, books, watch, asked, now>>

Passes ==
  /\ now < MaxNow /\ now' = now + 1
  /\ UNCHANGED <<run, parked, books, scene, watch, asked>>

\* The runs of the last hour begin with the k-th: those before it are dropped
\* from the front.
HourFrom(k) ==
  /\ \A j \in 1..(k - 1) : now - watch.runs[j] > Hour
  /\ k <= Len(watch.runs) => now - watch.runs[k] <= Hour

Recent ==
  LET n == Len(watch.runs) IN SubSeq(watch.runs, CHOOSE k \in 1..(n + 1) : HourFrom(k), n)

\* A mutant: only a run that took place uses up the hour.
Look_Ran(r) ==
  /\ watch.asks = NoRun /\ OnlyOnChange => scene # watch.digest
  /\ Len(Recent) < PerHour
  /\ asked' = Append(asked, now)
  /\ \/ /\ Goes(r, "watcher", Watched)
        /\ watch' = [digest |-> scene, runs |-> Append(Recent, now), asks |-> r]
     \/ /\ watch' = [watch EXCEPT !.digest = scene]
        /\ UNCHANGED <<run, inFlight>>
  /\ UNCHANGED <<parked, tally, lines, scene, now>>

\* A tick with something new, or any if it need not be new, asks, at most
\* PerHour times an hour.  The digest and the time are written before the agent
\* is asked: one that cannot run has used up both.
Look(r) ==
  /\ watch.asks = NoRun /\ OnlyOnChange => scene # watch.digest
  /\ Len(Recent) < PerHour
  /\ asked' = Append(asked, now)
  /\ \/ /\ Goes(r, "watcher", Watched)
        /\ watch' = [digest |-> scene, runs |-> Append(Recent, now), asks |-> r]
     \/ /\ watch' = [digest |-> scene, runs |-> Append(Recent, now), asks |-> NoRun]
        /\ UNCHANGED <<run, inFlight>>
  /\ UNCHANGED <<parked, tally, lines, scene, now>>

Requests == \E r \in RunIds, a \in Agents : Start(r, a)
Steps == \E r \in RunIds : Charge(r) \/ Drive(r) \/ \E a \in Agents : Handoff(r, a)
Ends == \E r \in RunIds : Finish(r) \/ Suspend(r) \/ Suspended(r) \/ Dropped(r)
Humans == \E r \in RunIds : Resume(r) \/ Lapse(r)
Device == Passes \/ \E s \in Scenes : Changes(s)
Looks == \E r \in RunIds : Look(r)

BooksNext == Requests \/ Steps \/ Ends \/ Humans \/ Device \/ Looks

BooksSpec == BooksInit /\ [][BooksNext]_booksVars

---------------------------------------------------------------------------
(* Properties *)

\* Nothing stays in flight: a run in the book is running, or about to record
\* that it waits for a human.  A run dropped while its approved call runs, or
\* answered before it had recorded that it waits, is no exception
\* (status.rs:422, agent.rs:544).
NothingStays ==
  \A r \in DOMAIN inFlight : run[r].at \in {"call", "steps"} \/ run[r].closing > 0

\* No way to end a run counts it twice or for another agent.  The runs that
\* finished and those that stopped for a human are counted for the agent they
\* began as, once for each time they stopped (status.rs:378).  Those that were
\* dropped are counted cancelled, once, for the agent the book had them under
\* (status.rs:425): after a resumption this is the agent that held the run by
\* then (agent.rs:541), and not the one it "started as" (status.rs:185).  A run
\* that went without a place in the book may be left out.
TalliedOnce ==
  \A a \in Agents :
    LET Gone(R) == SumFunction([r \in {x \in R : run[x].as = a} |-> run[r].dropped])
    IN /\ tally[a].runs - tally[a].cancelled
            = SumFunction([r \in {x \in RunIds : run[x].entry = a} |-> run[r].finished])
       /\ Gone({r \in RunIds : ~run[r].missed}) <= tally[a].cancelled
       /\ tally[a].cancelled <= Gone(RunIds)

\* The ledger reports every token a run was charged, whichever agent held the
\* run, whether or not the run ended, and however few lines the ledger may
\* have (ledger.rs:118); and the cost it reports is never that of a part: it is
\* unknown as soon as anything without a price was spent (ledger.rs:157).
SpendKept ==
  LET spent == SumFunction([r \in RunIds |-> run[r].tokens])
  IN /\ Report.total_tokens = spent /\ Report.estimated_cost \in {spent, Unknown}
     /\ Cardinality(DOMAIN lines) <= MaxKeys + 1

\* The ceiling of a watcher holds over every hour there is, not only those
\* that begin with a run: of any PerHour + 1 times it asked, the first and the
\* last are more than an hour apart (devices.rs:569).
HourlyCeiling ==
  \A i \in 1..(Len(asked) - PerHour) : asked[i + PerHour] - asked[i] > Hour
=============================================================================
