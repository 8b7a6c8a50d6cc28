----------------------------- MODULE WorkerPool -----------------------------
(***************************************************************************)
(* Where invocations run: App::dispatch and its depth ceiling and          *)
(* emergency stop (app.rs), the bridge (webcortex-py/lib.rs), and the      *)
(* Python dispatcher's thread pool and event loops (_bridge.py).           *)
(*                                                                         *)
(* An invocation is a handler, an actuator (a handler that moves           *)
(* hardware), a behaviour, or a run: an agent or a flow, which the runtime *)
(* drives itself.  Behaviours and runs call tools, which are invocations   *)
(* again, one deeper.  A behaviour holds its thread while it waits for     *)
(* them.  What handlers and behaviours compute is left out: they do        *)
(* anything, and end.                                                      *)
(***************************************************************************)
EXTENDS Integers, Sequences, FiniteSets

CONSTANTS Threads,    \* workers * 4
          MaxDepth,   \* server.max_invocation_depth
          MaxCalls,   \* max_steps of a behaviour, an agent or a flow
          MaxWidth,   \* bound: calls made at once by ctx.gather or a flow
          MaxRoots,   \* bound: requests from outside
          MaxJobs     \* bound: invocations

ASSUME PoolAssumption ==
    /\ Threads \in Nat \ {0} /\ MaxDepth \in Nat /\ MaxCalls \in Nat
    /\ MaxWidth \in Nat \ {0} /\ MaxRoots \in Nat /\ MaxJobs \in Nat

Nesting == {"behaviour", "run"}
Kinds == {"handler", "actuator"} \cup Nesting

JobRecord == [kind : Kinds,
              loop : BOOLEAN,              \* an async handler, on an event loop
              depth : Nat,
              parent : Nat,                \* 0 for a request from outside
              root : Nat,
              tied : BOOLEAN,              \* its future is part of the root's
              st : {"queued", "working", "waiting", "done"},
              calls : 0..MaxCalls,         \* steps charged
              awaited : BOOLEAN,           \* not Completer.abandoned()
              late : BOOLEAN,              \* history: given up while queued
              moved : BOOLEAN]             \* history: its handler has started

VARIABLES job,      \* the invocations, in the order they were made
          queue,    \* the thread pool's queue
          halted,   \* App.halt
          frozen    \* history: the actuators queued when the stop was pressed

poolVars == <<job, queue, halted, frozen>>

Used == DOMAIN job
Roots == {j \in Used : job[j].parent = 0}
Children(p) == {j \in Used : job[j].parent = p}
OnThread(j) == job[j].kind # "run" /\ ~job[j].loop
Holding == {j \in Used : OnThread(j) /\ job[j].st \in {"working", "waiting"}}

PoolInit ==
    /\ job = <<>> /\ queue = <<>>
    /\ halted \in BOOLEAN          \* security.start_halted
    /\ frozen = {}

-----------------------------------------------------------------------------
(* App::dispatch *)

(* The emergency stop, and depth_exceeded for what can nest. *)
Admits(kind, depth) ==
    /\ kind = "actuator" => ~halted
    /\ kind \in Nesting => depth < MaxDepth

Invocation(kind, loop, depth, parent, root, tied) ==
    [kind |-> kind, loop |-> loop, depth |-> depth, parent |-> parent, root |-> root,
     tied |-> tied, st |-> IF kind = "run" THEN "working" ELSE "queued",
     calls |-> 0, awaited |-> TRUE, late |-> FALSE, moved |-> FALSE]

(* Behaviours always run on the thread pool, never on a loop. *)
Placements == {kl \in Kinds \X BOOLEAN : kl[2] => kl[1] \notin Nesting}

(* The new jobs take the next names; those for the thread pool join its    *)
(* queue.                                                                  *)
Submit(before, new) ==
    LET names == [i \in DOMAIN new |-> Len(job) + i]
        pooled(j) == new[j - Len(job)].kind # "run" /\ ~new[j - Len(job)].loop
    IN  /\ Len(job) + Len(new) <= MaxJobs
        /\ job' = before \o new
        /\ queue' = queue \o SelectSeq(names, pooled)

(* A request from outside. *)
Arrive ==
    /\ Cardinality(Roots) < MaxRoots
    /\ \E kl \in Placements :
        /\ Admits(kl[1], 0)
        /\ Submit(job, <<Invocation(kl[1], kl[2], 0, 0, Len(job) + 1, TRUE)>>)
    /\ UNCHANGED <<halted, frozen>>

(* charge_step: every call of a batch is charged. *)
StepsLeft(p, n) == job[p].calls + n <= MaxCalls

(* A behaviour or a run calls n tools at once, some of which may be        *)
(* refused (423, 508, or for their scopes), and waits for the others.      *)
(* A run is polled on, so its children are dropped with it; a behaviour    *)
(* blocks its thread.                                                      *)
Call(p) ==
    /\ job[p].kind \in Nesting /\ job[p].st = "working"
    /\ \E n \in 1..MaxWidth : \E m \in 0..n : \E kl \in [1..m -> Placements] :
        LET tied == job[p].tied /\ job[p].kind = "run"
            depth == job[p].depth + 1
        IN  /\ StepsLeft(p, n)
            /\ \A i \in 1..m : Admits(kl[i][1], depth)
            /\ Submit([job EXCEPT ![p].calls = @ + n,
                                  ![p].st = IF m = 0 THEN @ ELSE "waiting"],
                      [i \in 1..m |-> Invocation(kl[i][1], kl[i][2], depth, p,
                                                 job[p].root, tied)])
    /\ UNCHANGED <<halted, frozen>>

(* The answers of all its calls have arrived. *)
Wake(p) ==
    /\ job[p].st = "waiting"
    /\ \A j \in Children(p) : job[j].st = "done"
    /\ job' = [job EXCEPT ![p].st = "working"]
    /\ UNCHANGED <<queue, halted, frozen>>

-----------------------------------------------------------------------------
(* The Python dispatcher *)

(* Faulty variant: the stop is not looked at again as the handler starts. *)
Refused_OnlyAbandoned(j) == job[j].kind = "actuator" /\ ~job[j].awaited

(* Faulty variant: nobody asks whether the caller still waits. *)
Refused_OnlyHalted(j) == job[j].kind = "actuator" /\ halted

(* _gated: an actuator checks the stop and its caller as it starts. *)
Refused(j) == job[j].kind = "actuator" /\ (halted \/ ~job[j].awaited)

(* Faulty variant: a refused actuator answers nobody. *)
Begin_Silent(j) ==
    job' = [job EXCEPT ![j].st = IF Refused(j) THEN "queued" ELSE "working",
                       ![j].moved = ~Refused(j) /\ job[j].kind = "actuator"]

Begin(j) ==
    job' = [job EXCEPT ![j].st = IF Refused(j) THEN "done" ELSE "working",
                       ![j].moved = ~Refused(j) /\ job[j].kind = "actuator"]

ThreadFree == Cardinality(Holding) < Threads

(* A free thread takes the oldest job of the queue. *)
TakeNext ==
    /\ queue # <<>> /\ ThreadFree
    /\ Begin(Head(queue))
    /\ queue' = Tail(queue)
    /\ UNCHANGED <<halted, frozen>>

(* An event loop starts an async handler. *)
StartOnLoop(j) ==
    /\ job[j].loop /\ job[j].st = "queued"
    /\ Begin(j)
    /\ UNCHANGED <<queue, halted, frozen>>

(* A handler, a behaviour or a run returns or raises; either way it is     *)
(* answered, and its thread is free.                                       *)
Finish(j) ==
    /\ job[j].st = "working"
    /\ job' = [job EXCEPT ![j].st = "done"]
    /\ UNCHANGED <<queue, halted, frozen>>

(* The request times out, or its client is gone.  Its future is dropped,   *)
(* and with it every run it was driving; what Python has been given stays. *)
Abandon(r) ==
    /\ r \in Roots /\ job[r].st # "done" /\ job[r].awaited
    /\ job' = [j \in Used |->
        IF job[j].root = r /\ job[j].tied /\ job[j].st # "done"
        THEN [job[j] EXCEPT !.awaited = FALSE,
                            !.late = (job[j].st = "queued"),
                            !.st = IF job[j].kind = "run" THEN "done" ELSE @]
        ELSE job[j]]
    /\ UNCHANGED <<queue, halted, frozen>>

-----------------------------------------------------------------------------
(* The emergency stop *)

QueuedActuators == {j \in Used : job[j].kind = "actuator" /\ job[j].st = "queued"}

Halt ==
    /\ halted' = TRUE
    /\ frozen' = frozen \cup QueuedActuators
    /\ UNCHANGED <<job, queue>>

Release ==
    /\ halted /\ halted' = FALSE
    /\ frozen' = {}
    /\ UNCHANGED <<job, queue>>

-----------------------------------------------------------------------------
PoolNext ==
    \/ Arrive \/ TakeNext \/ Halt \/ Release
    \/ \E j \in Used : Call(j) \/ Wake(j) \/ StartOnLoop(j) \/ Finish(j) \/ Abandon(j)

PoolSpec == PoolInit /\ [][PoolNext]_poolVars

(* Threads and loops take what is queued; a handler or a behaviour ends if *)
(* it stops calling tools (its steps are bounded); a call returns when its *)
(* answers are there.                                                      *)
PoolFairSpec ==
    /\ PoolSpec /\ WF_poolVars(TakeNext)
    /\ \A j \in 1..MaxJobs :
        /\ WF_poolVars(j \in Used /\ Wake(j))
        /\ WF_poolVars(j \in Used /\ StartOnLoop(j))
        /\ WF_poolVars(j \in Used /\ Finish(j))

-----------------------------------------------------------------------------
(* Properties *)

PoolTypeOK ==
    /\ job \in Seq(JobRecord)
    /\ \A j \in Used : job[j].parent < j /\ job[j].root \in Used
    /\ queue \in Seq(Used)
    /\ halted \in BOOLEAN /\ frozen \subseteq Used

(* How many invocations enclose j. *)
Enclosing(j) ==
    LET up[k \in Used] == IF job[k].parent = 0 THEN 0 ELSE 1 + up[job[k].parent]
    IN  up[j]

(* While the stop stays engaged no actuator that was queued when it was    *)
(* pressed starts (HaltGate; "a move must not start after the stop was     *)
(* pressed", _gated).                                                      *)
StopHolds == \A j \in frozen : ~job[j].moved

(* An actuator whose caller gave up while it was queued never starts, then *)
(* or later ("a 504 that moves the arm anyway", _gated).                   *)
NoLateMove == \A j \in Used : job[j].late => ~job[j].moved

Pending(j) == j \in Used /\ job[j].st # "done"
HeldByBehaviours == Cardinality({j \in Holding : job[j].kind = "behaviour"})

(* As long as behaviours do not hold every thread, every invocation ends,  *)
(* refused actuators, abandoned requests and the stop included.            *)
EndsUnlessFull ==
    [](HeldByBehaviours < Threads) => \A j \in 1..MaxJobs : Pending(j) ~> ~Pending(j)

=============================================================================
