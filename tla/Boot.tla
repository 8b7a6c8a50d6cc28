-------------------------------- MODULE Boot --------------------------------
(* From a manifest to a serving application.  App::build validates what was  *)
(* declared (manifest.rs) and builds its tables from it (app.rs); requests,  *)
(* runs, behaviours, flows and watchers then look things up by name, each at *)
(* its own place and at its own time, some only after hours of serving.      *)
(*                                                                           *)
(* A manifest is a record of what is declared: sequences of agents,          *)
(* behaviours, flows, contexts, devices, watchers and routes, the set of     *)
(* upstreams, and whether there are a database and templates.  `sound` says  *)
(* that every number is in its range, every name is one a provider accepts   *)
(* and the CORS settings go together.  A reference is a pair of what is      *)
(* looked up and its name; a "call" is a tool named by a script that declares *)
(* no tools, which may name any.                                             *)
EXTENDS Integers, Sequences, FiniteSets, SequencesExt

CONSTANTS
  Manifests,   \* the manifests to boot from
  Said,        \* the names that scripts call tools by
  HandoffTool  \* of each agent's name, the tool a handoff to it creates

Names(declared) == {declared[i].name : i \in DOMAIN declared}
NoTwins(declared) == Cardinality(Names(declared)) = Len(declared)

\* A route's operation; files, which looks nothing up either, counts as static.
Kinds == {"static", "python", "query", "page", "proxy", "agent", "behaviour", "flow", "device"}

\* What the Python package always declares together: a behaviour and its
\* route, and a context that queries with the database it needs.
ASSUME DeclaredInPython ==
  \A m \in Manifests :
    /\ \A r \in ToSet(m.routes) :
         /\ r.op = <<r.op[1], r.op[2]>> /\ r.op[1] \in Kinds
         /\ r.op[1] = "behaviour" => r.op[2] \in Names(m.behaviours)
    /\ \A c \in ToSet(m.contexts) : c.queries => m.database

VARIABLES
  manifest,    \* App.manifest
  up,          \* "declared", "refused" or "serving"
  at           \* what the code that runs now has looked up

bootVars == <<manifest, up, at>>

Idle == <<"idle", "">>

BootInit == manifest \in Manifests /\ up = "declared" /\ at = Idle

---------------------------------------------------------------------------
(* Manifest::validate *)

ToolNames(m) == {r.tool : r \in ToSet(m.routes)} \ {""}

DevicesValid(m) == NoTwins(m.devices)

WatchersValid(m) ==
  /\ NoTwins(m.watchers)
  /\ \A w \in ToSet(m.watchers) : w.device \in Names(m.devices) /\ w.agent \in Names(m.agents)

\* A behaviour's route is not looked at: one is made for each behaviour.
OpValid(m, op) ==
  CASE op[1] = "proxy"  -> op[2] \in m.upstreams
    [] op[1] = "agent"  -> op[2] \in Names(m.agents)
    [] op[1] = "device" -> op[2] \in Names(m.devices)
    [] op[1] = "flow"   -> op[2] \in Names(m.flows)
    [] op[1] = "query"  -> m.database
    [] op[1] = "page"   -> m.templates /\ (op[2] = "query" => m.database)
    [] OTHER -> TRUE

RoutesValid(m) ==
  /\ \A i, j \in DOMAIN m.routes : i # j => m.routes[i].path # m.routes[j].path
  /\ \A r \in ToSet(m.routes) : OpValid(m, r.op) /\ (r.gated => r.tool # "")

ToolsValid(m) ==
  \A i, j \in DOMAIN m.routes :
    i # j /\ m.routes[i].tool # "" => m.routes[i].tool # m.routes[j].tool

BehavioursValid(m) ==
  /\ NoTwins(m.behaviours)
  /\ \A b \in ToSet(m.behaviours) :
       b.contexts \subseteq Names(m.contexts) /\ b.tools \subseteq ToolNames(m)

\* A mutant: handoffs are not looked up.
AgentsValid_AnyHandoff(m) ==
  /\ NoTwins(m.agents)
  /\ \A a \in ToSet(m.agents) :
       /\ a.tools \subseteq ToolNames(m) /\ a.contexts \subseteq Names(m.contexts)
       /\ a.name \notin a.handoffs
       /\ \A h \in a.handoffs : HandoffTool[h] \notin a.tools

AgentsValid(m) ==
  /\ NoTwins(m.agents)
  /\ \A a \in ToSet(m.agents) :
       /\ a.tools \subseteq ToolNames(m) /\ a.contexts \subseteq Names(m.contexts)
       /\ a.handoffs \subseteq Names(m.agents) \ {a.name}
       /\ \A h \in a.handoffs : HandoffTool[h] \notin a.tools

FlowsValid(m) ==
  /\ NoTwins(m.flows)
  /\ \A f \in ToSet(m.flows) : f.steps # {} /\ f.steps \subseteq ToolNames(m) \ {f.name}

Valid(m) ==
  /\ m.sound /\ NoTwins(m.contexts)
  /\ DevicesValid(m) /\ WatchersValid(m) /\ RoutesValid(m) /\ ToolsValid(m)
  /\ BehavioursValid(m) /\ AgentsValid(m) /\ FlowsValid(m)

---------------------------------------------------------------------------
(* Looking up *)

\* The one of that name: twins are refused.
Find(declared, name) == CHOOSE d \in ToSet(declared) : d.name = name

\* tools_by_name and routes_by_id
ToolRoute(m, tool) == CHOOSE r \in ToSet(m.routes) : r.tool = tool

Found(m, ref) ==
  CASE ref[1] \in {"tool", "call"} -> ref[2] \in ToolNames(m)
    [] ref[1] = "agent"     -> ref[2] \in Names(m.agents)
    [] ref[1] = "behaviour" -> ref[2] \in Names(m.behaviours)
    [] ref[1] = "flow"      -> ref[2] \in Names(m.flows)
    [] ref[1] = "device"    -> ref[2] \in Names(m.devices)
    [] ref[1] = "context"   -> ref[2] \in Names(m.contexts)
    [] ref[1] = "proxy"     -> ref[2] \in m.upstreams
    [] ref[1] = "database"  -> m.database
    [] ref[1] = "page"      -> m.templates
    [] OTHER -> TRUE

\* What the handler of a route looks up first.
Execute(m, op) == IF op[1] = "query" THEN <<"database", "">> ELSE op

ToolRefs(tools) == {<<"tool", t>> : t \in tools}
ContextRefs(names) == {<<"context", c>> : c \in names}

\* What an agent in control may do next: call a tool, hand over, or read the
\* contexts it is given.
Run(a) == ToolRefs(a.tools) \cup ContextRefs(a.contexts) \cup {<<"agent", h>> : h \in a.handoffs}

\* What a script may call: the tools it declares, or if it declares none
\* whatever it says.
ScriptCalls(b) == IF b.tools = {} THEN {<<"call", t>> : t \in Said} ELSE ToolRefs(b.tools)

\* What code that has found `ref` may look up next.
References(m, ref) ==
  CASE ref[1] \in {"tool", "call"} -> {Execute(m, ToolRoute(m, ref[2]).op)}
    [] ref[1] = "agent"     -> Run(Find(m.agents, ref[2]))
    [] ref[1] = "behaviour" -> LET b == Find(m.behaviours, ref[2])
                               IN ScriptCalls(b) \cup ContextRefs(b.contexts)
    [] ref[1] = "flow"      -> ToolRefs(Find(m.flows, ref[2]).steps)
    [] ref[1] = "context"   -> IF Find(m.contexts, ref[2]).queries THEN {<<"database", "">>} ELSE {}
    [] ref[1] = "page"      -> IF ref[2] = "query" THEN {<<"database", "">>} ELSE {}
    [] OTHER -> {}

---------------------------------------------------------------------------
(* Booting and serving *)

Build ==
  /\ up = "declared"
  /\ up' = IF Valid(manifest) THEN "serving" ELSE "refused"
  /\ UNCHANGED <<manifest, at>>

\* A request arrives at a route.
Dispatch ==
  /\ up = "serving" /\ at = Idle
  /\ \E r \in ToSet(manifest.routes) : at' = Execute(manifest, r.op)
  /\ UNCHANGED <<manifest, up>>

\* A watcher looks at its device and asks its agent.
Watch ==
  /\ up = "serving" /\ at = Idle
  /\ \E w \in ToSet(manifest.watchers) : at' \in {<<"device", w.device>>, <<"agent", w.agent>>}
  /\ UNCHANGED <<manifest, up>>

Follow ==
  /\ up = "serving" /\ at # Idle /\ Found(manifest, at)
  /\ at' \in References(manifest, at)
  /\ UNCHANGED <<manifest, up>>

\* It answers, or fails for what it did not find.
Leave ==
  /\ at # Idle /\ at' = Idle
  /\ UNCHANGED <<manifest, up>>

BootNext == Build \/ Dispatch \/ Watch \/ Follow \/ Leave

BootSpec == BootInit /\ [][BootNext]_bootVars

---------------------------------------------------------------------------
(* Properties *)

\* A manifest that boots never fails for a name that it writes down: whatever
\* a request or a watcher sets in motion, through tools, handoffs, flows,
\* scripts and contexts, finds what it looks up.  The checks are in one function
\* and the lookups in ten others (manifest.rs:1073, app.rs:604, agent.rs:853,
\* context.rs:24, devices.rs:533).  The one exception is a name that only a
\* script knows: a behaviour that declares no tools may call any
\* (behaviour.rs:243), which nothing checks beforehand, and fails for one that
\* is no tool (app.rs:1167).  What is found for it leads to nothing else that
\* is missing.
NothingDangles == at # Idle /\ at[1] # "call" => Found(manifest, at)
=============================================================================
