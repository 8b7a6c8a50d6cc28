------------------------------- MODULE MCBoot -------------------------------
(* A desk agent, a script, a flow, a camera and its watcher, a page, a query *)
(* and a proxy: each may name things that are there, things that are not and *)
(* itself, each thing may be missing, and two may have one name.             *)
EXTENDS Boot

Route(path, tool, kind, of, gated) ==
  [path |-> path, tool |-> tool, op |-> <<kind, of>>, gated |-> gated]

Agent(name, tools, handoffs, contexts) ==
  [name |-> name, tools |-> tools, handoffs |-> handoffs, contexts |-> contexts]

Clerks == { <<>>, <<Agent("clerk", {"look"}, {}, {})>>, <<Agent("desk", {}, {}, {})>> }

Tools == { {}, {"look", "script"}, {"gone"}, {"to_clerk", "chain"} }

\* Agents, tools, handoffs and flows.
Orchestration ==
  { [ agents     |-> <<Agent("desk", t, h, c)>> \o k,
      behaviours |-> <<[name |-> "script", tools |-> b, contexts |-> {"news"}]>>,
      flows      |-> <<[name |-> "chain", steps |-> s]>>,
      contexts   |-> n, devices |-> <<>>, watchers |-> <<>>, upstreams |-> {},
      database   |-> TRUE, templates |-> FALSE, sound |-> TRUE,
      routes     |-> << Route("/look", e, "static", "", g), Route("/script", "script", "behaviour", "script", FALSE),
                        Route("/desk", "desk", "agent", "desk", FALSE),
                        Route("/chain", "chain", "flow", "chain", FALSE) >> ]
    : t \in Tools, h \in {{}, {"clerk"}, {"desk"}}, c \in {{}, {"news"}}, k \in Clerks,
      b \in {{}, {"desk"}, {"gone"}}, s \in {{}, {"look", "desk"}, {"chain"}},
      n \in {<<>>, <<[name |-> "news", queries |-> TRUE]>>}, e \in {"", "look", "desk"}, g \in BOOLEAN }

\* Devices, watchers, pages, queries and proxies.
Surroundings ==
  { [ agents     |-> a, behaviours |-> <<>>, flows |-> <<>>, contexts |-> <<>>,
      devices    |-> d, watchers |-> w, upstreams |-> u,
      database   |-> q, templates |-> p, sound |-> s,
      routes     |-> << Route("/cam", "cam", "device", "dock", FALSE), Route("/rows", "", "query", "", FALSE),
                        Route(x, "", "page", "query", FALSE), Route("/api", "", "proxy", "crm", FALSE) >> ]
    : a \in {<<>>, <<Agent("desk", {"cam"}, {}, {})>>},
      d \in {<<>>, <<[name |-> "dock"]>>, <<[name |-> "dock"], [name |-> "dock"]>>},
      w \in {<<>>, <<[name |-> "guard", device |-> "dock", agent |-> "desk"]>>},
      u \in {{}, {"crm"}}, q \in BOOLEAN, p \in BOOLEAN, s \in BOOLEAN, x \in {"/page", "/cam"} }

SmallManifests == Orchestration \cup Surroundings

HandoffTools == [n \in {"desk", "clerk"} |-> IF n = "clerk" THEN "to_clerk" ELSE "to_desk"]
=============================================================================
