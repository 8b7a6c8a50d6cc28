--------------------------- MODULE MCRequestTree ---------------------------
(* RequestTree for TLC: two agents, one of which keeps a session, a        *)
(* behaviour and four flows that call each other and themselves, a query   *)
(* of the caller's own data, and a gated route.                            *)
EXTENDS RequestTree

Tool(op, gated, needs) ==
    [op |-> op, session |-> FALSE, gated |-> gated, needs |-> needs, grants |-> {}]

MCTable == [ own    |-> Tool("own", FALSE, {}),
             purge  |-> Tool("route", TRUE, {"write"}),
             helper |-> Tool("agent", FALSE, {}),
             friend |-> [Tool("agent", FALSE, {}) EXCEPT !.session = TRUE],
             script |-> Tool("behaviour", FALSE, {}),
             chain  |-> Tool("flow", FALSE, {}),
             fan    |-> Tool("flow", FALSE, {}),
             pick   |-> Tool("flow", FALSE, {}),
             loop   |-> Tool("flow", FALSE, {}) ]

MCFlowDefs == [ chain |-> [kind |-> "pipeline", steps |-> <<"helper", "own">>],
                fan   |-> [kind |-> "parallel", steps |-> <<"own", "script">>],
                pick  |-> [kind |-> "choice",   steps |-> <<"fan", "friend">>],
                loop  |-> [kind |-> "pipeline", steps |-> <<"own", "loop">>] ]

MCMayCall == [ helper |-> {"fan", "chain", "purge"}, friend |-> {"own"},
               script |-> {"own", "pick", "purge"} ]

MCCallers == { [scopes |-> {}, known |-> FALSE], [scopes |-> {"write"}, known |-> TRUE] }
=============================================================================
