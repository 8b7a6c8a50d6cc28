--------------------------- MODULE MCRequestPath ---------------------------
(* RequestPath for TLC: four routes, one known caller, and the requests that *)
(* differ in the order of the checks they meet.                            *)
EXTENDS RequestPath

RouteOf(method, op, needs, actuator, gated) ==
    [method |-> method, op |-> op, needs |-> needs, actuator |-> actuator, gated |-> gated]

MCTable == [ read |-> RouteOf("GET", "static", {}, FALSE, FALSE),
             move |-> RouteOf("POST", "python", {"drive"}, TRUE, FALSE),
             dock |-> RouteOf("POST", "python", {}, FALSE, TRUE),
             chat |-> RouteOf("POST", "model", {"chat"}, FALSE, FALSE) ]

MCHolds == [ admin |-> {"webcortex:admin", "chat"} ]

Ask(method, path, header) ==
    [method |-> method, path |-> path, origin |-> "none", upgrade |-> FALSE,
     header |-> header, query |-> "none", tool |-> "none"]
From(s, origin) == [s EXCEPT !.origin = origin]
Socket(path, header, query, origin) ==
    [Ask("GET", path, header) EXCEPT !.upgrade = TRUE, !.query = query, !.origin = origin]
Call(header, tool) == [Ask("POST", "/mcp", header) EXCEPT !.tool = tool]

MCShapes == {
    From(Ask("OPTIONS", "move", "none"), "foreign"),
    From(Ask("POST", "move", "none"), "foreign"), From(Ask("POST", "move", "none"), "trusted"),
    Ask("POST", "move", "none"), Ask("POST", "move", "bad"), Ask("POST", "move", "admin"),
    Ask("GET", "move", "none"), Ask("POST", "chat", "admin"),
    Socket("chat", "none", "admin", "none"), Socket("chat", "none", "admin", "foreign"),
    Socket("chat", "none", "none", "own"), Socket("chat", "bad", "admin", "own"),
    Ask("GET", "/health", "none"), Ask("POST", "/halt", "none"), Ask("POST", "/halt", "admin"),
    Ask("POST", "/release", "admin"), Ask("POST", "/approvals", "admin"),
    Call("admin", "move"), Call("admin", "read"), Call("admin", "dock"),
    [Call("admin", "move") EXCEPT !.method = "GET"] }

(* The histories of what ran and what was answered are read in the step   *)
(* that writes them.                                                       *)
View == <<req, halted, headersLegal, wrong, now, check, held, bucket, swept, [k \in Keys |-> Len(let[k])]>>
=============================================================================
