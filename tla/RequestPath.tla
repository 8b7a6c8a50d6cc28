---------------------------- MODULE RequestPath ----------------------------
(***************************************************************************)
(* Requests from their head to their answer (server.rs): preflight,        *)
(* cross-origin protection, authentication (auth.rs), the rate limiter,    *)
(* upgrades (ws.rs), the body, routing and scopes (router.rs, app.rs), the *)
(* control plane with MCP (mcp.rs), the timeouts, and what is recorded of   *)
(* the answer.  One task per request; each action ends where it awaits.    *)
(***************************************************************************)
EXTENDS RateLimiter

CONSTANTS Shapes,     \* the requests that come: see Shape
          Table,      \* the application's routes: see Route
          Holds,      \* the scopes of each credential that is known
          Anonymous,  \* anonymous_scopes
          Address     \* the address the clients share, as a limiter's key

Scopes == {"drive", "chat", "webcortex:admin"}
AppRoutes == DOMAIN Table
Known == DOMAIN Holds
Ops == {"static", "python", "model"}
Control == {"/health", "/listing", "/halt", "/release", "/mcp", "/approvals"}

Route == [method : {"GET", "POST"}, op : Ops, needs : SUBSET Scopes,
          actuator : BOOLEAN, gated : BOOLEAN]

(* The header's credential, and access_token; the tool is MCP's. *)
Shape == [method : {"GET", "POST", "OPTIONS"}, path : AppRoutes \cup Control \cup {"nowhere"},
          origin : {"none", "own", "trusted", "foreign"}, upgrade : BOOLEAN,
          header : Known \cup {"none", "bad"}, query : Known \cup {"none", "bad"},
          tool : AppRoutes \cup {"none"}]

ASSUME PathAssumption ==
    /\ Table \in [AppRoutes -> Route] /\ Shapes \subseteq Shape
    /\ Holds \in [Known -> SUBSET (Scopes \cup {"*"})]
    /\ Anonymous \subseteq Scopes /\ Known \cap {Address, "none", "bad"} = {}
    /\ Keys = Known \cup {Address}

VARIABLES req,     \* what each request's task is doing
          halted,  \* the emergency stop
          last,    \* history: what was run last, for whom, and how asked for
          headersLegal, \* whether the configured security headers can be sent
          wrong,   \* history: credentials found wrong, and told so
          answer   \* history: the last answer, as sent and as recorded

pathVars == <<req, halted, last, headersLegal, wrong, answer>>
vars == <<limiterVars, pathVars>>

NoRequest == [pc |-> "idle"]
Nothing == [via |-> "none"]

Init ==
    /\ LimiterInit
    /\ req = [r \in Checkers |-> NoRequest]
    /\ halted = FALSE /\ last = Nothing /\ wrong = 0
    /\ headersLegal \in BOOLEAN  \* nothing validates them
    /\ answer = [sent |-> 0, recorded |-> 0, own |-> TRUE]

-----------------------------------------------------------------------------
(* The answer: whether hyper can send it as it is, and whether it carries  *)
(* the headers itself that are configured for those that do not.           *)

Coded(status) == [status |-> status, legal |-> TRUE, own |-> FALSE]

(* Faulty variant: what cannot be sent is found out on the wire. *)
Sendable_Later(res) == res

(* A response hyper cannot send is a 500 before anything is recorded. *)
Sendable(res) == IF res.legal THEN res ELSE Coded(500)

(* The request's id, always a plain one, and the configured headers come   *)
(* after that verdict.                                                     *)
Secured(res) == [res EXCEPT !.legal = res.legal /\ (headersLegal \/ res.own)]

(* hyper's own verdict: a bare 500. *)
Wire(res) == IF res.legal THEN res.status ELSE 500

(* The end of handle: the answer is settled, recorded, and sent. *)
Send(r, res) ==
    LET settled == Sendable(res)
    IN  /\ req' = [req EXCEPT ![r] = NoRequest]
        /\ answer' = [recorded |-> settled.status, sent |-> Wire(Secured(settled)),
                      own |-> settled.own]

-----------------------------------------------------------------------------
(* The head *)

Preflight(s) == s.method = "OPTIONS" /\ s.origin # "none"
OriginAllowed(origin) == origin = "trusted"

(* Faulty variant: a socket is not judged by where it comes from. *)
CrossOriginAllowed_Sockets(s) ==
    s.method = "POST" => s.origin \in {"none", "own"} \/ OriginAllowed(s.origin)

(* A request that changes state, or a socket, comes from our own pages,    *)
(* from a trusted origin, or from no browser.                              *)
CrossOriginAllowed(s) ==
    s.method = "POST" \/ s.upgrade => s.origin \in {"none", "own"} \/ OriginAllowed(s.origin)

(* access_token counts for a socket that carries no header. *)
Credential(s) == IF s.upgrade /\ s.header = "none" THEN s.query ELSE s.header

(* Faulty variant: a credential that failed is charged to what it claims. *)
KeyOf_Claimed(s) ==
    LET c == Credential(s) IN
    IF c = "none" THEN Address ELSE IF c = "bad" THEN CHOOSE k \in Known : TRUE ELSE c

(* Nobody, and whoever failed, is charged by address. *)
KeyOf(s) == LET c == Credential(s) IN IF c \in Known THEN c ELSE Address

(* Up to the limiter, whose clock is read here. *)
Arrive(r, s) ==
    /\ req[r].pc = "idle"
    /\ IF Preflight(s)
       THEN /\ Send(r, Coded(IF OriginAllowed(s.origin) THEN 204 ELSE 403))
            /\ UNCHANGED limiterVars
       ELSE IF ~CrossOriginAllowed(s)
       THEN /\ Send(r, Coded(403))
            /\ UNCHANGED limiterVars
       ELSE /\ Read(r, KeyOf(s))
            /\ req' = [req EXCEPT ![r] = [pc |-> "limited", shape |-> s]]
            /\ UNCHANGED answer
    /\ UNCHANGED <<halted, last, wrong>>

-----------------------------------------------------------------------------
(* Authority *)

Who(r) == Credential(req[r].shape)
ScopesOf(c) == IF c \in Known THEN Holds[c] ELSE Anonymous
HasScope(c, scope) == ScopesOf(c) \cap {scope, "*"} # {}
Missing(c, route) == {scope \in Table[route].needs : ~HasScope(c, scope)}
Refusal(c) == IF c = "none" THEN 401 ELSE 403

(* Router::find: 404, 405, or a route. *)
Found(method, path) == path \in AppRoutes /\ Table[path].method = method

Entry(r, route, via) == [who |-> Who(r), shape |-> req[r].shape, route |-> route, via |-> via]

(* ws::accept: 426 for another version, 404, a refusal, 400 for a route    *)
(* that has no socket or a request without a key, 503 where there is no    *)
(* place left, and 101.  An agent's socket rides on its POST route.        *)
AcceptAnswers(r) ==
    LET path == req[r].shape.path IN
    {426} \cup (IF path \notin AppRoutes THEN {404}
                ELSE IF Missing(Who(r), path) # {} THEN {Refusal(Who(r))}
                ELSE IF Table[path].op # "model" THEN {400} ELSE {400, 503, 101})

TooMany(r) ==
    /\ req[r].pc = "limited"
    /\ Refuse(r)
    /\ Send(r, Coded(429))
    /\ UNCHANGED <<halted, last, wrong>>

(* Within the limit: a credential that failed is refused, a socket is      *)
(* made (unless its 101 cannot be sent) or refused, a body is read.        *)
Pass(r) ==
    /\ req[r].pc = "limited"
    /\ Admit(r)
    /\ IF Who(r) = "bad"
       THEN /\ Send(r, Coded(401))
            /\ wrong' = wrong + 1
            /\ UNCHANGED last
       ELSE IF req[r].shape.upgrade
       THEN \E status \in AcceptAnswers(r) :
                /\ Send(r, Coded(status))
                /\ last' = IF status = 101 /\ headersLegal
                           THEN Entry(r, req[r].shape.path, "socket") ELSE last
                /\ UNCHANGED wrong
       ELSE /\ req' = [req EXCEPT ![r].pc = "reading"]
            /\ UNCHANGED <<last, wrong, answer>>
    /\ UNCHANGED halted

-----------------------------------------------------------------------------
(* The body, under the request's timeout *)

(* Too large, malformed, or cut short. *)
BodyRefused(r) ==
    /\ req[r].pc = "reading"
    /\ \E status \in {400, 413} : Send(r, Coded(status))
    /\ UNCHANGED <<limiterVars, halted, last, wrong>>

BodyLate(r) ==
    /\ req[r].pc = "reading"
    /\ Send(r, Coded(408))
    /\ UNCHANGED <<limiterVars, halted, last, wrong>>

-----------------------------------------------------------------------------
(* Dispatch, once the body is there *)

(* The checks of dispatch on a route that was found: 0 when it is run. *)
DispatchRefusal(r, route) ==
    IF Missing(Who(r), route) # {} THEN Refusal(Who(r))
    ELSE IF Table[route].actuator /\ halted THEN 423 ELSE 0

Run(r, route, via) ==
    /\ req' = [req EXCEPT ![r].pc = "running"]
    /\ last' = Entry(r, route, via)
    /\ UNCHANGED answer

Dispatch(r) ==
    LET s == req[r].shape
    IN  /\ req[r].pc = "reading" /\ s.path \notin Control
        /\ IF ~Found(s.method, s.path)
           THEN /\ Send(r, Coded(IF s.path \notin AppRoutes THEN 404
                                 ELSE IF s.method = "OPTIONS" THEN 204 ELSE 405))
                /\ UNCHANGED last
           ELSE LET refusal == DispatchRefusal(r, s.path)
                IN  IF refusal # 0 THEN Send(r, Coded(refusal)) /\ UNCHANGED last
                    ELSE Run(r, s.path, "http")
        /\ UNCHANGED <<limiterVars, halted, wrong>>

Result(r, res) ==
    /\ req[r].pc = "running"
    /\ Send(r, res)
    /\ UNCHANGED <<limiterVars, halted, last, wrong>>

(* The handler returns something, which hyper may not be able to send, or  *)
(* panics.  It may also never return.                                      *)
Return(r) ==
    \/ \E legal, own \in BOOLEAN : Result(r, [status |-> 200, legal |-> legal, own |-> own])
    \/ Result(r, Coded(500))

(* What runs under a timeout: agent_timeout_secs for a model loop,         *)
(* request_timeout_secs for the rest; nothing of the control plane.        *)
Bounded(s) == s.path \notin Control

Timeout(r) ==
    /\ req[r].pc = "running" /\ Bounded(req[r].shape)
    /\ Result(r, Coded(504))

-----------------------------------------------------------------------------
(* The control plane *)

(* Nobody is known where no authentication is configured. *)
ControlRefused(r) ==
    Known # {} /\ req[r].shape.path # "/health" /\ ~HasScope(Who(r), "webcortex:admin")

(* GET reads, except what is there to be posted. *)
Endpoint(s) == IF s.method = "GET" THEN s.path # "/release"
               ELSE s.method = "POST" /\ s.path \notin {"/health", "/listing"}
Posted(r) == IF req[r].shape.method = "POST" THEN req[r].shape.path ELSE "none"

(* What tools/call runs: a tool that exists, and needs no approval. *)
Callable(tool) == tool \in AppRoutes /\ ~Table[tool].gated

(* mcp::handle_request: an error is an answer of the protocol. *)
Mcp(r) ==
    LET tool == req[r].shape.tool
    IN  /\ Posted(r) = "/mcp"
        /\ IF Callable(tool) /\ DispatchRefusal(r, tool) = 0
           THEN Run(r, tool, "mcp")
           ELSE Send(r, Coded(200)) /\ UNCHANGED last
        /\ UNCHANGED halted

(* A parked run is continued in the request that decides on it. *)
Approvals(r) ==
    /\ Posted(r) = "/approvals"
    /\ \/ \E status \in {400, 404} : Send(r, Coded(status))
       \/ req' = [req EXCEPT ![r].pc = "running"] /\ UNCHANGED answer
    /\ UNCHANGED <<last, halted>>

(* The emergency stop, whatever only reads, and what is not there. *)
Operate(r) ==
    /\ Posted(r) \notin {"/mcp", "/approvals"}
    /\ halted' = CASE Posted(r) = "/halt" -> TRUE
                   [] Posted(r) = "/release" -> FALSE
                   [] OTHER -> halted
    /\ Send(r, Coded(IF Endpoint(req[r].shape) THEN 200 ELSE 404))
    /\ UNCHANGED last

ControlPlane(r) ==
    /\ req[r].pc = "reading" /\ req[r].shape.path \in Control
    /\ IF ControlRefused(r)
       THEN Send(r, Coded(Refusal(Who(r)))) /\ UNCHANGED <<last, halted>>
       ELSE Operate(r) \/ Mcp(r) \/ Approvals(r)
    /\ UNCHANGED <<limiterVars, wrong>>

(* The client has gone: the connection drops the task where it awaits. *)
Gone(r) ==
    /\ req[r].pc \in {"reading", "running"}
    /\ req' = [req EXCEPT ![r] = NoRequest]
    /\ UNCHANGED <<limiterVars, halted, last, wrong, answer>>

-----------------------------------------------------------------------------

Next ==
    /\ UNCHANGED headersLegal
    /\ \/ Tick /\ UNCHANGED pathVars
       \/ \E r \in Checkers :
            \/ \E s \in Shapes : Arrive(r, s)
            \/ TooMany(r) \/ Pass(r)
            \/ BodyRefused(r) \/ BodyLate(r)
            \/ Dispatch(r) \/ Return(r) \/ Timeout(r)
            \/ ControlPlane(r) \/ Gone(r)

Spec == Init /\ [][Next]_vars

-----------------------------------------------------------------------------
(* Properties *)

TypeOK ==
    /\ \A r \in Checkers :
         \/ req[r] = NoRequest
         \/ req[r].pc \in {"limited", "reading", "running"} /\ req[r].shape \in Shapes
    /\ \A r \in Checkers : check[r].pc = "waiting" <=> req[r].pc = "limited"
    /\ halted \in BOOLEAN /\ wrong \in Nat

(* server.rs:583, app.rs:364, 571, mcp.rs:409.  However it was asked for,  *)
(* over HTTP, a socket or MCP, whatever ran was asked for by someone who   *)
(* holds all its route needs, not by a foreign page, and over MCP it is    *)
(* not a tool that a human must approve; where callers are known at all,   *)
(* MCP is an administrator's.                                              *)
PermittedOnly ==
    [][last' # last =>
         /\ Missing(last'.who, last'.route) = {}
         /\ last'.via = "socket" \/ last'.shape.method = "POST" =>
              last'.shape.origin # "foreign"
         /\ last'.via = "mcp" =>
              /\ ~Table[last'.route].gated
              /\ Known # {} => HasScope(last'.who, "webcortex:admin")]_vars

(* server.rs:618-632.  Every wrong credential that was answered as wrong   *)
(* took a token of the client's address, so guessing is held to its rate.  *)
GuessesPaid == wrong <= Len(let[Address])

(* server.rs:483-509.  What was recorded of a request is what was sent,    *)
(* whatever its handler returned; except where a configured header cannot  *)
(* be sent, and then every answer that does not bring that header itself   *)
(* is a bare 500 on the wire, and recorded as what it was to be.           *)
RecordedAsSent ==
    [][answer'.sent = IF headersLegal \/ answer'.own THEN answer'.recorded ELSE 500]_vars
=============================================================================
