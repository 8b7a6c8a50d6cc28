------------------------------ MODULE Serving ------------------------------
(***************************************************************************)
(* Connections, sockets and shutdown: serve_with_shutdown (server.rs), the *)
(* ceiling on connections and the sockets' shutdown watch (app.rs), and    *)
(* the tasks of the WebSockets (ws.rs), an agent's turns among them.       *)
(*                                                                         *)
(* A socket outlives the connection task that upgraded it: it holds its    *)
(* own place under the ceiling, and is told of the shutdown separately.    *)
(* What requests and turns do is left out: they end.                       *)
(***************************************************************************)
EXTENDS Integers, Sequences, FiniteSets

CONSTANTS Conns,     \* connections, each of which may become a socket
          MaxConns,  \* server.max_connections
          MaxQueued, \* MAX_QUEUED_TURNS
          MaxReplies,\* INGEST_REPLIES
          MaxTurns   \* bound: turns a client sends

ASSUME ServingAssumption ==
    /\ IsFiniteSet(Conns)
    /\ MaxConns \in Nat /\ MaxQueued \in Nat /\ MaxReplies \in Nat \ {0}
    /\ MaxTurns \in Nat

VARIABLES
    server,  \* what serve_with_shutdown is doing
    gone,    \* the halves of its join that have resolved
    cut,     \* history: the drain timed out
    conn,    \* what each connection is doing, and whether it was told to stop
    sock,    \* what each socket is doing
    slots,   \* places left under max_connections
    present  \* history: the sockets open when they were told to close

vars == <<server, gone, cut, conn, sock, slots, present>>

NoSocket == [pc |-> "none", mode |-> "Stream", sent |-> 0, turn |-> 0,
             queue |-> <<>>, done |-> <<>>, refused |-> {},
             replies |-> <<>>, writer |-> "idle"]

(* The flags stop_tx and App.shutdown, set in this order. *)
Stop == server \in {"stopping", "draining", "exited"}
GoingAway == server \in {"draining", "exited"}

OpenConns == {c \in Conns : conn[c].pc \notin {"none", "done"}}
OpenSocks == {c \in Conns : sock[c].pc \notin {"none", "closed"}}

Init ==
    /\ server = "serving" /\ gone = {} /\ cut = FALSE
    /\ conn = [c \in Conns |-> [pc |-> "none", told |-> FALSE]]
    /\ sock = [c \in Conns |-> NoSocket]
    /\ slots = MaxConns
    /\ present = {}

-----------------------------------------------------------------------------
(* The accept loop and the drain *)

(* A connection gets a place and a task of its own; with none left it is   *)
(* answered 503 and closed, without one.                                   *)
Accept(c) ==
    /\ server = "serving"
    /\ conn[c].pc = "none" /\ slots > 0
    /\ conn' = [conn EXCEPT ![c].pc = "sniffing"]
    /\ slots' = slots - 1
    /\ UNCHANGED <<server, gone, cut, sock, present>>

(* The signal: the listener is dropped, every connection told. *)
Signal ==
    /\ server = "serving"
    /\ server' = "stopping"
    /\ UNCHANGED <<gone, cut, conn, sock, slots, present>>

(* close_sockets: every socket told. *)
CloseSockets ==
    /\ server = "stopping"
    /\ server' = "draining"
    /\ present' = OpenSocks
    /\ UNCHANGED <<gone, cut, conn, sock, slots>>

(* stop_tx.closed() resolves, once. *)
ConnsGone ==
    /\ Stop /\ OpenConns = {}
    /\ gone' = gone \cup {"conns"}
    /\ UNCHANGED <<server, cut, conn, sock, slots, present>>

(* shutdown.closed() resolves, once. *)
SocketsGone ==
    /\ GoingAway /\ OpenSocks = {}
    /\ gone' = gone \cup {"sockets"}
    /\ UNCHANGED <<server, cut, conn, sock, slots, present>>

(* Faulty variant: the drain does not wait for sockets. *)
Drained_ConnsOnly == "conns" \in gone

Drained == gone = {"conns", "sockets"}

(* The drain ends; the process exits. *)
Exit ==
    /\ server = "draining" /\ Drained
    /\ server' = "exited"
    /\ UNCHANGED <<gone, cut, conn, sock, slots, present>>

(* Or shutdown_timeout has passed. *)
CutOff ==
    /\ server = "draining" /\ ~Drained
    /\ server' = "exited" /\ cut' = TRUE
    /\ UNCHANGED <<gone, conn, sock, slots, present>>

-----------------------------------------------------------------------------
(* A connection's task *)

Alive == server # "exited"

Step(c, pc) ==
    /\ conn' = [conn EXCEPT ![c].pc = pc]
    /\ slots' = IF pc = "done" THEN slots + 1 ELSE slots

(* The first bytes arrive; or they do not, or the server stops.            *)
Sniff(c) ==
    /\ Alive /\ conn[c].pc = "sniffing"
    /\ Step(c, "idle") \/ Step(c, "done")
    /\ UNCHANGED <<server, gone, cut, sock, present>>

(* A request's head has been read: the last one, once told to stop. *)
Request(c) ==
    /\ Alive /\ conn[c].pc = "idle"
    /\ Step(c, "request")
    /\ UNCHANGED <<server, gone, cut, sock, present>>

(* The answer (a 503 for an upgrade that found no place among them); with  *)
(* "connection: close" once told to stop.                                  *)
Respond(c) ==
    /\ Alive /\ conn[c].pc = "request"
    /\ Step(c, IF conn[c].told THEN "done" ELSE "idle")
    /\ UNCHANGED <<server, gone, cut, sock, present>>

(* graceful_shutdown closes a connection between requests.  One that has   *)
(* part of a head, or a request in hand, finishes that and nothing after.  *)
Finishes(c) ==
    /\ conn[c].pc \in {"idle", "request"} /\ ~conn[c].told
    /\ \/ /\ conn[c].pc = "idle"
          /\ Step(c, "done")
       \/ /\ conn' = [conn EXCEPT ![c].told = TRUE]
          /\ UNCHANGED slots
    /\ UNCHANGED <<server, gone, cut, sock, present>>

Graceful(c) == Alive /\ Stop /\ Finishes(c)

(* Activity: nothing in flight.  The time no bytes moved is nondeterminism. *)
Idle(c) == conn[c].pc = "idle"

(* A connection that was idle for the header timeout is told the same. *)
IdleClosed(c) == Alive /\ Idle(c) /\ Finishes(c)

(* The rest of a head does not come in time: header_read_timeout, or the   *)
(* time that graceful_shutdown was given.                                  *)
HeadLate(c) ==
    /\ Alive /\ Idle(c)
    /\ Step(c, "done")
    /\ UNCHANGED <<server, gone, cut, sock, present>>

(* The client is gone, its request dropped. *)
Hangup(c) ==
    /\ Alive /\ conn[c].pc \in {"sniffing", "idle", "request"}
    /\ Step(c, "done")
    /\ UNCHANGED <<server, gone, cut, sock, present>>

SocketPlaces == 1

(* ws::accept: the socket takes a place and the shutdown watch, and its    *)
(* task starts; the 101 is on its way.                                     *)
Upgrade(c) ==
    /\ Alive /\ conn[c].pc = "request"
    /\ sock[c].pc = "none" /\ slots > 0
    /\ slots' = slots - SocketPlaces
    /\ \E mode \in {"Ingest", "Stream", "Agent"} :
        sock' = [sock EXCEPT ![c].pc = "upgrading", ![c].mode = mode]
    /\ conn' = [conn EXCEPT ![c].pc = "switching"]
    /\ UNCHANGED <<server, gone, cut, present>>

(* The 101 is written, or the client is gone: either way the connection    *)
(* task ends.                                                              *)
Switch(c) ==
    /\ Alive /\ conn[c].pc = "switching"
    /\ conn' = [conn EXCEPT ![c].pc = "done"]
    /\ \/ /\ sock' = [sock EXCEPT ![c].pc = "opening"]
          /\ slots' = slots + 1
       \/ /\ sock' = [sock EXCEPT ![c].pc = "closed"]
          /\ slots' = slots + 1 + SocketPlaces
    /\ UNCHANGED <<server, gone, cut, present>>

-----------------------------------------------------------------------------
(* A socket's task: ingest_loop and stream_loop wait for something to pass *)
(* on, agent_session works through turns.                                  *)

OnlySocket == UNCHANGED <<server, gone, cut, conn, present>>

(* "ready", or a stream's opening, was delivered. *)
Open(c) ==
    /\ Alive /\ sock[c].pc = "opening"
    /\ sock' = [sock EXCEPT ![c].pc = IF sock[c].mode = "Agent" THEN "top" ELSE "waiting"]
    /\ UNCHANGED slots /\ OnlySocket

BeginTurn(c, turn, sent, queue) ==
    sock' = [sock EXCEPT ![c] = [sock[c] EXCEPT !.pc = "turn", !.turn = turn,
                                                !.sent = sent, !.queue = queue]]

(* The top of agent_session's loop: going away comes before what is queued. *)
Top(c) ==
    LET s == sock[c]
    IN  /\ Alive /\ s.pc = "top"
        /\ IF ~GoingAway /\ s.queue # <<>>
           THEN BeginTurn(c, Head(s.queue), s.sent, Tail(s.queue))
           ELSE sock' = [sock EXCEPT ![c].pc = IF GoingAway THEN "bye" ELSE "waiting"]
        /\ UNCHANGED slots /\ OnlySocket

(* A turn arrives while the socket waits.  It may be taken although the    *)
(* shutdown has begun: select chooses among what is ready.                 *)
Hear(c) ==
    /\ Alive /\ sock[c].pc = "waiting" /\ sock[c].mode = "Agent"
    /\ sock[c].sent < MaxTurns
    /\ BeginTurn(c, sock[c].sent + 1, sock[c].sent + 1, <<>>)
    /\ UNCHANGED slots /\ OnlySocket

(* Faulty variant: stop is not among what a waiting socket looks at. *)
Stopped_Unseen(c) == FALSE /\ UNCHANGED vars

Stopped(c) ==
    /\ Alive /\ sock[c].pc = "waiting" /\ GoingAway
    /\ sock' = [sock EXCEPT ![c].pc = IF sock[c].mode = "Ingest" THEN "telling" ELSE "bye"]
    /\ UNCHANGED slots /\ OnlySocket

(* Faulty variant: a turn past the limit goes without an answer. *)
Queued_Silently(s) ==
    IF Len(s.queue) < MaxQueued
    THEN [s EXCEPT !.sent = @ + 1, !.queue = Append(@, s.sent + 1)]
    ELSE [s EXCEPT !.sent = @ + 1]

(* A turn sent ahead is queued, or refused. *)
Queued(s) ==
    IF Len(s.queue) < MaxQueued
    THEN [s EXCEPT !.sent = @ + 1, !.queue = Append(@, s.sent + 1)]
    ELSE [s EXCEPT !.sent = @ + 1, !.refused = @ \cup {s.sent + 1}]

HearDuringTurn(c) ==
    /\ Alive /\ sock[c].pc = "turn" /\ sock[c].sent < MaxTurns
    /\ sock' = [sock EXCEPT ![c] = Queued(sock[c])]
    /\ UNCHANGED slots /\ OnlySocket

(* The turn's result, its error, or word that it took too long. *)
Reply(c) ==
    /\ Alive /\ sock[c].pc = "turn"
    /\ sock' = [sock EXCEPT ![c].pc = "top", ![c].turn = 0,
                            ![c].done = Append(@, sock[c].turn)]
    /\ UNCHANGED slots /\ OnlySocket

(* The close, 1001, is delivered, or not within its time. *)
Bye(c) ==
    /\ Alive /\ sock[c].pc = "bye"
    /\ sock' = [sock EXCEPT ![c].pc = "closed"]
    /\ slots' = slots + SocketPlaces
    /\ OnlySocket

(* The peer closed, or stopped reading: the turn under way is dropped.  A  *)
(* device's writer is waited for first.                                    *)
PeerGone(c) ==
    /\ Alive /\ sock[c].pc \in {"opening", "waiting", "turn"}
    /\ LET writes == sock[c].mode = "Ingest" /\ sock[c].pc = "waiting"
       IN  /\ sock' = [sock EXCEPT ![c].pc = IF writes THEN "joining" ELSE "closed"]
           /\ slots' = IF writes THEN slots ELSE slots + SocketPlaces
    /\ OnlySocket

-----------------------------------------------------------------------------
(* A device's socket: its replies go through a short queue to a task that  *)
(* writes them, so that a device which never reads does not stop the hub.  *)

(* A message that is answered with an error.  A reply that finds no place  *)
(* is dropped.                                                             *)
Ingest(c) ==
    /\ Alive /\ sock[c].pc = "waiting" /\ sock[c].mode = "Ingest"
    /\ sock[c].writer # "ended" /\ Len(sock[c].replies) < MaxReplies
    /\ sock' = [sock EXCEPT ![c].replies = Append(@, "error")]
    /\ UNCHANGED slots /\ OnlySocket

(* One that is too large, or breaks the protocol, is answered with a close. *)
IngestBreaks(c) ==
    /\ Alive /\ sock[c].pc = "waiting" /\ sock[c].mode = "Ingest"
    /\ sock' = [sock EXCEPT ![c].pc = "telling"]
    /\ UNCHANGED slots /\ OnlySocket

(* The close waits for a place in the queue, or for the writer's end.      *)
Tell(c) ==
    /\ Alive /\ sock[c].pc = "telling"
    /\ \/ /\ sock[c].writer = "ended"
          /\ sock' = [sock EXCEPT ![c].pc = "joining"]
       \/ /\ sock[c].writer # "ended" /\ Len(sock[c].replies) < MaxReplies
          /\ sock' = [sock EXCEPT ![c].pc = "joining", ![c].replies = Append(@, "close")]
    /\ UNCHANGED slots /\ OnlySocket

(* write_replies: one reply after the other, until one cannot be delivered *)
(* in time, or is the close, or the queue has no more senders.             *)
WriteReply(c) ==
    /\ Alive /\ sock[c].mode = "Ingest" /\ sock[c].pc \in {"waiting", "telling", "joining"}
    /\ LET s == sock[c]
       IN  \/ /\ s.writer = "idle" /\ s.replies # <<>>
              /\ sock' = [sock EXCEPT ![c].writer = Head(s.replies), ![c].replies = Tail(s.replies)]
           \/ /\ s.writer = "idle" /\ s.replies = <<>> /\ s.pc = "joining"
              /\ sock' = [sock EXCEPT ![c].writer = "closing"]
           \/ /\ s.writer = "error"
              /\ sock' = [sock EXCEPT ![c].writer = "idle"]
           \/ /\ s.writer \in {"error", "close"}
              /\ sock' = [sock EXCEPT ![c].writer = "closing"]
           \/ /\ s.writer = "closing"
              /\ sock' = [sock EXCEPT ![c].writer = "ended", ![c].replies = <<>>]
    /\ UNCHANGED slots /\ OnlySocket

(* writer.await: the socket's task ends after its writer. *)
JoinWriter(c) ==
    /\ Alive /\ sock[c].pc = "joining" /\ sock[c].writer = "ended"
    /\ sock' = [sock EXCEPT ![c].pc = "closed"]
    /\ slots' = slots + SocketPlaces
    /\ OnlySocket

-----------------------------------------------------------------------------
Next ==
    \/ Signal \/ CloseSockets \/ ConnsGone \/ SocketsGone \/ Exit \/ CutOff
    \/ \E c \in Conns :
        \/ Accept(c) \/ Sniff(c) \/ Request(c) \/ Respond(c) \/ Graceful(c)
        \/ IdleClosed(c) \/ HeadLate(c) \/ Hangup(c) \/ Upgrade(c) \/ Switch(c)
        \/ Open(c) \/ Top(c) \/ Hear(c) \/ Stopped(c) \/ HearDuringTurn(c)
        \/ Reply(c) \/ Bye(c) \/ PeerGone(c)
        \/ Ingest(c) \/ IngestBreaks(c) \/ Tell(c) \/ WriteReply(c) \/ JoinWriter(c)

Spec == Init /\ [][Next]_vars

(* The tasks run on; heads, requests, turns and a socket's sends all have a *)
(* timeout.  Of clients it is assumed that they read the answer to their    *)
(* request; nothing of the drain's own timeout.                             *)
FairSpec ==
    /\ Spec
    /\ WF_vars(CloseSockets) /\ WF_vars(ConnsGone) /\ WF_vars(SocketsGone) /\ WF_vars(Exit)
    /\ \A c \in Conns :
        /\ WF_vars(Sniff(c)) /\ WF_vars(Respond(c)) /\ WF_vars(Graceful(c))
        /\ WF_vars(HeadLate(c)) /\ WF_vars(Switch(c)) /\ WF_vars(Open(c)) /\ WF_vars(Top(c))
        /\ WF_vars(Stopped(c)) /\ WF_vars(Reply(c)) /\ WF_vars(Bye(c))
        /\ WF_vars(Tell(c)) /\ WF_vars(WriteReply(c)) /\ WF_vars(JoinWriter(c))

-----------------------------------------------------------------------------
Places == 0..MaxConns
Turns == 1..MaxTurns

TypeOK ==
    /\ server \in {"serving", "stopping", "draining", "exited"}
    /\ gone \subseteq {"conns", "sockets"} /\ cut \in BOOLEAN
    /\ conn \in [Conns -> [pc : {"none", "sniffing", "idle", "request", "switching", "done"},
                           told : BOOLEAN]]
    /\ DOMAIN sock = Conns
    /\ \A c \in Conns :
        /\ sock[c].pc \in {"none", "upgrading", "opening", "top", "waiting", "turn",
                           "bye", "telling", "joining", "closed"}
        /\ sock[c].mode \in {"Ingest", "Stream", "Agent"}
        /\ sock[c].writer \in {"idle", "error", "close", "closing", "ended"}
        /\ sock[c].replies \in Seq({"error", "close"}) /\ Len(sock[c].replies) <= MaxReplies
        /\ sock[c].sent \in 0..MaxTurns /\ sock[c].turn \in 0..MaxTurns
        /\ sock[c].queue \in Seq(Turns) /\ Len(sock[c].queue) <= MaxQueued
        /\ sock[c].done \in Seq(Turns) /\ sock[c].refused \subseteq Turns
    /\ slots \in Places
    /\ present \subseteq Conns

(* While a socket is open, each turn its client sent was answered in the   *)
(* order it came, refused, is running, or waits its turn (agent_session).  *)
TurnsKept ==
    \A c \in OpenSocks :
        LET s == sock[c]
            line == s.done \o (IF s.turn = 0 THEN <<>> ELSE <<s.turn>>) \o s.queue
        IN  /\ \A i, j \in DOMAIN line : i < j => line[i] < line[j]
            /\ {line[i] : i \in DOMAIN line} \cup s.refused = 1..s.sent
            /\ {line[i] : i \in DOMAIN line} \cap s.refused = {}

(* "A deploy never severs a request that was mid-flight": unless the drain *)
(* timed out, at exit every connection has ended, and so has every socket  *)
(* that was open when the sockets were told.                               *)
DrainWaits ==
    server = "exited" /\ ~cut => OpenConns = {} /\ present \cap OpenSocks = {}

(* The drain ends by itself, without its timeout: every connection and     *)
(* every socket hears of the shutdown and ends (close_sockets, stopped).   *)
EveryDrainEnds == server = "stopping" ~> server = "exited"

=============================================================================
