---------------------------- MODULE ServingProofs ----------------------------
(***************************************************************************)
(* Proofs about Serving, for any connections, ceiling and queues: what the *)
(* drain has waited for when the server exits, and what becomes of a       *)
(* client's turns.  And about WorkerPool, for any threads, ceiling and     *)
(* requests: which queued actuators may start.  And about FrameGate and    *)
(* DeviceHub, for any pushers, askers, viewers, interval, ring and         *)
(* channel: the hub's device implements FrameGate, so what is proved of    *)
(* that holds; the rest follows from HubInv, which says what the channel,  *)
(* the ring, the fetches and the viewers have to do with each other.       *)
(***************************************************************************)
EXTENDS Serving, WorkerPool, DeviceHub, SequenceTheorems, TLAPS

Pcs == {"none", "upgrading", "opening", "top", "waiting", "turn", "bye", "telling",
        "joining", "closed"}

Socket == [pc : Pcs, mode : {"Ingest", "Stream", "Agent"}, sent : Nat, turn : Nat,
           queue : Seq(Nat), done : Seq(Nat), refused : SUBSET Nat,
           replies : Seq({"error", "close"}),
           writer : {"idle", "error", "close", "closing", "ended"}]

Connection == [pc : {"none", "sniffing", "idle", "request", "switching", "done"},
               told : BOOLEAN]

(* The parts of the type that the proofs rest on. *)
Types ==
    /\ server \in {"serving", "stopping", "draining", "exited"}
    /\ conn \in [Conns -> Connection] /\ sock \in [Conns -> Socket]
    /\ present \subseteq Conns

(* A socket's own step. *)
SocketStep(c) ==
    \/ Open(c) \/ Top(c) \/ Hear(c) \/ Stopped(c) \/ HearDuringTurn(c) \/ Reply(c) \/ Bye(c)
    \/ PeerGone(c) \/ Ingest(c) \/ IngestBreaks(c) \/ Tell(c) \/ WriteReply(c) \/ JoinWriter(c)

(* A connection's own step. *)
ConnStep(c) ==
    \/ Accept(c) \/ Sniff(c) \/ Request(c) \/ Respond(c) \/ Graceful(c) \/ IdleClosed(c)
    \/ HeadLate(c) \/ Hangup(c)

(* The server's steps. *)
ServerStep == Signal \/ CloseSockets \/ ConnsGone \/ SocketsGone \/ Exit \/ CutOff

LEMMA Parts ==
  ASSUME [Next]_vars
  PROVE  \/ ServerStep \/ UNCHANGED vars
         \/ \E c \in Conns : SocketStep(c) \/ ConnStep(c) \/ Upgrade(c) \/ Switch(c)
  BY DEF Next, ServerStep, SocketStep, ConnStep

(* What a socket's step does to the others, and to the server. *)
LEMMA SocketAlone ==
  ASSUME Types, NEW c \in Conns, SocketStep(c)
  PROVE  /\ sock[c].pc \notin {"none", "upgrading", "closed"} /\ sock'[c].pc # "none"
         /\ sock' \in [Conns -> Socket]
         /\ \A d \in Conns : d # c => sock'[d] = sock[d]
         /\ UNCHANGED <<server, gone, cut, conn, present>>
<1> DEFINE me == sock[c]
<1>1. sock \in [Conns -> Socket] /\ me \in Socket
  BY DEF Types
<1>2. ASSUME NEW new \in Socket, new.pc # "none", sock' = [sock EXCEPT ![c] = new]
      PROVE  /\ sock' \in [Conns -> Socket] /\ sock'[c].pc # "none"
             /\ \A d \in Conns : d # c => sock'[d] = sock[d]
  BY <1>1, <1>2
<1>3. CASE Open(c)
  <2> DEFINE new1 == [me EXCEPT !.pc = IF me.mode = "Agent" THEN "top" ELSE "waiting"]
  <2>1. new1 \in Socket /\ new1.pc # "none"
    BY <1>1, <1>3 DEF Open, Socket, Pcs
  <2>2. sock' = [sock EXCEPT ![c] = new1]
    BY <1>1, <1>3 DEF Open, OnlySocket, Socket
  <2>3. /\ me.pc \notin {"none", "upgrading", "closed"}
        /\ UNCHANGED <<server, gone, cut, conn, present>>
    BY <1>3 DEF Open, OnlySocket
  <2> HIDE DEF new1
  <2>4. QED
    BY <1>2, <2>1, <2>2, <2>3
<1>4. CASE Top(c)
  <2>1. me.pc = "top" /\ UNCHANGED <<server, gone, cut, conn, present>>
    BY <1>4 DEF Top, OnlySocket
  <2>2. CASE ~GoingAway /\ me.queue # <<>>
    <3> DEFINE turn == Head(me.queue)
               rest == Tail(me.queue)
               new == [me EXCEPT !.pc = "turn", !.turn = turn, !.sent = me.sent, !.queue = rest]
    <3>1. me.queue \in Seq(Nat) /\ me.sent \in Nat
      BY <1>1 DEF Socket
    <3>2. turn \in Nat /\ rest \in Seq(Nat)
      BY <2>2, <3>1
    <3>3. sock' = [sock EXCEPT ![c] = new]
      BY <1>4, <2>2 DEF Top, BeginTurn
    <3> HIDE DEF turn, rest
    <3>4. new \in Socket /\ new.pc # "none"
      BY <1>1, <3>1, <3>2 DEF Socket, Pcs
    <3>5. QED
      BY <1>2, <2>1, <3>3, <3>4
  <2>3. CASE ~(~GoingAway /\ me.queue # <<>>)
    <3> DEFINE new == [me EXCEPT !.pc = IF GoingAway THEN "bye" ELSE "waiting"]
    <3>1. new \in Socket /\ new.pc # "none"
      BY <1>1 DEF Socket, Pcs
    <3>2. sock' = [sock EXCEPT ![c] = new]
      BY <1>4, <2>3 DEF Top
    <3>3. QED
      BY <1>2, <2>1, <3>1, <3>2
  <2>4. QED
    BY <2>2, <2>3
<1>5. CASE Hear(c)
  <2> DEFINE next == me.sent + 1
             none == <<>>
             new == [me EXCEPT !.pc = "turn", !.turn = next, !.sent = next, !.queue = none]
  <2>1. next \in Nat /\ none \in Seq(Nat)
    BY <1>1 DEF Socket
  <2>2. sock' = [sock EXCEPT ![c] = new]
    BY <1>5 DEF Hear, BeginTurn
  <2> HIDE DEF next, none
  <2>3. new \in Socket /\ new.pc # "none"
    BY <1>1, <2>1 DEF Socket, Pcs
  <2>4. me.pc \notin {"none", "upgrading", "closed"} /\ UNCHANGED <<server, gone, cut, conn, present>>
    BY <1>5 DEF Hear, OnlySocket
  <2>5. QED
    BY <1>2, <2>2, <2>3, <2>4
<1>6. CASE Stopped(c)
  <2> DEFINE new1 == [me EXCEPT !.pc = IF me.mode = "Ingest" THEN "telling" ELSE "bye"]
  <2>1. new1 \in Socket /\ new1.pc # "none"
    BY <1>1, <1>6 DEF Stopped, Socket, Pcs
  <2>2. sock' = [sock EXCEPT ![c] = new1]
    BY <1>1, <1>6 DEF Stopped, OnlySocket, Socket
  <2>3. /\ me.pc \notin {"none", "upgrading", "closed"}
        /\ UNCHANGED <<server, gone, cut, conn, present>>
    BY <1>6 DEF Stopped, OnlySocket
  <2> HIDE DEF new1
  <2>4. QED
    BY <1>2, <2>1, <2>2, <2>3
<1>7. CASE HearDuringTurn(c)
  <2> DEFINE next == me.sent + 1
             line == Append(me.queue, next)
             refused == me.refused \cup {next}
  <2>1. next \in Nat /\ me.queue \in Seq(Nat) /\ me.refused \in SUBSET Nat
    BY <1>1 DEF Socket
  <2>2. line \in Seq(Nat) /\ refused \in SUBSET Nat
    BY <2>1
  <2>3. sock' = [sock EXCEPT ![c] = Queued(me)] /\ me.pc = "turn"
    BY <1>7 DEF HearDuringTurn
  <2>4. \/ Queued(me) = [me EXCEPT !.sent = next, !.queue = line]
        \/ Queued(me) = [me EXCEPT !.sent = next, !.refused = refused]
    BY DEF Queued
  <2> HIDE DEF next, line, refused
  <2>5. Queued(me) \in Socket /\ Queued(me).pc = me.pc
    BY <1>1, <2>1, <2>2, <2>4 DEF Socket, Pcs
  <2>6. me.pc \notin {"none", "upgrading", "closed"} /\ UNCHANGED <<server, gone, cut, conn, present>>
    BY <1>7 DEF HearDuringTurn, OnlySocket
  <2>7. QED
    BY <1>2, <2>3, <2>5, <2>6
<1>8. CASE Reply(c)
  <2> DEFINE done == Append(me.done, me.turn)
             new == [me EXCEPT !.pc = "top", !.turn = 0, !.done = done]
  <2>1. me.done \in Seq(Nat) /\ me.turn \in Nat
    BY <1>1 DEF Socket
  <2>2. done \in Seq(Nat)
    BY <2>1
  <2>3. sock' = [sock EXCEPT ![c] = new]
    BY <1>8 DEF Reply
  <2> HIDE DEF done
  <2>4. new \in Socket /\ new.pc # "none"
    BY <1>1, <2>2 DEF Socket, Pcs
  <2>5. me.pc \notin {"none", "upgrading", "closed"} /\ UNCHANGED <<server, gone, cut, conn, present>>
    BY <1>8 DEF Reply, OnlySocket
  <2>6. QED
    BY <1>2, <2>3, <2>4, <2>5
<1>9. CASE Bye(c)
  <2> DEFINE new1 == [me EXCEPT !.pc = "closed"]
  <2>1. new1 \in Socket /\ new1.pc # "none"
    BY <1>1, <1>9 DEF Bye, Socket, Pcs
  <2>2. sock' = [sock EXCEPT ![c] = new1]
    BY <1>1, <1>9 DEF Bye, OnlySocket, Socket
  <2>3. /\ me.pc \notin {"none", "upgrading", "closed"}
        /\ UNCHANGED <<server, gone, cut, conn, present>>
    BY <1>9 DEF Bye, OnlySocket
  <2> HIDE DEF new1
  <2>4. QED
    BY <1>2, <2>1, <2>2, <2>3
<1>10. CASE PeerGone(c)
  <2> DEFINE new1 == [me EXCEPT !.pc = "joining"]
             new2 == [me EXCEPT !.pc = "closed"]
  <2>1. new1 \in Socket /\ new1.pc # "none" /\ new2 \in Socket /\ new2.pc # "none"
    BY <1>1, <1>10 DEF PeerGone, Socket, Pcs
  <2>2. sock' = [sock EXCEPT ![c] = new1] \/ sock' = [sock EXCEPT ![c] = new2]
    BY <1>1, <1>10 DEF PeerGone, OnlySocket, Socket
  <2>3. /\ me.pc \notin {"none", "upgrading", "closed"}
        /\ UNCHANGED <<server, gone, cut, conn, present>>
    BY <1>10 DEF PeerGone, OnlySocket
  <2> HIDE DEF new1, new2
  <2>4. QED
    BY <1>2, <2>1, <2>2, <2>3
<1>11. CASE Ingest(c)
  <2> DEFINE replies == Append(me.replies, "error")
             new == [me EXCEPT !.replies = replies]
  <2>1. me.replies \in Seq({"error", "close"}) /\ me.pc = "waiting"
    BY <1>1, <1>11 DEF Ingest, Socket
  <2>2. replies \in Seq({"error", "close"})
    BY <2>1
  <2>3. sock' = [sock EXCEPT ![c] = new]
    BY <1>11 DEF Ingest
  <2> HIDE DEF replies
  <2>4. new \in Socket /\ new.pc # "none"
    BY <1>1, <2>1, <2>2 DEF Socket, Pcs
  <2>5. me.pc \notin {"none", "upgrading", "closed"} /\ UNCHANGED <<server, gone, cut, conn, present>>
    BY <1>11 DEF Ingest, OnlySocket
  <2>6. QED
    BY <1>2, <2>3, <2>4, <2>5
<1>12. CASE IngestBreaks(c)
  <2> DEFINE new1 == [me EXCEPT !.pc = "telling"]
  <2>1. new1 \in Socket /\ new1.pc # "none"
    BY <1>1, <1>12 DEF IngestBreaks, Socket, Pcs
  <2>2. sock' = [sock EXCEPT ![c] = new1]
    BY <1>1, <1>12 DEF IngestBreaks, OnlySocket, Socket
  <2>3. /\ me.pc \notin {"none", "upgrading", "closed"}
        /\ UNCHANGED <<server, gone, cut, conn, present>>
    BY <1>12 DEF IngestBreaks, OnlySocket
  <2> HIDE DEF new1
  <2>4. QED
    BY <1>2, <2>1, <2>2, <2>3
<1>13. CASE Tell(c)
  <2> DEFINE replies == Append(me.replies, "close")
             new1 == [me EXCEPT !.pc = "joining"]
             new2 == [me EXCEPT !.pc = "joining", !.replies = replies]
  <2>1. me.replies \in Seq({"error", "close"})
    BY <1>1 DEF Socket
  <2>2. replies \in Seq({"error", "close"})
    BY <2>1
  <2>3. sock' = [sock EXCEPT ![c] = new1] \/ sock' = [sock EXCEPT ![c] = new2]
    BY <1>13 DEF Tell
  <2> HIDE DEF replies
  <2>4. new1 \in Socket /\ new1.pc # "none" /\ new2 \in Socket /\ new2.pc # "none"
    BY <1>1, <2>2 DEF Socket, Pcs
  <2>5. me.pc \notin {"none", "upgrading", "closed"} /\ UNCHANGED <<server, gone, cut, conn, present>>
    BY <1>13 DEF Tell, OnlySocket
  <2> HIDE DEF new1, new2
  <2>6. QED
    BY <1>2, <2>3, <2>4, <2>5
<1>14. CASE WriteReply(c)
  <2> DEFINE replies == Tail(me.replies)
             none == <<>>
             writer == Head(me.replies)
             new1 == [me EXCEPT !.writer = writer, !.replies = replies]
             new2 == [me EXCEPT !.writer = "closing"]
             new3 == [me EXCEPT !.writer = "idle"]
             new4 == [me EXCEPT !.writer = "ended", !.replies = none]
  <2>1. me.replies \in Seq({"error", "close"}) /\ none \in Seq({"error", "close"})
    BY <1>1 DEF Socket
  <2>2. me.replies # <<>> => replies \in Seq({"error", "close"}) /\ writer \in {"error", "close"}
    BY <2>1
  <2>3. /\ \/ me.replies # <<>> /\ sock' = [sock EXCEPT ![c] = new1]
           \/ sock' = [sock EXCEPT ![c] = new2] \/ sock' = [sock EXCEPT ![c] = new3]
           \/ sock' = [sock EXCEPT ![c] = new4]
        /\ me.pc \notin {"none", "upgrading", "closed"}
        /\ UNCHANGED <<server, gone, cut, conn, present>>
    BY <1>14 DEF WriteReply, OnlySocket
  <2> HIDE DEF replies, none, writer
  <2>4. me.replies # <<>> => new1 \in Socket /\ new1.pc = me.pc
    BY <1>1, <2>2 DEF Socket
  <2>5. /\ new2 \in Socket /\ new2.pc = me.pc
        /\ new3 \in Socket /\ new3.pc = me.pc
        /\ new4 \in Socket /\ new4.pc = me.pc
    BY <1>1, <2>1 DEF Socket
  <2> HIDE DEF new1, new2, new3, new4
  <2>6. QED
    BY <1>2, <2>3, <2>4, <2>5
<1>15. CASE JoinWriter(c)
  <2> DEFINE new1 == [me EXCEPT !.pc = "closed"]
  <2>1. new1 \in Socket /\ new1.pc # "none"
    BY <1>1, <1>15 DEF JoinWriter, Socket, Pcs
  <2>2. sock' = [sock EXCEPT ![c] = new1]
    BY <1>1, <1>15 DEF JoinWriter, OnlySocket, Socket
  <2>3. /\ me.pc \notin {"none", "upgrading", "closed"}
        /\ UNCHANGED <<server, gone, cut, conn, present>>
    BY <1>15 DEF JoinWriter, OnlySocket
  <2> HIDE DEF new1
  <2>4. QED
    BY <1>2, <2>1, <2>2, <2>3
<1>20. QED
  BY <1>3, <1>4, <1>5, <1>6, <1>7, <1>8, <1>9, <1>10, <1>11, <1>12, <1>13, <1>14, <1>15
     DEF SocketStep

(* A connection's step leaves sockets alone; one begins only while the     *)
(* server accepts.                                                         *)
LEMMA ConnAlone ==
  ASSUME Types, NEW c \in Conns, ConnStep(c)
  PROVE  /\ conn' \in [Conns -> Connection]
         /\ \A d \in Conns : d # c => conn'[d] = conn[d]
         /\ conn[c].pc \in {"none", "done"} => server = "serving"
         /\ conn'[c].pc # "switching"
         /\ UNCHANGED <<server, gone, cut, sock, present>>
<1>1. conn \in [Conns -> Connection] /\ conn[c] \in Connection
  BY DEF Types
<1>2. CASE Accept(c)
  BY <1>1, <1>2 DEF Accept, Connection
<1>3. CASE Sniff(c) \/ Request(c) \/ Respond(c) \/ HeadLate(c) \/ Hangup(c)
  BY <1>1, <1>3 DEF Sniff, Request, Respond, HeadLate, Hangup, Idle, Step, Connection
<1>4. CASE Graceful(c) \/ IdleClosed(c)
  <2>1. Finishes(c)
    BY <1>4 DEF Graceful, IdleClosed
  <2>2. \/ conn' = [conn EXCEPT ![c].pc = "done"]
        \/ conn' = [conn EXCEPT ![c].told = TRUE]
    BY <2>1 DEF Finishes, Step
  <2>3. conn[c].pc \in {"idle", "request"} /\ UNCHANGED <<server, gone, cut, sock, present>>
    BY <2>1 DEF Finishes
  <2> DEFINE new1 == [conn[c] EXCEPT !.pc = "done"]
             new2 == [conn[c] EXCEPT !.told = TRUE]
  <2>4. /\ new1 \in Connection /\ new1.pc = "done"
        /\ new2 \in Connection /\ new2.pc = conn[c].pc
    BY <1>1 DEF Connection
  <2>5. conn' = [conn EXCEPT ![c] = new1] \/ conn' = [conn EXCEPT ![c] = new2]
    BY <2>2
  <2> HIDE DEF new1, new2
  <2>6. QED
    BY <1>1, <2>3, <2>4, <2>5
<1>5. QED
  BY <1>2, <1>3, <1>4 DEF ConnStep

(* An upgrade makes a socket of a connection that had none; the connection *)
(* ends when the switch is over.                                           *)
LEMMA Upgrading ==
  ASSUME Types, NEW c \in Conns, Upgrade(c) \/ Switch(c)
  PROVE  /\ conn' \in [Conns -> Connection] /\ sock' \in [Conns -> Socket]
         /\ \A d \in Conns : d # c => conn'[d] = conn[d] /\ sock'[d] = sock[d]
         /\ conn[c].pc \in {"request", "switching"}
         /\ Upgrade(c) => sock[c].pc = "none" /\ sock'[c].pc = "upgrading"
         /\ Switch(c) => /\ conn[c].pc = "switching" /\ conn'[c].pc = "done"
                         /\ sock'[c].pc \in {"opening", "closed"}
         /\ UNCHANGED <<server, gone, cut, present>>
<1>1. conn \in [Conns -> Connection] /\ sock \in [Conns -> Socket] /\ sock[c] \in Socket
  BY DEF Types
<1>2. CASE Upgrade(c)
  <2>1. PICK mode \in {"Ingest", "Stream", "Agent"} :
           sock' = [sock EXCEPT ![c].pc = "upgrading", ![c].mode = mode]
    BY <1>2 DEF Upgrade
  <2>2. sock' \in [Conns -> Socket] /\ sock'[c].pc = "upgrading"
    BY <1>1, <2>1 DEF Socket, Pcs
  <2>3. conn' \in [Conns -> Connection]
    BY <1>1, <1>2 DEF Upgrade, Connection
  <2>4. QED
    BY <1>1, <1>2, <2>1, <2>2, <2>3 DEF Upgrade, Switch
<1>3. CASE Switch(c)
  <2> DEFINE new1 == [sock[c] EXCEPT !.pc = "opening"]
             new2 == [sock[c] EXCEPT !.pc = "closed"]
  <2>a. new1 \in Socket /\ new1.pc = "opening" /\ new2 \in Socket /\ new2.pc = "closed"
    BY <1>1 DEF Socket, Pcs
  <2>b. sock' = [sock EXCEPT ![c] = new1] \/ sock' = [sock EXCEPT ![c] = new2]
    BY <1>3 DEF Switch
  <2> HIDE DEF new1, new2
  <2>1. sock' \in [Conns -> Socket] /\ sock'[c].pc \in {"opening", "closed"}
    BY <1>1, <2>a, <2>b
  <2>2. /\ conn' \in [Conns -> Connection]
        /\ conn[c].pc = "switching" /\ conn'[c].pc = "done"
    BY <1>1, <1>3 DEF Switch, Connection
  <2>3. QED
    BY <1>1, <1>3, <2>1, <2>2 DEF Upgrade, Switch
<1>4. QED
  BY <1>2, <1>3

-----------------------------------------------------------------------------
(* What the drain waited for *)

(* A half of the join that has resolved stays true: a connection begins    *)
(* only while the server accepts, and a socket that was open when the      *)
(* sockets were told does not open a second time.                          *)
Waited ==
    /\ \A c \in Conns : conn[c].pc = "switching" => sock[c].pc = "upgrading"
    /\ \A c \in present : sock[c].pc # "none"
    /\ "conns" \in gone => Stop /\ OpenConns = {}
    /\ "sockets" \in gone => GoingAway /\ present \cap OpenSocks = {}
    /\ server = "exited" /\ ~cut => Drained

WaitInv == Types /\ Waited

LEMMA WaitInit == Init => WaitInv
<1> SUFFICES ASSUME Init PROVE WaitInv
  OBVIOUS
<1>1. NoSocket \in Socket
  <2>1. <<>> \in Seq(Nat) /\ <<>> \in Seq({"error", "close"})
    OBVIOUS
  <2>2. QED
    BY <2>1 DEF NoSocket, Socket, Pcs
<1>2. [pc |-> "none", told |-> FALSE] \in Connection
  BY DEF Connection
<1>3. Types
  BY <1>1, <1>2 DEF Init, Types
<1>4. QED
  BY <1>3 DEF Init, WaitInv, Waited

LEMMA WaitStep == WaitInv /\ [Next]_vars => WaitInv'
<1> SUFFICES ASSUME WaitInv, [Next]_vars PROVE WaitInv'
  OBVIOUS
<1>t. Types /\ Waited
  BY DEF WaitInv
<1>1. CASE UNCHANGED vars
  BY <1>t, <1>1 DEF vars, WaitInv, Types, Waited, Stop, GoingAway, OpenConns, OpenSocks, Drained
<1>2. CASE ServerStep
  <2>1. CASE CloseSockets
    BY <1>t, <2>1 DEF CloseSockets, WaitInv, Types, Waited, Stop, GoingAway, OpenConns, OpenSocks
  <2>2. CASE Signal \/ ConnsGone \/ SocketsGone \/ Exit \/ CutOff
    BY <1>t, <2>2 DEF Signal, ConnsGone, SocketsGone, Exit, CutOff, WaitInv, Types, Waited, Stop,
                      GoingAway, OpenConns, OpenSocks, Drained
  <2>3. QED
    BY <1>2, <2>1, <2>2 DEF ServerStep
<1>3. ASSUME NEW c \in Conns, SocketStep(c) PROVE WaitInv'
  <2>1. /\ sock[c].pc \notin {"none", "upgrading", "closed"} /\ sock'[c].pc # "none"
        /\ sock' \in [Conns -> Socket]
        /\ \A d \in Conns : d # c => sock'[d] = sock[d]
        /\ UNCHANGED <<server, gone, cut, conn, present>>
    BY <1>t, <1>3, SocketAlone
  <2>2. OpenSocks' \subseteq OpenSocks
    BY <2>1 DEF OpenSocks
  <2>3. /\ \A d \in present' : sock'[d].pc # "none"
        /\ \A d \in Conns : conn'[d].pc = "switching" => sock'[d].pc = "upgrading"
    BY <1>t, <2>1 DEF Types, Waited
  <2>4. QED
    BY <1>t, <2>1, <2>2, <2>3 DEF WaitInv, Types, Waited, Stop, GoingAway, OpenConns, Drained
<1>4. ASSUME NEW c \in Conns, ConnStep(c) PROVE WaitInv'
  <2>1. /\ conn' \in [Conns -> Connection]
        /\ \A d \in Conns : d # c => conn'[d] = conn[d]
        /\ conn[c].pc \in {"none", "done"} => server = "serving"
        /\ conn'[c].pc # "switching"
        /\ UNCHANGED <<server, gone, cut, sock, present>>
    BY <1>t, <1>4, ConnAlone
  <2>2. "conns" \notin gone
    BY <1>t, <2>1 DEF Waited, Stop, OpenConns
  <2>3. QED
    BY <1>t, <2>1, <2>2 DEF WaitInv, Types, Waited, Stop, GoingAway, OpenSocks, Drained
<1>5. ASSUME NEW c \in Conns, Upgrade(c) \/ Switch(c) PROVE WaitInv'
  <2>1. /\ conn' \in [Conns -> Connection] /\ sock' \in [Conns -> Socket]
        /\ \A d \in Conns : d # c => conn'[d] = conn[d] /\ sock'[d] = sock[d]
        /\ conn[c].pc \in {"request", "switching"}
        /\ Upgrade(c) => sock[c].pc = "none" /\ sock'[c].pc = "upgrading"
        /\ Switch(c) => /\ conn[c].pc = "switching" /\ conn'[c].pc = "done"
                        /\ sock'[c].pc \in {"opening", "closed"}
        /\ UNCHANGED <<server, gone, cut, present>>
    BY <1>t, <1>5, Upgrading
  <2>2. "conns" \notin gone
    BY <1>t, <2>1 DEF Waited, OpenConns
  <2>3. c \in present => Switch(c)
    BY <1>t, <1>5, <2>1 DEF Waited
  <2>4. QED
    <3>1. OpenSocks' \subseteq OpenSocks \cup {c} /\ (Switch(c) => OpenSocks' \subseteq OpenSocks)
      BY <1>t, <2>1 DEF OpenSocks, Waited
    <3>2. present \cap OpenSocks' \subseteq present \cap OpenSocks
      BY <1>5, <2>3, <3>1
    <3>3. \A d \in Conns : conn'[d].pc = "switching" => sock'[d].pc = "upgrading"
      BY <1>t, <1>5, <2>1 DEF Waited
    <3>4. \A d \in present : sock'[d].pc # "none"
      BY <1>t, <1>5, <2>1 DEF Waited, Types
    <3>5. QED
      BY <1>t, <2>1, <2>2, <3>2, <3>3, <3>4 DEF WaitInv, Types, Waited, Stop, GoingAway, Drained
<1>6. QED
  BY <1>1, <1>2, <1>3, <1>4, <1>5, Parts

(* A deploy does not sever what was under way: unless the drain timed out, *)
(* the server exits (serve_with_shutdown) only when every connection has   *)
(* ended, and every socket that was open when the sockets were told.       *)
THEOREM DrainWaited == Spec => []DrainWaits
<1>1. WaitInv => DrainWaits
  BY DEF WaitInv, Waited, DrainWaits, Drained
<1>2. QED
  BY <1>1, WaitInit, WaitStep, PTL DEF Spec

-----------------------------------------------------------------------------
(* What becomes of a client's turns *)

Elems(q) == {q[i] : i \in DOMAIN q}

Increasing(q) == \A i, j \in DOMAIN q : i < j => q[i] < q[j]

Below(A, B) == \A x \in A, y \in B : x < y

LEMMA AppendIncreasing ==
  ASSUME NEW q \in Seq(Nat), NEW x \in Nat, Increasing(q), Below(Elems(q), {x})
  PROVE  Increasing(Append(q, x)) /\ Elems(Append(q, x)) = Elems(q) \cup {x}
<1> DEFINE r == Append(q, x)
<1>1. /\ DOMAIN q = 1..Len(q) /\ DOMAIN r = 1..(Len(q) + 1) /\ Len(q) \in Nat
      /\ \A i \in DOMAIN q : r[i] = q[i] /\ r[i] < x
      /\ r[Len(q) + 1] = x
  BY DEF Below, Elems
<1> HIDE DEF r
<1>2. Increasing(r)
  BY <1>1 DEF Increasing
<1>3. \A i \in DOMAIN r : i \in DOMAIN q \/ i = Len(q) + 1
  BY <1>1
<1>4. DOMAIN q \subseteq DOMAIN r /\ Len(q) + 1 \in DOMAIN r
  BY <1>1
<1>5. Elems(r) = Elems(q) \cup {x}
  BY <1>1, <1>3, <1>4 DEF Elems
<1>6. QED
  BY <1>2, <1>5 DEF r

LEMMA TailIncreasing ==
  ASSUME NEW q \in Seq(Nat), q # <<>>, Increasing(q)
  PROVE  /\ Head(q) \in Nat /\ Tail(q) \in Seq(Nat)
         /\ Increasing(Tail(q)) /\ Below({Head(q)}, Elems(Tail(q)))
         /\ Elems(q) = {Head(q)} \cup Elems(Tail(q))
<1> DEFINE h == Head(q)
           r == Tail(q)
<1>1. /\ h \in Nat /\ r \in Seq(Nat) /\ h = q[1]
      /\ DOMAIN q = 1..Len(q) /\ DOMAIN r = 1..(Len(q) - 1) /\ Len(q) \in Nat \ {0}
      /\ \A i \in DOMAIN r : r[i] = q[i + 1]
  OBVIOUS
<1> HIDE DEF h, r
<1>2. \A i \in DOMAIN r : i + 1 \in DOMAIN q /\ 1 < i + 1
  BY <1>1, SMTT(30)
<1>a. Increasing(r)
  BY <1>1, <1>2 DEF Increasing
<1>b. Below({h}, Elems(r))
  <2>1. ASSUME NEW i \in DOMAIN r PROVE h < r[i]
    <3>1. 1 \in DOMAIN q /\ i + 1 \in DOMAIN q /\ 1 < i + 1
      BY <1>1, <1>2
    <3>2. q[1] < q[i + 1]
      BY <3>1 DEF Increasing
    <3>3. QED
      BY <1>1, <3>2
  <2>2. QED
    BY <2>1 DEF Below, Elems
<1>3. \A i \in DOMAIN q : i = 1 \/ (i - 1 \in DOMAIN r /\ q[i] = r[i - 1])
  <2>1. SUFFICES ASSUME NEW i \in DOMAIN q, i # 1
                 PROVE  i - 1 \in DOMAIN r /\ q[i] = r[i - 1]
    OBVIOUS
  <2>2. i - 1 \in DOMAIN r /\ (i - 1) + 1 = i
    BY <1>1, <2>1
  <2>3. QED
    BY <1>1, <2>2
<1>4. 1 \in DOMAIN q /\ \A i \in DOMAIN r : i + 1 \in DOMAIN q
  BY <1>1
<1>5. Elems(q) = {h} \cup Elems(r)
  <2>1. Elems(q) \subseteq {h} \cup Elems(r)
    BY <1>1, <1>3, SMTT(30) DEF Elems
  <2>2. {h} \cup Elems(r) \subseteq Elems(q)
    BY <1>1, <1>4 DEF Elems
  <2>3. QED
    BY <2>1, <2>2
<1>6. QED
  BY <1>1, <1>a, <1>b, <1>5 DEF h, r

LEMMA ConcatIncreasing ==
  ASSUME NEW p \in Seq(Nat), NEW q \in Seq(Nat), Increasing(p), Increasing(q),
         Below(Elems(p), Elems(q))
  PROVE  p \o q \in Seq(Nat) /\ Increasing(p \o q) /\ Elems(p \o q) = Elems(p) \cup Elems(q)
<1> DEFINE r == p \o q
<1>1. /\ r \in Seq(Nat) /\ Len(p) \in Nat /\ Len(q) \in Nat
      /\ DOMAIN p = 1..Len(p) /\ DOMAIN q = 1..Len(q) /\ DOMAIN r = 1..(Len(p) + Len(q))
      /\ \A i \in DOMAIN p : r[i] = p[i]
      /\ \A i \in DOMAIN q : r[Len(p) + i] = q[i]
  OBVIOUS
<1> HIDE DEF r
<1>2. \A i \in DOMAIN r : \/ i \in DOMAIN p /\ r[i] = p[i]
                          \/ i > Len(p) /\ i - Len(p) \in DOMAIN q /\ r[i] = q[i - Len(p)]
  <2>1. SUFFICES ASSUME NEW i \in DOMAIN r, i \notin DOMAIN p
                 PROVE  i > Len(p) /\ i - Len(p) \in DOMAIN q /\ r[i] = q[i - Len(p)]
    BY <1>1
  <2>2. i > Len(p) /\ i - Len(p) \in DOMAIN q /\ Len(p) + (i - Len(p)) = i
    BY <1>1, <2>1
  <2>3. r[Len(p) + (i - Len(p))] = q[i - Len(p)]
    BY <1>1, <2>2
  <2>4. QED
    BY <2>2, <2>3
<1>3. DOMAIN p \subseteq DOMAIN r /\ \A i \in DOMAIN q : Len(p) + i \in DOMAIN r
  BY <1>1
<1>4. Elems(r) = Elems(p) \cup Elems(q)
  <2>1. Elems(r) \subseteq Elems(p) \cup Elems(q)
    BY <1>2 DEF Elems
  <2>2. Elems(p) \cup Elems(q) \subseteq Elems(r)
    BY <1>1, <1>3 DEF Elems
  <2>3. QED
    BY <2>1, <2>2
<1>5. Increasing(r)
  <2>1. SUFFICES ASSUME NEW i \in DOMAIN r, NEW j \in DOMAIN r, i < j PROVE r[i] < r[j]
    BY DEF Increasing
  <2>2. CASE j \in DOMAIN p
    <3>1. i \in DOMAIN p
      BY <1>1, <2>1, <2>2
    <3>2. p[i] < p[j] /\ r[i] = p[i] /\ r[j] = p[j]
      BY <1>1, <2>1, <2>2, <3>1 DEF Increasing
    <3>3. QED
      BY <3>2
  <2>3. CASE i \notin DOMAIN p
    <3> DEFINE a == i - Len(p)
               b == j - Len(p)
    <3>1. j \notin DOMAIN p
      BY <1>1, <2>1, <2>3
    <3>2. a \in DOMAIN q /\ b \in DOMAIN q /\ r[i] = q[a] /\ r[j] = q[b]
      BY <1>2, <2>1, <2>3, <3>1
    <3>3. a < b
      BY <1>1, <2>1
    <3> HIDE DEF a, b
    <3>4. QED
      BY <3>2, <3>3 DEF Increasing
  <2>4. CASE i \in DOMAIN p /\ j \notin DOMAIN p
    BY <1>1, <1>2, <2>4 DEF Below, Elems
  <2>5. QED
    BY <2>2, <2>3, <2>4
<1>6. QED
  BY <1>1, <1>4, <1>5 DEF r

(* The turn under way, as a sequence. *)
Under(s) == IF s.turn = 0 THEN <<>> ELSE <<s.turn>>

(* A socket's turns: answered, under way, queued, refused.  One that waits *)
(* for a turn has none queued.                                             *)
Kept(s) ==
    /\ s.pc = "turn" <=> s.turn # 0
    /\ s.pc \in {"none", "upgrading", "opening", "waiting"} => s.queue = <<>>
    /\ Increasing(s.done) /\ Increasing(s.queue)
    /\ Below(Elems(s.done), Elems(Under(s)))
    /\ Below(Elems(s.done), Elems(s.queue))
    /\ Below(Elems(Under(s)), Elems(s.queue))
    /\ Elems(s.done) \cup Elems(Under(s)) \cup Elems(s.queue) \cup s.refused = 1..s.sent
    /\ (Elems(s.done) \cup Elems(Under(s)) \cup Elems(s.queue)) \cap s.refused = {}

TurnsInv == Types /\ \A c \in Conns : sock[c].pc # "closed" => Kept(sock[c])

LEMMA UnderElems ==
  ASSUME NEW s \in Socket
  PROVE  /\ Under(s) \in Seq(Nat) /\ Increasing(Under(s))
         /\ Elems(Under(s)) = IF s.turn = 0 THEN {} ELSE {s.turn}
<1>1. s.turn \in Nat
  BY DEF Socket
<1>2. CASE s.turn = 0
  BY <1>2 DEF Under, Increasing, Elems
<1>3. CASE s.turn # 0
  <2>1. Under(s) = <<s.turn>> /\ DOMAIN <<s.turn>> = {1} /\ <<s.turn>>[1] = s.turn
    BY <1>3 DEF Under
  <2>2. QED
    BY <1>1, <1>3, <2>1 DEF Increasing, Elems
<1>4. QED
  BY <1>2, <1>3

(* TurnsKept, of one socket. *)
LEMMA LineKept ==
  ASSUME NEW s \in Socket, Kept(s)
  PROVE  LET line == s.done \o Under(s) \o s.queue
         IN  /\ \A i, j \in DOMAIN line : i < j => line[i] < line[j]
             /\ {line[i] : i \in DOMAIN line} \cup s.refused = 1..s.sent
             /\ {line[i] : i \in DOMAIN line} \cap s.refused = {}
<1> DEFINE front == s.done \o Under(s)
           line == front \o s.queue
<1>1. s.done \in Seq(Nat) /\ s.queue \in Seq(Nat)
  BY DEF Socket
<1>2. /\ front \in Seq(Nat) /\ Increasing(front)
      /\ Elems(front) = Elems(s.done) \cup Elems(Under(s))
  BY <1>1, UnderElems, ConcatIncreasing DEF Kept
<1>3. Below(Elems(front), Elems(s.queue))
  BY <1>2 DEF Below, Kept
<1> HIDE DEF front
<1>4. Increasing(line) /\ Elems(line) = Elems(front) \cup Elems(s.queue)
  BY <1>1, <1>2, <1>3, ConcatIncreasing DEF Kept
<1>5. line = s.done \o Under(s) \o s.queue
  BY DEF front
<1> HIDE DEF line
<1>6. Elems(line) \cup s.refused = 1..s.sent /\ Elems(line) \cap s.refused = {}
  BY <1>2, <1>4 DEF Kept
<1>7. QED
  BY <1>4, <1>5, <1>6 DEF Increasing, Elems

(* A step that leaves a socket's turns as they are. *)
Carried(s, t) ==
    /\ t.sent = s.sent /\ t.turn = s.turn /\ t.queue = s.queue /\ t.done = s.done
    /\ t.refused = s.refused
    /\ s.pc # "turn" /\ t.pc # "turn"
    /\ t.pc \in {"none", "upgrading", "opening", "waiting"} => s.queue = <<>>

LEMMA CarriedKept ==
  ASSUME NEW s \in Socket, NEW t \in Socket, Kept(s), Carried(s, t)
  PROVE  Kept(t)
<1>1. Under(t) = Under(s)
  BY DEF Under, Carried
<1>2. QED
  BY <1>1 DEF Kept, Carried

(* The steps of a socket that its turns are none of. *)
LEMMA OtherSteps ==
  ASSUME Types, NEW c \in Conns, Kept(sock[c]),
         \/ Open(c) \/ Stopped(c) \/ Bye(c) \/ PeerGone(c) \/ Ingest(c) \/ IngestBreaks(c)
         \/ Tell(c) \/ WriteReply(c) \/ JoinWriter(c)
  PROVE  sock'[c].pc = "closed" \/ Carried(sock[c], sock'[c])
<1> DEFINE me == sock[c]
<1>1. sock \in [Conns -> Socket] /\ me \in Socket
  BY DEF Types
<1>2. CASE Open(c) \/ Stopped(c) \/ Bye(c) \/ IngestBreaks(c) \/ JoinWriter(c)
  <2>1. PICK pc : sock' = [sock EXCEPT ![c] = [me EXCEPT !.pc = pc]] /\ me.pc # "turn" /\ pc # "turn"
                  /\ (pc = "waiting" => me.pc = "opening") /\ pc \notin {"none", "upgrading", "opening"}
    BY <1>1, <1>2 DEF Open, Stopped, Bye, IngestBreaks, JoinWriter
  <2>2. QED
    BY <1>1, <2>1 DEF Socket, Carried, Kept
<1>3. CASE PeerGone(c)
  <2>1. \/ sock' = [sock EXCEPT ![c] = [me EXCEPT !.pc = "closed"]]
        \/ me.pc = "waiting" /\ sock' = [sock EXCEPT ![c] = [me EXCEPT !.pc = "joining"]]
    BY <1>3 DEF PeerGone
  <2>2. QED
    BY <1>1, <2>1 DEF Socket, Carried
<1>4. CASE Ingest(c)
  <2>1. sock' = [sock EXCEPT ![c] = [me EXCEPT !.replies = Append(me.replies, "error")]]
        /\ me.pc = "waiting"
    BY <1>4 DEF Ingest
  <2>2. QED
    BY <1>1, <2>1 DEF Socket, Carried, Kept
<1>5. CASE Tell(c)
  <2> DEFINE replies == Append(me.replies, "close")
             new1 == [me EXCEPT !.pc = "joining"]
             new2 == [me EXCEPT !.pc = "joining", !.replies = replies]
  <2>1. sock'[c] = new1 \/ sock'[c] = new2
    BY <1>1, <1>5 DEF Tell
  <2>2. me.pc = "telling"
    BY <1>5 DEF Tell
  <2> HIDE DEF replies
  <2>3. Carried(me, new1) /\ Carried(me, new2)
    BY <1>1, <2>2 DEF Socket, Carried
  <2> HIDE DEF new1, new2
  <2>4. QED
    BY <2>1, <2>3
<1>6. CASE WriteReply(c)
  <2> DEFINE writer == Head(me.replies)
             replies == Tail(me.replies)
             none == <<>>
             new1 == [me EXCEPT !.writer = writer, !.replies = replies]
             new2 == [me EXCEPT !.writer = "closing"]
             new3 == [me EXCEPT !.writer = "idle"]
             new4 == [me EXCEPT !.writer = "ended", !.replies = none]
  <2>1. sock'[c] = new1 \/ sock'[c] = new2 \/ sock'[c] = new3 \/ sock'[c] = new4
    BY <1>1, <1>6 DEF WriteReply
  <2>2. me.pc \in {"waiting", "telling", "joining"}
    BY <1>6 DEF WriteReply
  <2> HIDE DEF writer, replies, none
  <2>3. me.pc = "waiting" => me.queue = <<>>
    BY DEF Kept
  <2>4. Carried(me, new1) /\ Carried(me, new2) /\ Carried(me, new3) /\ Carried(me, new4)
    BY <1>1, <2>2, <2>3 DEF Socket, Carried
  <2> HIDE DEF new1, new2, new3, new4
  <2>5. QED
    BY <2>1, <2>4
<1>7. QED
  BY <1>2, <1>3, <1>4, <1>5, <1>6

(* The steps a socket's turns are made of. *)
LEMMA TurnSteps ==
  ASSUME Types, NEW c \in Conns, Kept(sock[c]),
         Top(c) \/ Hear(c) \/ HearDuringTurn(c) \/ Reply(c)
  PROVE  Kept(sock'[c])
<1> DEFINE s == sock[c]
           t == sock'[c]
<1>1. /\ sock \in [Conns -> Socket] /\ s \in Socket /\ t \in Socket
      /\ s.queue \in Seq(Nat) /\ s.done \in Seq(Nat) /\ s.turn \in Nat /\ s.sent \in Nat
      /\ s.refused \subseteq Nat
  BY SocketAlone DEF Types, Socket, SocketStep
<1>2. Elems(Under(s)) = IF s.turn = 0 THEN {} ELSE {s.turn}
  BY <1>1, UnderElems
<1>3. Elems(Under(t)) = IF t.turn = 0 THEN {} ELSE {t.turn}
  BY <1>1, UnderElems
<1>4. Elems(<<>>) = {} /\ Increasing(<<>>)
  BY DEF Elems, Increasing
<1>5. CASE Top(c)
  <2>1. CASE ~GoingAway /\ s.queue # <<>>
    <3>1. t = [s EXCEPT !.pc = "turn", !.turn = Head(s.queue), !.sent = s.sent,
                        !.queue = Tail(s.queue)]
      BY <1>1, <1>5, <2>1 DEF Top, BeginTurn
    <3>2. /\ s.pc = "top" /\ s.turn = 0
          /\ t.pc = "turn" /\ t.turn = Head(s.queue) /\ t.queue = Tail(s.queue)
          /\ t.done = s.done /\ t.sent = s.sent /\ t.refused = s.refused
      BY <1>1, <1>5, <3>1 DEF Top, Socket, Kept
    <3>3. /\ Head(s.queue) \in Nat /\ Increasing(t.queue)
          /\ Below({t.turn}, Elems(t.queue)) /\ Elems(s.queue) = {t.turn} \cup Elems(t.queue)
      BY <1>1, <2>1, <3>2, TailIncreasing DEF Kept
    <3>4. t.turn \in 1..s.sent
      BY <3>3 DEF Kept
    <3>5. t.turn # 0 /\ Elems(Under(t)) = {t.turn} /\ Elems(Under(s)) = {}
      BY <1>1, <1>2, <1>3, <3>2, <3>4
    <3>6. QED
      BY <3>2, <3>3, <3>5 DEF Kept, Below
  <2>2. CASE ~(~GoingAway /\ s.queue # <<>>)
    <3>1. sock' = [sock EXCEPT ![c] = [s EXCEPT !.pc = IF GoingAway THEN "bye" ELSE "waiting"]]
          /\ s.pc = "top"
      BY <1>5, <2>2 DEF Top
    <3>2. Carried(s, t)
      BY <1>1, <2>2, <3>1 DEF Socket, Carried
    <3>3. QED
      BY <1>1, <3>2, CarriedKept
  <2>3. QED
    BY <2>1, <2>2
<1>6. CASE Hear(c)
  <2> DEFINE next == s.sent + 1
  <2>1. t = [s EXCEPT !.pc = "turn", !.turn = next, !.sent = next, !.queue = <<>>]
    BY <1>1, <1>6 DEF Hear, BeginTurn
  <2>2. /\ s.pc = "waiting" /\ s.turn = 0 /\ s.queue = <<>>
        /\ t.pc = "turn" /\ t.turn = next /\ t.queue = <<>>
        /\ t.done = s.done /\ t.sent = next /\ t.refused = s.refused
    BY <1>1, <1>6, <2>1 DEF Hear, Socket, Kept
  <2>3. 1..next = 1..s.sent \cup {next} /\ next \notin 1..s.sent /\ next # 0
        /\ \A x \in 1..s.sent : x < next
    BY <1>1
  <2> HIDE DEF next
  <2>4. /\ Elems(Under(t)) = {next} /\ Elems(Under(s)) = {} /\ Elems(s.queue) = {}
        /\ Elems(t.queue) = {}
    BY <1>2, <1>3, <1>4, <2>2, <2>3
  <2>5. Elems(s.done) \cup s.refused = 1..s.sent /\ Elems(s.done) \cap s.refused = {}
    BY <2>4 DEF Kept
  <2>6. QED
    BY <1>4, <2>2, <2>3, <2>4, <2>5 DEF Kept, Below
<1>7. CASE HearDuringTurn(c)
  <2> DEFINE next == s.sent + 1
  <2>1. /\ s.pc = "turn" /\ t.pc = "turn" /\ t.turn = s.turn /\ t.done = s.done /\ t.sent = next
        /\ \/ t.queue = Append(s.queue, next) /\ t.refused = s.refused
           \/ t.queue = s.queue /\ t.refused = s.refused \cup {next}
    BY <1>1, <1>7 DEF HearDuringTurn, Queued, Socket
  <2>2. 1..next = 1..s.sent \cup {next} /\ next \notin 1..s.sent /\ next \in Nat
        /\ \A x \in 1..s.sent : x < next
    BY <1>1
  <2> HIDE DEF next
  <2>3. Elems(Under(t)) = Elems(Under(s))
    BY <1>2, <1>3, <2>1
  <2>4. Below(Elems(s.queue), {next})
    BY <2>2 DEF Kept, Below
  <2>5. /\ Increasing(Append(s.queue, next))
        /\ Elems(Append(s.queue, next)) = Elems(s.queue) \cup {next}
    BY <1>1, <2>2, <2>4, AppendIncreasing DEF Kept
  <2>6. Below(Elems(s.done), {next}) /\ Below(Elems(Under(s)), {next})
    BY <2>2 DEF Kept, Below
  <2>7. CASE t.queue = Append(s.queue, next) /\ t.refused = s.refused
    BY <2>1, <2>2, <2>3, <2>5, <2>6, <2>7 DEF Kept, Below
  <2>8. CASE t.queue = s.queue /\ t.refused = s.refused \cup {next}
    BY <2>1, <2>2, <2>3, <2>8 DEF Kept
  <2>9. QED
    BY <2>1, <2>7, <2>8
<1>8. CASE Reply(c)
  <2>1. t = [s EXCEPT !.pc = "top", !.turn = 0, !.done = Append(s.done, s.turn)]
    BY <1>1, <1>8 DEF Reply
  <2>2. /\ s.pc = "turn" /\ s.turn # 0
        /\ t.pc = "top" /\ t.turn = 0 /\ t.queue = s.queue
        /\ t.done = Append(s.done, s.turn) /\ t.sent = s.sent /\ t.refused = s.refused
    BY <1>1, <1>8, <2>1 DEF Reply, Socket, Kept
  <2>3. Elems(Under(t)) = {} /\ Elems(Under(s)) = {s.turn}
    BY <1>2, <1>3, <2>2
  <2>4. Increasing(t.done) /\ Elems(t.done) = Elems(s.done) \cup {s.turn}
    <3>1. Increasing(s.done) /\ Below(Elems(s.done), {s.turn})
      BY <2>3 DEF Kept
    <3>2. QED
      BY <1>1, <2>2, <3>1, AppendIncreasing
  <2>5. QED
    BY <2>2, <2>3, <2>4 DEF Kept, Below
<1>9. QED
  BY <1>5, <1>6, <1>7, <1>8

LEMMA TurnsInit == Init => TurnsInv
<1> SUFFICES ASSUME Init PROVE TurnsInv
  OBVIOUS
<1>1. Types
  BY WaitInit DEF WaitInv
<1>2. Kept(NoSocket)
  <2>1. NoSocket.turn = 0 /\ NoSocket.sent = 0 /\ NoSocket.refused = {} /\ NoSocket.pc = "none"
        /\ NoSocket.done = <<>> /\ NoSocket.queue = <<>>
    BY DEF NoSocket
  <2>2. Under(NoSocket) = <<>>
    BY <2>1 DEF Under
  <2>3. Elems(<<>>) = {} /\ Increasing(<<>>)
    BY DEF Elems, Increasing
  <2>4. QED
    BY <2>1, <2>2, <2>3 DEF Kept, Below
<1>3. QED
  BY <1>1, <1>2 DEF Init, TurnsInv

LEMMA TurnsStep == TurnsInv /\ [Next]_vars /\ WaitInv /\ WaitInv' => TurnsInv'
<1> SUFFICES ASSUME TurnsInv, [Next]_vars, WaitInv, WaitInv' PROVE TurnsInv'
  OBVIOUS
<1>t. Types /\ Types' /\ Waited
  BY DEF WaitInv
<1>1. CASE UNCHANGED vars \/ ServerStep
  <2>1. UNCHANGED sock
    BY <1>1 DEF vars, ServerStep, Signal, CloseSockets, ConnsGone, SocketsGone, Exit, CutOff
  <2>2. QED
    BY <1>t, <2>1 DEF TurnsInv
<1>2. ASSUME NEW c \in Conns, SocketStep(c) PROVE TurnsInv'
  <2>1. /\ sock[c].pc # "closed" /\ sock[c] \in Socket /\ sock'[c] \in Socket
        /\ \A d \in Conns : d # c => sock'[d] = sock[d]
    BY <1>t, <1>2, SocketAlone DEF Types
  <2>2. Kept(sock[c])
    BY <2>1 DEF TurnsInv
  <2>3. sock'[c].pc = "closed" \/ Kept(sock'[c])
    <3>1. CASE Top(c) \/ Hear(c) \/ HearDuringTurn(c) \/ Reply(c)
      BY <1>t, <2>2, <3>1, TurnSteps
    <3>2. CASE \/ Open(c) \/ Stopped(c) \/ Bye(c) \/ PeerGone(c) \/ Ingest(c) \/ IngestBreaks(c)
               \/ Tell(c) \/ WriteReply(c) \/ JoinWriter(c)
      <4>1. sock'[c].pc = "closed" \/ Carried(sock[c], sock'[c])
        BY <1>t, <2>2, <3>2, OtherSteps
      <4>2. QED
        BY <2>1, <2>2, <4>1, CarriedKept
    <3>3. QED
      BY <1>2, <3>1, <3>2 DEF SocketStep
  <2>4. QED
    BY <1>t, <2>1, <2>3 DEF TurnsInv
<1>3. ASSUME NEW c \in Conns, ConnStep(c) PROVE TurnsInv'
  BY <1>t, <1>3, ConnAlone DEF TurnsInv
<1>4. ASSUME NEW c \in Conns, Upgrade(c) \/ Switch(c) PROVE TurnsInv'
  <2>1. /\ \A d \in Conns : d # c => sock'[d] = sock[d]
        /\ Switch(c) => conn[c].pc = "switching"
    BY <1>t, <1>4, Upgrading
  <2>2. sock \in [Conns -> Socket] /\ sock[c] \in Socket /\ sock'[c] \in Socket
    BY <1>t DEF Types
  <2>3. sock[c].pc \in {"none", "upgrading"} /\ Kept(sock[c])
    BY <1>t, <1>4, <2>1 DEF Upgrade, Waited, TurnsInv
  <2>4. sock'[c].pc = "closed" \/ Carried(sock[c], sock'[c])
    <3>1. CASE Upgrade(c)
      BY <2>2, <2>3, <3>1 DEF Upgrade, Socket, Carried, Kept
    <3>2. CASE Switch(c)
      BY <2>2, <2>3, <3>2 DEF Switch, Socket, Carried, Kept
    <3>3. QED
      BY <1>4, <3>1, <3>2
  <2>5. QED
    BY <1>t, <2>1, <2>2, <2>3, <2>4, CarriedKept DEF TurnsInv
<1>5. QED
  BY <1>1, <1>2, <1>3, <1>4, Parts

(* No turn is lost, answered twice or out of order (agent_session): while  *)
(* a socket is open, each turn its client sent was answered in order,      *)
(* refused, is running, or waits for its turn.                             *)
THEOREM NoTurnLost == Spec => []TurnsKept
<1>1. TurnsInv => TurnsKept
  <2> SUFFICES ASSUME TurnsInv, NEW c \in OpenSocks
               PROVE  LET s == sock[c]
                          line == s.done \o (IF s.turn = 0 THEN <<>> ELSE <<s.turn>>) \o s.queue
                      IN  /\ \A i, j \in DOMAIN line : i < j => line[i] < line[j]
                          /\ {line[i] : i \in DOMAIN line} \cup s.refused = 1..s.sent
                          /\ {line[i] : i \in DOMAIN line} \cap s.refused = {}
    BY DEF TurnsKept
  <2>1. sock[c] \in Socket /\ Kept(sock[c])
    BY DEF OpenSocks, TurnsInv, Types
  <2>2. QED
    BY <2>1, LineKept DEF Under
<1>2. QED
  BY <1>1, WaitInit, WaitStep, TurnsInit, TurnsStep, PTL DEF Spec

-----------------------------------------------------------------------------
(* WorkerPool: for any pool, ceiling and requests. *)

Shape == job \in Seq(JobRecord) /\ halted \in BOOLEAN /\ frozen \subseteq Used

(* What the stop caught is still queued, or was refused. *)
Caught ==
    /\ frozen # {} => halted
    /\ \A j \in frozen : /\ job[j].kind = "actuator"
                         /\ job[j].st \in {"queued", "done"}
                         /\ ~job[j].moved

(* Nothing queued has moved, and what was given up while queued stays so. *)
GivenUp ==
    \A j \in Used : /\ job[j].st = "queued" => ~job[j].moved
                    /\ job[j].late => ~job[j].awaited /\ ~job[j].moved

PoolInv == Shape /\ Caught /\ GivenUp

-----------------------------------------------------------------------------
LEMMA PoolInitInv == PoolInit => PoolInv
  BY DEF PoolInit, PoolInv, Shape, Caught, GivenUp, Used

(* A step that leaves the stop alone, keeps the names and rewrites records. *)
LEMMA Rewritten ==
  ASSUME PoolInv, UNCHANGED <<halted, frozen>>,
         NEW f, f \in [Used -> JobRecord], job' = f,
         \A j \in Used :
            /\ f[j].kind = job[j].kind
            /\ j \in frozen => f[j].st \in {"queued", "done"} /\ ~f[j].moved
            /\ f[j].st = "queued" => ~f[j].moved
            /\ f[j].late => ~f[j].awaited /\ ~f[j].moved
  PROVE  PoolInv'
<1>1. job \in Seq(JobRecord)
  BY DEF PoolInv, Shape
<1>2. job' \in Seq(JobRecord) /\ Used' = Used
  BY <1>1 DEF Used
<1>3. Caught'
  BY <1>2 DEF PoolInv, Caught, Shape, Used
<1>4. QED
  BY <1>2, <1>3 DEF PoolInv, Shape, GivenUp

(* Begin refuses what the stop caught and what was given up. *)
LEMMA BeginKeeps ==
  ASSUME PoolInv, UNCHANGED <<halted, frozen>>, NEW j, Begin(j)
  PROVE  PoolInv'
<1> DEFINE st == IF Refused(j) THEN "done" ELSE "working"
           moved == ~Refused(j) /\ job[j].kind = "actuator"
           g == [job[j] EXCEPT !.st = st, !.moved = moved]
           f == [i \in Used |-> IF i = j THEN g ELSE job[i]]
<1>1. job \in [Used -> JobRecord]
  BY DEF PoolInv, Shape, Used
<1>2. job' = f
  BY <1>1 DEF Begin
<1>3. st \in {"done", "working"} /\ moved \in BOOLEAN
  OBVIOUS
<1>4. ASSUME j \in Used
      PROVE  /\ g \in JobRecord /\ g.kind = job[j].kind /\ g.late = job[j].late
             /\ g.awaited = job[j].awaited /\ g.st = st /\ g.moved = moved
  <2>1. job[j] \in JobRecord
    BY <1>1, <1>4
  <2> HIDE DEF st, moved
  <2>2. QED
    BY <1>3, <2>1 DEF JobRecord
<1>5. f \in [Used -> JobRecord]
  BY <1>1, <1>4
<1>6. j \in frozen => Refused(j)
  BY DEF PoolInv, Caught, Refused
<1>7. j \in Used /\ job[j].late => ~moved
  BY DEF PoolInv, GivenUp, Refused
<1>8. ASSUME NEW i \in Used
      PROVE  /\ f[i].kind = job[i].kind
             /\ i \in frozen => f[i].st \in {"queued", "done"} /\ ~f[i].moved
             /\ f[i].st = "queued" => ~f[i].moved
             /\ f[i].late => ~f[i].awaited /\ ~f[i].moved
  <2>1. f[i] = IF i = j THEN g ELSE job[i]
    OBVIOUS
  <2>2. i \in frozen => job[i].st \in {"queued", "done"} /\ ~job[i].moved
    BY DEF PoolInv, Caught
  <2>3. /\ job[i].st = "queued" => ~job[i].moved
        /\ job[i].late => ~job[i].awaited /\ ~job[i].moved
    BY DEF PoolInv, GivenUp
  <2>4. Refused(j) => st = "done" /\ ~moved
    OBVIOUS
  <2> HIDE DEF f, g, st, moved
  <2>5. QED
    BY <1>3, <1>4, <1>6, <1>7, <2>1, <2>2, <2>3, <2>4
<1>9. QED
  <2> HIDE DEF f
  <2>1. QED
    BY <1>2, <1>5, <1>8, Rewritten

(* New invocations are queued or working, and have not moved. *)
LEMMA SubmitKeeps ==
  ASSUME PoolInv, UNCHANGED <<halted, frozen>>,
         NEW before, before \in [Used -> JobRecord],
         \A j \in Used :
            /\ before[j].kind = job[j].kind
            /\ j \in frozen => before[j].st \in {"queued", "done"} /\ ~before[j].moved
            /\ before[j].st = "queued" => ~before[j].moved
            /\ before[j].late => ~before[j].awaited /\ ~before[j].moved,
         NEW new \in Seq(JobRecord),
         \A i \in DOMAIN new : ~new[i].late /\ ~new[i].moved,
         job' = before \o new
  PROVE  PoolInv'
<1>1. job \in Seq(JobRecord) /\ Used = 1..Len(job) /\ Len(job) \in Nat
  BY DEF PoolInv, Shape, Used
<1>2. before \in Seq(JobRecord) /\ Len(before) = Len(job)
  <2>1. before \in [1..Len(job) -> JobRecord]
    BY <1>1
  <2>2. before \in Seq(JobRecord)
    BY <1>1, <2>1, SeqDef
  <2>3. DOMAIN before = 1..Len(job)
    BY <2>1
  <2>4. QED
    BY <1>1, <2>2, <2>3, LenProperties
<1>3. job' \in Seq(JobRecord) /\ Len(job') = Len(job) + Len(new) /\ Len(new) \in Nat
  <2>1. before \o new \in Seq(JobRecord) /\ Len(before \o new) = Len(before) + Len(new)
    BY <1>2, ConcatProperties
  <2>2. Len(new) \in Nat
    BY LenProperties
  <2>3. job' = before \o new
    OBVIOUS
  <2>4. QED
    BY <1>2, <2>1, <2>2, <2>3
<1>4. Used' = 1..(Len(job) + Len(new))
  BY <1>3 DEF Used
<1>5. \A j \in Used : job'[j] = before[j]
  BY <1>1, <1>2, ConcatProperties
<1>6. ASSUME NEW j \in Used', j \notin Used
      PROVE  j - Len(job) \in DOMAIN new /\ job'[j] = new[j - Len(job)]
  <2>1. j \in Nat /\ j > Len(job) /\ j <= Len(job) + Len(new)
    BY <1>1, <1>3, <1>4, <1>6
  <2>2. QED
    BY <1>1, <1>2, <1>3, <2>1, ConcatProperties
<1>7. Shape'
  BY <1>1, <1>3, <1>4 DEF PoolInv, Shape
<1>8. Caught'
  BY <1>5 DEF PoolInv, Caught, Shape
<1>9. GivenUp'
  BY <1>5, <1>6 DEF PoolInv, GivenUp
<1>10. QED
  BY <1>7, <1>8, <1>9 DEF PoolInv

-----------------------------------------------------------------------------
LEMMA PoolNextInv == PoolInv /\ [PoolNext]_poolVars => PoolInv'
<1>1. SUFFICES ASSUME PoolInv, [PoolNext]_poolVars PROVE PoolInv'
  OBVIOUS
<1>2. job \in [Used -> JobRecord] /\ job \in Seq(JobRecord) /\ Used \subseteq Nat
  BY <1>1 DEF PoolInv, Shape, Used
<1>3. \A j \in Used :
            /\ j \in frozen => job[j].st \in {"queued", "done"} /\ ~job[j].moved
            /\ job[j].st = "queued" => ~job[j].moved
            /\ job[j].late => ~job[j].awaited /\ ~job[j].moved
  BY <1>1 DEF PoolInv, Caught, GivenUp
<1>4. CASE Arrive
  <2>1. PICK kl \in Placements :
            Submit(job, <<Invocation(kl[1], kl[2], 0, 0, Len(job) + 1, TRUE)>>)
    BY <1>4 DEF Arrive
  <2> DEFINE new == <<Invocation(kl[1], kl[2], 0, 0, Len(job) + 1, TRUE)>>
  <2>2. Invocation(kl[1], kl[2], 0, 0, Len(job) + 1, TRUE) \in JobRecord
    BY <1>2, PoolAssumption DEF Placements, Invocation, JobRecord
  <2>3. new \in Seq(JobRecord) /\ \A i \in DOMAIN new : ~new[i].late /\ ~new[i].moved
    BY <2>2 DEF Invocation
  <2>4. job' = job \o new /\ UNCHANGED <<halted, frozen>>
    BY <1>4, <2>1 DEF Arrive, Submit
  <2>5. QED
    BY <1>1, <1>2, <1>3, <2>3, <2>4, SubmitKeeps
<1>5. ASSUME NEW p \in Used, Call(p) PROVE PoolInv'
  <2>1. PICK n \in 1..MaxWidth : \E m \in 0..n : \E kl \in [1..m -> Placements] :
        /\ StepsLeft(p, n)
        /\ Submit([job EXCEPT ![p].calls = @ + n,
                              ![p].st = IF m = 0 THEN @ ELSE "waiting"],
                  [i \in 1..m |-> Invocation(kl[i][1], kl[i][2], job[p].depth + 1, p,
                        job[p].root, job[p].tied /\ job[p].kind = "run")])
    BY <1>5 DEF Call
  <2>2a. PICK m \in 0..n : \E kl \in [1..m -> Placements] :
        /\ StepsLeft(p, n)
        /\ Submit([job EXCEPT ![p].calls = @ + n,
                              ![p].st = IF m = 0 THEN @ ELSE "waiting"],
                  [i \in 1..m |-> Invocation(kl[i][1], kl[i][2], job[p].depth + 1, p,
                        job[p].root, job[p].tied /\ job[p].kind = "run")])
    BY <2>1
  <2>2. PICK kl \in [1..m -> Placements] :
        /\ StepsLeft(p, n)
        /\ Submit([job EXCEPT ![p].calls = @ + n,
                              ![p].st = IF m = 0 THEN @ ELSE "waiting"],
                  [i \in 1..m |-> Invocation(kl[i][1], kl[i][2], job[p].depth + 1, p,
                        job[p].root, job[p].tied /\ job[p].kind = "run")])
    BY <2>2a
  <2> DEFINE tied == job[p].tied /\ job[p].kind = "run"
             new == [i \in 1..m |-> Invocation(kl[i][1], kl[i][2], job[p].depth + 1, p,
                                               job[p].root, tied)]
             before == [job EXCEPT ![p].calls = @ + n,
                                   ![p].st = IF m = 0 THEN @ ELSE "waiting"]
  <2>3. job' = before \o new /\ UNCHANGED <<halted, frozen>>
    BY <1>5, <2>2 DEF Call, Submit
  <2>4. job[p] \in JobRecord /\ job[p].st = "working" /\ p \in Nat
    BY <1>2, <1>5 DEF Call
  <2>5. tied \in BOOLEAN
    BY <2>4
  <2>6. ASSUME NEW i \in 1..m PROVE new[i] \in JobRecord /\ ~new[i].late /\ ~new[i].moved
    <3>1. kl[i] \in Kinds \X BOOLEAN
      BY <2>6 DEF Placements
    <3>2. job[p].depth + 1 \in Nat /\ job[p].root \in Nat /\ 0 \in 0..MaxCalls
      BY <2>4, PoolAssumption DEF JobRecord
    <3>3. QED
      BY <3>1, <3>2, <2>4, <2>5, <2>6 DEF Invocation, JobRecord
  <2>7. new \in Seq(JobRecord)
    BY <2>6
  <2>8. job[p].calls + n \in 0..MaxCalls
    BY <2>2, <2>4, PoolAssumption, SMTT(30) DEF StepsLeft, JobRecord
  <2>9. before \in [Used -> JobRecord]
    BY <1>2, <2>4, <2>8 DEF JobRecord
  <2>10. ASSUME NEW j \in Used
         PROVE  /\ before[j].kind = job[j].kind
                /\ j \in frozen => before[j].st \in {"queued", "done"} /\ ~before[j].moved
                /\ before[j].st = "queued" => ~before[j].moved
                /\ before[j].late => ~before[j].awaited /\ ~before[j].moved
    <3>1. CASE j # p
      BY <3>1, <1>2, <1>3
    <3>2. CASE j = p
      <4>1. /\ before[p].kind = job[p].kind /\ before[p].late = job[p].late
            /\ before[p].awaited = job[p].awaited /\ before[p].moved = job[p].moved
            /\ before[p].st \in {"working", "waiting"}
        BY <1>2, <2>4 DEF JobRecord
      <4>2. p \notin frozen
        BY <1>3, <2>4
      <4>3. QED
        BY <3>2, <4>1, <4>2, <1>3
    <3>3. QED
      BY <3>1, <3>2
  <2>11. QED
    <3>1. \A i \in DOMAIN new : ~new[i].late /\ ~new[i].moved
      BY <2>6
    <3> HIDE DEF new, before
    <3>2. QED
      BY <1>1, <2>3, <2>7, <2>9, <2>10, <3>1, SubmitKeeps
<1>6. ASSUME NEW p \in Used, Wake(p) PROVE PoolInv'
  <2> DEFINE f == [job EXCEPT ![p].st = "working"]
  <2>1. job' = f /\ UNCHANGED <<halted, frozen>> /\ job[p].st = "waiting"
    BY <1>6 DEF Wake
  <2>2. f \in [Used -> JobRecord]
    BY <1>2, ZenonT(60) DEF JobRecord
  <2>3. ASSUME NEW j \in Used
        PROVE  /\ f[j].kind = job[j].kind /\ f[j].moved = job[j].moved
               /\ f[j].late = job[j].late /\ f[j].awaited = job[j].awaited
               /\ f[j].st = IF j = p THEN "working" ELSE job[j].st
    BY <1>2 DEF JobRecord
  <2>4. job[p].st \notin {"queued", "done"}
    BY <1>6 DEF Wake
  <2>5. QED
    <3> HIDE DEF f
    <3>1. QED
      BY <1>1, <1>3, <2>1, <2>2, <2>3, <2>4, Rewritten
<1>7. ASSUME NEW j \in Used, Finish(j) PROVE PoolInv'
  <2> DEFINE f == [job EXCEPT ![j].st = "done"]
  <2>1. job' = f /\ UNCHANGED <<halted, frozen>>
    BY <1>7 DEF Finish
  <2>2. f \in [Used -> JobRecord]
    BY <1>2, ZenonT(60) DEF JobRecord
  <2>3. ASSUME NEW k \in Used
        PROVE  /\ f[k].kind = job[k].kind /\ f[k].moved = job[k].moved
               /\ f[k].late = job[k].late /\ f[k].awaited = job[k].awaited
               /\ f[k].st = IF k = j THEN "done" ELSE job[k].st
    BY <1>2 DEF JobRecord
  <2>4. job[j].st \notin {"queued", "done"}
    BY <1>7 DEF Finish
  <2>5. QED
    <3> HIDE DEF f
    <3>1. QED
      BY <1>1, <1>3, <2>1, <2>2, <2>3, <2>4, Rewritten
<1>8. CASE TakeNext
  BY <1>1, <1>8, BeginKeeps DEF TakeNext
<1>9. ASSUME NEW j \in Used, StartOnLoop(j) PROVE PoolInv'
  BY <1>1, <1>9, BeginKeeps DEF StartOnLoop
<1>10. ASSUME NEW r \in Used, Abandon(r) PROVE PoolInv'
  <2> DEFINE hit(j) == job[j].root = r /\ job[j].tied /\ job[j].st # "done"
             g(j) == [job[j] EXCEPT !.awaited = FALSE,
                                    !.late = (job[j].st = "queued"),
                                    !.st = IF job[j].kind = "run" THEN "done" ELSE @]
             f == [j \in Used |-> IF hit(j) THEN g(j) ELSE job[j]]
  <2>1. job' = f /\ UNCHANGED <<halted, frozen>>
    BY <1>10 DEF Abandon
  <2>2. ASSUME NEW j \in Used
        PROVE  /\ g(j) \in JobRecord /\ g(j).kind = job[j].kind /\ ~g(j).awaited
               /\ g(j).late = (job[j].st = "queued") /\ g(j).moved = job[j].moved
               /\ g(j).st \in {job[j].st, "done"}
    BY <1>2, ZenonT(60) DEF JobRecord
  <2>3. f \in [Used -> JobRecord]
    BY <1>2, <2>2
  <2>4. ASSUME NEW j \in Used
        PROVE  /\ f[j].kind = job[j].kind
               /\ j \in frozen => f[j].st \in {"queued", "done"} /\ ~f[j].moved
               /\ f[j].st = "queued" => ~f[j].moved
               /\ f[j].late => ~f[j].awaited /\ ~f[j].moved
    <3>1. f[j] = IF hit(j) THEN g(j) ELSE job[j]
      OBVIOUS
    <3> HIDE DEF f, g, hit
    <3>2. QED
      BY <1>3, <2>2, <3>1, ZenonT(60)
  <2>5. QED
    <3> HIDE DEF f
    <3>1. QED
      BY <1>1, <2>1, <2>3, <2>4, Rewritten
<1>11. CASE Halt
  <2>1. job' = job /\ halted' = TRUE /\ frozen' = frozen \cup QueuedActuators
    BY <1>11 DEF Halt
  <2>2. QED
    BY <1>1, <1>3, <2>1 DEF PoolInv, Shape, Caught, GivenUp, Used, QueuedActuators
<1>12. CASE Release
  BY <1>1, <1>12 DEF Release, PoolInv, Shape, Caught, GivenUp, Used
<1>13. CASE UNCHANGED poolVars
  BY <1>1, <1>13 DEF poolVars, PoolInv, Shape, Caught, GivenUp, Used
<1>14. QED
  BY <1>1, <1>4, <1>5, <1>6, <1>7, <1>8, <1>9, <1>10, <1>11, <1>12, <1>13 DEF PoolNext

LEMMA PoolInductive == PoolSpec => []PoolInv
  BY PoolInitInv, PoolNextInv, PTL DEF PoolSpec

(* While the stop stays engaged, no actuator that was queued when it was   *)
(* pressed starts (StopHolds).                                             *)
THEOREM StopIsKept == PoolSpec => []StopHolds
<1>1. PoolInv => StopHolds
  BY DEF PoolInv, Caught, StopHolds
<1>2. QED
  BY PoolInductive, <1>1, PTL

(* An actuator its caller gave up on while it was queued never starts      *)
(* (NoLateMove).                                                           *)
THEOREM GivenUpIsKept == PoolSpec => []NoLateMove
<1>1. PoolInv => NoLateMove
  BY DEF PoolInv, GivenUp, NoLateMove
<1>2. QED
  BY PoolInductive, <1>1, PTL

-----------------------------------------------------------------------------
(* The gate alone.  RateHeld speaks of the frames accepted; the invariant  *)
(* that carries it says how far each of them has pushed the next one's due *)
(* time away.                                                              *)

(* What n intervals take. *)
Span(n) == n * Interval

(* The next frame is due an interval per frame after each one accepted. *)
DueAfter ==
    \A i \in DOMAIN accepted : due >= accepted[i] + Span(Len(accepted) - i + 1)

Spaced ==
    \A i, j \in DOMAIN accepted :
        i < j => accepted[j] - accepted[i] >= Span(j - i) - Half

GateInv == GateTypeOK /\ DueAfter /\ Spaced

LEMMA SpanGrows == \A n \in Nat : Span(n) \in Nat /\ Span(n + 1) = Span(n) + Interval
  BY GateAssumption DEF Span, Interval

(* A frame less than h early, of one due s after an earlier one. *)
LEMMA Moved ==
  ASSUME NEW a \in Nat, NEW b \in Nat, NEW s \in Nat, NEW h \in Nat, NEW d \in Nat,
         d >= b + s, a + h >= d
  PROVE  a - b >= s - h
  OBVIOUS

LEMMA GateInvInit == GateInit => GateInv
  BY GateAssumption DEF GateInit, GateInv, GateTypeOK, DueAfter, Spaced, NoPush

(* A frame accepted came at most half an interval before it was due.       *)
LEMMA AcceptKeeps ==
  ASSUME GateInv, NEW at \in 0..MaxTime, ~TooFast(at),
         due' = NextDue(at), accepted' = Append(accepted, at)
  PROVE  due' \in Nat /\ accepted' \in Seq(0..MaxTime) /\ DueAfter' /\ Spaced'
<1>1. /\ accepted \in Seq(0..MaxTime) /\ due \in Nat /\ Half \in Nat /\ Interval \in Nat
      /\ MaxTime \in Nat /\ at \in Nat /\ Interval = Half + Half
  BY GateAssumption DEF GateInv, GateTypeOK, Interval
<1> DEFINE n == Len(accepted)
<1>2. /\ n \in Nat /\ DOMAIN accepted = 1..n
      /\ accepted' \in Seq(0..MaxTime) /\ DOMAIN accepted' = 1..(n + 1)
      /\ Len(accepted') = n + 1
      /\ accepted'[n + 1] = at /\ \A i \in 1..n : accepted'[i] = accepted[i]
  BY <1>1
<1>3. \A i \in 1..n : accepted[i] \in Nat
  BY <1>1, <1>2
<1> HIDE DEF n
<1>4. due' \in Nat /\ due' >= due + Interval /\ due' >= at + Interval
  BY <1>1 DEF NextDue
<1>5. at + Half >= due
  BY <1>1 DEF TooFast
<1>6. ASSUME NEW i \in 1..n
      PROVE  /\ due >= accepted[i] + Span(n - i + 1)
             /\ Span(n - i + 1) \in Nat /\ Span(n - i + 2) = Span(n - i + 1) + Interval
  <2>1. due >= accepted[i] + Span(n - i + 1)
    BY <1>2 DEF GateInv, DueAfter, n
  <2>2. n - i + 1 \in Nat /\ (n - i + 1) + 1 = n - i + 2
    BY <1>2
  <2>3. Span(n - i + 1) \in Nat /\ Span((n - i + 1) + 1) = Span(n - i + 1) + Interval
    BY <2>2, SpanGrows
  <2>4. QED
    BY <2>1, <2>2, <2>3
<1>7. Span(1) = Interval
  BY <1>1 DEF Span
<1>8. DueAfter'
  <2>1. SUFFICES ASSUME NEW i \in 1..(n + 1)
                 PROVE  due' >= accepted'[i] + Span((n + 1) - i + 1)
    BY <1>2 DEF DueAfter
  <2>2. CASE i = n + 1
    <3>1. (n + 1) - i + 1 = 1
      BY <1>2, <2>2
    <3>2. QED
      BY <1>2, <1>4, <1>7, <2>2, <3>1
  <2>3. CASE i \in 1..n
    <3>1. (n + 1) - i + 1 = n - i + 2
      BY <1>2, <2>3
    <3>2. accepted'[i] = accepted[i] /\ accepted[i] \in Nat
      BY <1>2, <1>3, <2>3
    <3>3. due >= accepted[i] + Span(n - i + 1) /\ due' >= due + Interval
      BY <1>1, <1>4, <1>6, <2>3
    <3>4. Span(n - i + 1) \in Nat /\ Span((n - i + 1) + 1) = Span(n - i + 1) + Interval
      <4>1. n - i + 1 \in Nat
        BY <1>2, <2>3
      <4>2. QED
        BY <4>1, SpanGrows
    <3>5. (n - i + 1) + 1 = (n + 1) - i + 1
      BY <1>2, <2>3
    <3>6. /\ due \in Int /\ due' \in Int /\ Interval \in Nat /\ accepted'[i] = accepted[i]
          /\ Span((n + 1) - i + 1) = Span(n - i + 1) + Interval
      BY <1>1, <1>4, <3>2, <3>4, <3>5
    <3>7. QED
      BY <3>2, <3>3, <3>4, <3>6
  <2>4. QED
    BY <1>2, <2>2, <2>3
<1>9. Spaced'
  <2>1. SUFFICES ASSUME NEW i \in 1..(n + 1), NEW j \in 1..(n + 1), i < j
                 PROVE  accepted'[j] - accepted'[i] >= Span(j - i) - Half
    BY <1>2 DEF Spaced
  <2>2. i \in 1..n /\ accepted'[i] = accepted[i] /\ accepted[i] \in Nat
    BY <1>2, <1>3, <2>1
  <2>3. CASE j \in 1..n
    <3>1. accepted[j] - accepted[i] >= Span(j - i) - Half
      BY <1>2, <2>1, <2>2, <2>3 DEF GateInv, Spaced
    <3>2. accepted'[j] = accepted[j] /\ accepted'[i] = accepted[i]
      BY <1>2, <2>2, <2>3
    <3>3. QED
      BY <3>1, <3>2
  <2>4. CASE j = n + 1
    <3>1. j - i = n - i + 1
      BY <1>2, <2>2, <2>4
    <3>2. /\ at \in Nat /\ Half \in Nat /\ Span(n - i + 1) \in Nat
          /\ due >= accepted[i] + Span(n - i + 1)
      BY <1>1, <1>6, <2>2
    <3>3. at - accepted[i] >= Span(n - i + 1) - Half
      BY <1>1, <1>5, <2>2, <3>2, Moved
    <3>4. accepted'[j] = at /\ accepted'[i] = accepted[i]
      BY <1>2, <2>2, <2>4
    <3>5. QED
      BY <3>1, <3>3, <3>4
  <2>5. QED
    BY <1>2, <2>3, <2>4
<1>10. QED
  BY <1>2, <1>4, <1>8, <1>9

LEMMA GateInvNext == GateInv /\ [GateNext]_gateVars => GateInv'
<1>1. SUFFICES ASSUME GateInv, [GateNext]_gateVars PROVE GateInv'
  OBVIOUS
<1>2. /\ now \in 0..MaxTime /\ due \in Nat /\ accepted \in Seq(0..MaxTime)
      /\ push \in [Pushers -> [pc : {"idle", "arrived", "admitted"}, at : 0..MaxTime]]
      /\ MaxTime \in Nat
  BY <1>1, GateAssumption DEF GateInv, GateTypeOK
<1>3. NoPush \in [pc : {"idle", "arrived", "admitted"}, at : 0..MaxTime]
  BY <1>2 DEF NoPush
<1>4. ASSUME UNCHANGED <<due, accepted>>, now' \in 0..MaxTime,
             push' \in [Pushers -> [pc : {"idle", "arrived", "admitted"}, at : 0..MaxTime]]
      PROVE  GateInv'
  BY <1>1, <1>4 DEF GateInv, GateTypeOK, DueAfter, Spaced
<1>5. CASE Tick
  BY <1>2, <1>4, <1>5 DEF Tick
<1>6. ASSUME NEW p \in Pushers, Offer(p) PROVE GateInv'
  BY <1>2, <1>4, <1>6 DEF Offer
<1>7. ASSUME NEW p \in Pushers, Stored(p) PROVE GateInv'
  BY <1>2, <1>3, <1>4, <1>7 DEF Stored
<1>8. ASSUME NEW p \in Pushers, Admit(p) PROVE GateInv'
  <2>1. push[p].at \in 0..MaxTime
    BY <1>2
  <2>2. CASE TooFast(push[p].at)
    BY <1>2, <1>3, <1>4, <1>8, <2>2 DEF Admit
  <2>3. CASE ~TooFast(push[p].at)
    <3>1. /\ due' = NextDue(push[p].at) /\ accepted' = Append(accepted, push[p].at)
          /\ push' = [push EXCEPT ![p] = [pc |-> "admitted", at |-> 0]] /\ now' = now
      BY <1>8, <2>3 DEF Admit
    <3>2. due' \in Nat /\ accepted' \in Seq(0..MaxTime) /\ DueAfter' /\ Spaced'
      BY <1>1, <2>1, <2>3, <3>1, AcceptKeeps
    <3>3. push' \in [Pushers -> [pc : {"idle", "arrived", "admitted"}, at : 0..MaxTime]]
      BY <1>2, <3>1
    <3>4. QED
      BY <1>2, <3>1, <3>2, <3>3 DEF GateInv, GateTypeOK
  <2>4. QED
    BY <2>2, <2>3
<1>9. CASE UNCHANGED gateVars
  BY <1>2, <1>4, <1>9 DEF gateVars
<1>10. QED
  BY <1>1, <1>5, <1>6, <1>7, <1>8, <1>9 DEF GateNext

(* The device's long-run rate never exceeds max_fps and no two frames are  *)
(* accepted closer than half an interval, however its pushes race (admit). *)
THEOREM RateIsHeld == GateSpec => []RateHeld
<1>1. GateInv => RateHeld
  BY DEF GateInv, Spaced, RateHeld, Span
<1>2. QED
  BY GateInvInit, GateInvNext, <1>1, PTL DEF GateSpec

-----------------------------------------------------------------------------
(* The hub implements the gate *)

LEMMA NextIsGateNext == [HubNext]_hubVars => [GateNext]_gateVars
<1>1. SUFFICES ASSUME [HubNext]_hubVars PROVE [GateNext]_gateVars
  OBVIOUS
<1>2. ASSUME NEW p \in Pushers, Push(p) PROVE GateNext
  BY <1>2 DEF Push, GateNext
<1>3. ASSUME NEW a \in Askers, Ask(a) \/ Lock(a) \/ Fetch(a) \/ Drop(a)
      PROVE  UNCHANGED gateVars
  BY <1>3 DEF Ask, Lock, Fetch, Drop
<1>4. ASSUME NEW v \in Viewers, Join(v) \/ Look(v) \/ Greet(v) \/ Receive(v) \/ Leave(v)
      PROVE  UNCHANGED gateVars
  BY <1>4 DEF Join, Look, Greet, Receive, Leave
<1>5. CASE Publish
  BY <1>5 DEF Publish
<1>6. CASE UNCHANGED hubVars
  BY <1>6 DEF hubVars
<1>7. CASE Tick \/ \E p \in Pushers : Offer(p) \/ Admit(p)
  BY <1>7 DEF GateNext
<1>8. QED
  BY <1>1, <1>2, <1>3, <1>4, <1>5, <1>6, <1>7 DEF HubNext

(* Whatever fetches, viewers and the ring do, frames are accepted as the   *)
(* gate alone would accept them (accept_frame admits before it stores).    *)
THEOREM ImplementsGate == HubSpec => GateSpec
<1>1. HubInit => GateInit
  BY DEF HubInit
<1>2. QED
  BY <1>1, NextIsGateNext, PTL DEF HubSpec, GateSpec

(* The rate is held in the hub, for any pushers, askers and viewers.       *)
THEOREM HubHoldsRate == HubSpec => []RateHeld
  BY ImplementsGate, RateIsHeld, PTL

-----------------------------------------------------------------------------
(* The invariant *)

HubTypes ==
    /\ now \in Nat
    /\ chan \in Seq(Nat) /\ ring \in Seq(Nat) /\ seq \in Nat
    /\ ask \in [Askers -> [pc : {"away", "waiting", "fetching", "answered", "dropped"},
                           asked : Nat]]
    /\ last \in Int /\ ended \subseteq Askers
    /\ viewer \in [Viewers -> [pc : {"away", "joined", "greeted", "open"},
                               next : Nat \ {0}, first : Nat,
                               shown : SUBSET Nat, told : SUBSET Nat]]

(* From its greeting on a viewer has been shown, or told of, every newer   *)
(* frame among the events it is past.                                      *)
CaughtUp(v) ==
    \A i \in 1..(viewer[v].next - 1) :
        chan[i] > viewer[v].first => chan[i] \in viewer[v].shown \cup viewer[v].told

Views ==
    \A v \in Viewers :
        /\ viewer[v].next <= Len(chan) + 1
        /\ viewer[v].pc \in {"greeted", "open"} => CaughtUp(v)

(* Nobody asked in the future; for whom a fetch has ended, the newest      *)
(* fetch is no older than the question.                                    *)
Fetches ==
    /\ \A a \in Askers : ask[a].asked <= now
    /\ \A a \in ended : ask[a].pc = "waiting" /\ last >= ask[a].asked

HubInv == HubTypes /\ FramesInOrder /\ Views /\ Fetches

LEMMA HubInvInit == HubInit => HubInv
  BY HubAssumption DEF HubInit, GateInit, HubInv, HubTypes, FramesInOrder, FramesSent, FramesOf, Views, CaughtUp,
                       Fetches, Away, Quiet, Never

-----------------------------------------------------------------------------
(* The channel and the ring *)

(* No event of the channel is newer than the newest frame. *)
LEMMA NothingNewer ==
  ASSUME HubInv
  PROVE  \A i \in DOMAIN chan : chan[i] \in Nat /\ chan[i] <= seq
<1>1. \A i \in DOMAIN chan : chan[i] \in Nat
  BY DEF HubInv, HubTypes
<1>2. {chan[i] : i \in DOMAIN chan} \ {0} = 1..seq /\ seq \in Nat
  BY DEF HubInv, HubTypes, FramesInOrder, FramesSent, FramesOf
<1>3. ASSUME NEW i \in DOMAIN chan, chan[i] # 0
      PROVE  chan[i] \in 1..seq
  BY <1>2, <1>3
<1> QED  BY <1>1, <1>2, <1>3

LEMMA NewestHeld == ASSUME HubInv PROVE Latest = seq
  BY HubAssumption DEF HubInv, HubTypes, FramesInOrder, Latest

(* What viewers have seen is not changed by what is sent. *)
LEMMA SentLater ==
  ASSUME HubInv, NEW e \in Nat, chan' = Append(chan, e), UNCHANGED viewer
  PROVE  Views'
<1>1. /\ chan \in Seq(Nat) /\ Len(chan') = Len(chan) + 1 /\ Len(chan) \in Nat
      /\ \A i \in 1..Len(chan) : chan'[i] = chan[i]
  BY DEF HubInv, HubTypes
<1>2. ASSUME NEW v \in Viewers PROVE viewer[v].next \in Nat \ {0} /\ viewer[v].next <= Len(chan) + 1
  BY DEF HubInv, HubTypes, Views
<1>3. ASSUME NEW v \in Viewers, CaughtUp(v) PROVE CaughtUp(v)'
  BY <1>1, <1>2, <1>3 DEF CaughtUp
<1>4. QED
  BY <1>1, <1>2, <1>3 DEF HubInv, Views

LEMMA TailOf ==
  ASSUME NEW s \in Seq(Nat), Len(s) > 0
  PROVE  /\ Tail(s) \in Seq(Nat) /\ Len(Tail(s)) = Len(s) - 1
         /\ \A k \in 1..(Len(s) - 1) : Tail(s)[k] = s[k + 1]
  OBVIOUS

LEMMA StoreKeeps ==
  ASSUME HubInv, Store
  PROVE  FramesInOrder' /\ chan' \in Seq(Nat) /\ ring' \in Seq(Nat) /\ seq' \in Nat
<1>1. /\ chan \in Seq(Nat) /\ ring \in Seq(Nat) /\ seq \in Nat /\ seq' = seq + 1
      /\ chan' = Append(chan, seq + 1) /\ ring' = Held(Append(ring, seq + 1))
      /\ Keep \in Nat \ {0}
  BY HubAssumption DEF HubInv, HubTypes, Store
<1>2. /\ chan' \in Seq(Nat) /\ DOMAIN chan' = 1..(Len(chan) + 1) /\ DOMAIN chan = 1..Len(chan)
      /\ Len(chan) \in Nat /\ chan'[Len(chan) + 1] = seq + 1
      /\ \A i \in 1..Len(chan) : chan'[i] = chan[i]
  BY <1>1
<1>3. \A i \in 1..Len(chan) : chan[i] \in Nat /\ chan[i] <= seq
  BY NothingNewer, <1>2
<1>4. FramesSent' = 1..(seq + 1)
  <2> DEFINE old == {chan[i] : i \in DOMAIN chan}
             new == {chan'[i] : i \in DOMAIN chan'}
  <2>1. FramesSent = old \ {0} /\ FramesSent' = new \ {0}
    BY DEF FramesSent, FramesOf
  <2>2. new = old \cup {seq + 1}
    BY <1>2
  <2>3. FramesSent = 1..seq
    BY DEF HubInv, FramesInOrder
  <2> HIDE DEF old, new
  <2>4. new \ {0} = (old \ {0}) \cup {seq + 1}
    BY <1>1, <2>2
  <2>5. (1..seq) \cup {seq + 1} = 1..(seq + 1)
    BY <1>1
  <2>6. QED
    BY <2>1, <2>3, <2>4, <2>5
<1>5. \A i, j \in DOMAIN chan' :
         i < j /\ chan'[i] # 0 /\ chan'[j] # 0 => chan'[i] < chan'[j]
  BY <1>1, <1>2, <1>3 DEF HubInv, FramesInOrder
<1>6. /\ Len(ring) = IF seq > Keep THEN Keep ELSE seq
      /\ \A k \in DOMAIN ring : ring[k] = seq - Len(ring) + k
  BY DEF HubInv, FramesInOrder
<1>7. /\ ring' \in Seq(Nat)
      /\ Len(ring') = IF seq + 1 > Keep THEN Keep ELSE seq + 1
      /\ \A k \in DOMAIN ring' : ring'[k] = seq + 1 - Len(ring') + k
  <2> DEFINE more == Append(ring, seq + 1)
  <2>1. /\ more \in Seq(Nat) /\ Len(more) = Len(ring) + 1 /\ Len(ring) \in Nat
        /\ \A k \in 1..(Len(ring) + 1) : more[k] = seq - Len(ring) + k
    <3>0. DOMAIN ring = 1..Len(ring) /\ seq \in Nat
      BY <1>1
    <3>1. \A k \in 1..Len(ring) : ring[k] = seq - Len(ring) + k
      BY <1>6, <3>0
    <3>2. Len(more) = Len(ring) + 1 /\ more \in Seq(Nat) /\ Len(ring) \in Nat
      BY <1>1
    <3>3. \A k \in 1..Len(ring) : more[k] = ring[k]
      BY <1>1
    <3>4. more[Len(ring) + 1] = seq + 1
      BY <1>1
    <3> HIDE DEF more
    <3>5. ASSUME NEW k \in 1..(Len(ring) + 1) PROVE more[k] = seq - Len(ring) + k
      BY <3>0, <3>1, <3>2, <3>3, <3>4
    <3>6. QED
      BY <3>2, <3>5
  <2>2. ring' = IF Len(more) > Keep THEN Tail(more) ELSE more
    BY <1>1 DEF Held
  <2> HIDE DEF more
  <2>3. CASE seq < Keep
    BY <1>1, <1>6, <2>1, <2>2, <2>3, SMTT(30)
  <2>4. CASE seq >= Keep
    <3>1. Len(ring) = Keep /\ ring' = Tail(more) /\ Len(more) = Keep + 1
      BY <1>1, <1>6, <2>1, <2>2, <2>4
    <3>2. /\ ring' \in Seq(Nat) /\ Len(ring') = Keep
          /\ \A k \in 1..Keep : ring'[k] = more[k + 1]
      BY TailOf, <2>1, <3>1, HubAssumption
    <3>3. QED
      BY <1>1, <2>1, <2>4, <3>1, <3>2, SMTT(30)
  <2>5. QED
    BY <1>1, <2>3, <2>4
<1>8. QED
  BY <1>1, <1>2, <1>4, <1>5, <1>7 DEF FramesInOrder

LEMMA PublishKeeps ==
  ASSUME HubInv, Publish
  PROVE  FramesInOrder' /\ chan' \in Seq(Nat)
<1>1. /\ chan \in Seq(Nat) /\ seq \in Nat /\ chan' = Append(chan, 0) /\ UNCHANGED <<ring, seq>>
  BY DEF HubInv, HubTypes, Publish
<1>2. /\ chan' \in Seq(Nat) /\ DOMAIN chan' = 1..(Len(chan) + 1) /\ DOMAIN chan = 1..Len(chan)
      /\ Len(chan) \in Nat /\ chan'[Len(chan) + 1] = 0
      /\ \A i \in 1..Len(chan) : chan'[i] = chan[i]
  BY <1>1
<1>3. {chan'[i] : i \in DOMAIN chan'} = {chan[i] : i \in DOMAIN chan} \cup {0}
  BY <1>2
<1>4. FramesSent' = FramesSent
  BY <1>3 DEF FramesOf, FramesSent
<1>5. \A i, j \in DOMAIN chan' :
         i < j /\ chan'[i] # 0 /\ chan'[j] # 0 => chan'[i] < chan'[j]
  BY <1>1, <1>2 DEF HubInv, FramesInOrder
<1>6. QED
  BY <1>1, <1>2, <1>4, <1>5 DEF HubInv, FramesInOrder

-----------------------------------------------------------------------------
(* The steps *)

(* What the invariant says of fetches is not touched by time, nor by what  *)
(* does not concern them.                                                  *)
LEMMA FetchesUntouched ==
  ASSUME HubInv, UNCHANGED pullVars, now' \in Nat, now' >= now
  PROVE  Fetches'
  BY DEF HubInv, HubTypes, Fetches, pullVars

LEMMA AskKeeps ==
  ASSUME HubInv, NEW a \in Askers, Ask(a)
  PROVE  HubInv'
<1>1. HubTypes' /\ Fetches'
  BY DEF HubInv, HubTypes, Fetches, Ask, gateVars, storeVars
<1>2. QED
  BY <1>1 DEF HubInv, FramesInOrder, FramesSent, FramesOf, Views, CaughtUp, Ask, storeVars

LEMMA LockKeeps ==
  ASSUME HubInv, NEW a \in Askers, Lock(a)
  PROVE  HubInv'
<1>1. HubTypes' /\ Fetches'
  BY DEF HubInv, HubTypes, Fetches, Lock, Quiet, gateVars, storeVars
<1>2. QED
  BY <1>1 DEF HubInv, FramesInOrder, FramesSent, FramesOf, Views, CaughtUp, Lock, storeVars

LEMMA DropKeeps ==
  ASSUME HubInv, NEW a \in Askers, Drop(a)
  PROVE  HubInv'
<1>1. HubTypes' /\ Fetches'
  BY DEF HubInv, HubTypes, Fetches, Drop, Quiet, gateVars, storeVars
<1>2. QED
  BY <1>1 DEF HubInv, FramesInOrder, FramesSent, FramesOf, Views, CaughtUp, Drop, storeVars

LEMMA FetchKeeps ==
  ASSUME HubInv, NEW a \in Askers, Fetch(a)
  PROVE  HubInv'
<1>1. /\ ask' \in [Askers -> [pc : {"away", "waiting", "fetching", "answered", "dropped"},
                             asked : Nat]]
      /\ last' \in Int /\ ended' \subseteq Askers /\ now' \in Nat /\ UNCHANGED <<now, viewer>>
  BY DEF HubInv, HubTypes, Fetch, Answered, Quiet, gateVars
<1>2. Fetches'
  BY DEF HubInv, HubTypes, Fetches, Fetch, Fetching, Answered, Quiet, gateVars
<1>3. CASE Store
  <2>1. Views'
    BY SentLater, <1>1, <1>3 DEF Store, HubInv, HubTypes
  <2>2. QED
    BY StoreKeeps, <1>1, <1>2, <1>3, <2>1 DEF HubInv, HubTypes
<1>4. CASE UNCHANGED storeVars
  <2>1. HubTypes'
    BY <1>1, <1>4 DEF HubInv, HubTypes, storeVars
  <2>2. FramesInOrder'
    BY <1>4 DEF HubInv, FramesInOrder, FramesSent, FramesOf, storeVars
  <2>3. Views'
    BY <1>1, <1>4 DEF HubInv, Views, CaughtUp, storeVars
  <2>4. QED
    BY <1>2, <2>1, <2>2, <2>3 DEF HubInv
<1>5. QED
  BY <1>3, <1>4 DEF Fetch

LEMMA PushKeeps ==
  ASSUME HubInv, NEW p \in Pushers, Push(p)
  PROVE  HubInv'
<1>1. Store /\ UNCHANGED <<pullVars, viewer, now>>
  BY DEF Push, Stored
<1>2. Views'
  BY SentLater, <1>1 DEF Store, HubInv, HubTypes
<1>3. now' \in Nat /\ now' >= now
  BY <1>1 DEF HubInv, HubTypes
<1>4. Fetches'
  BY FetchesUntouched, <1>1, <1>3
<1>5. QED
  BY StoreKeeps, <1>1, <1>2, <1>4 DEF HubInv, HubTypes, pullVars

LEMMA PublishInv ==
  ASSUME HubInv, Publish
  PROVE  HubInv'
<1>1. chan' = Append(chan, 0) /\ UNCHANGED <<gateVars, ring, seq, pullVars, viewer>>
  BY DEF Publish
<1>2. Views'
  BY SentLater, <1>1
<1>3. now' \in Nat /\ now' >= now
  BY <1>1 DEF HubInv, HubTypes, gateVars
<1>4. Fetches'
  BY FetchesUntouched, <1>1, <1>3
<1>5. QED
  BY PublishKeeps, <1>1, <1>2, <1>3, <1>4 DEF HubInv, HubTypes, pullVars

LEMMA LooksOn ==
  ASSUME HubInv, NEW v \in Viewers, Join(v) \/ Look(v) \/ Greet(v) \/ Receive(v) \/ Leave(v)
  PROVE  HubInv'
<1>1. UNCHANGED <<gateVars, storeVars, pullVars>>
  BY DEF Join, Look, Greet, Receive, Leave
<1>2. now' \in Nat /\ now' >= now
  BY <1>1 DEF HubInv, HubTypes, gateVars
<1>3. Fetches' /\ FramesInOrder'
  BY FetchesUntouched, <1>1, <1>2
     DEF HubInv, FramesInOrder, FramesSent, FramesOf, storeVars
<1>4. ASSUME viewer' \in [Viewers -> [pc : {"away", "joined", "greeted", "open"},
                                   next : Nat \ {0}, first : Nat,
                                   shown : SUBSET Nat, told : SUBSET Nat]], Views'
      PROVE  HubInv'
  BY <1>1, <1>2, <1>3, <1>4 DEF HubInv, HubTypes, storeVars, pullVars
<1> DEFINE me == viewer[v]
           Rec == [pc : {"away", "joined", "greeted", "open"}, next : Nat \ {0}, first : Nat,
                   shown : SUBSET Nat, told : SUBSET Nat]
<1>5. /\ viewer \in [Viewers -> Rec] /\ chan \in Seq(Nat) /\ Len(chan) \in Nat
      /\ chan' = chan /\ me \in Rec /\ me.next \in Nat \ {0} /\ me.next <= Len(chan) + 1
      /\ \A i \in 1..Len(chan) : chan[i] \in Nat /\ chan[i] <= seq
      /\ seq \in Nat /\ Latest = seq
  BY NothingNewer, NewestHeld, <1>1, SMTT(30) DEF HubInv, HubTypes, Views, storeVars
(* It is enough to look at the viewer that moved. *)
<1>6. ASSUME NEW new \in Rec, viewer' = [viewer EXCEPT ![v] = new],
             new.next <= Len(chan) + 1,
             new.pc \in {"greeted", "open"} =>
                \A i \in 1..(new.next - 1) :
                   chan[i] > new.first => chan[i] \in new.shown \cup new.told
      PROVE  HubInv'
  <2>1. viewer' \in [Viewers -> Rec]
    BY <1>5, <1>6
  <2>2. ASSUME NEW w \in Viewers
        PROVE  /\ viewer'[w].next <= Len(chan) + 1
               /\ viewer'[w].pc \in {"greeted", "open"} => CaughtUp(w)'
    <3>1. CASE w = v
      BY <1>5, <1>6, <3>1 DEF CaughtUp
    <3>2. CASE w # v
      <4>1. viewer'[w] = viewer[w]
        BY <1>5, <1>6, <3>2
      <4>2. QED
        BY <1>5, <4>1 DEF HubInv, Views, CaughtUp
    <3>3. QED
      BY <3>1, <3>2
  <2>3. Views'
    BY <1>5, <2>2 DEF Views
  <2>4. QED
    BY <1>4, <2>1, <2>3
<1>7. CASE Join(v)
  <2> DEFINE new == [me EXCEPT !.pc = "joined", !.next = Len(chan) + 1]
  <2>1. new \in Rec /\ new.next <= Len(chan) + 1 /\ new.pc \notin {"greeted", "open"}
    <3>1. Len(chan) + 1 \in Nat \ {0} /\ Len(chan) + 1 <= Len(chan) + 1 /\ me \in Rec
      BY <1>5
    <3>2. QED
      BY <3>1
  <2>2. viewer' = [viewer EXCEPT ![v] = new]
    BY <1>5, <1>7 DEF Join
  <2>3. QED
    BY <1>6, <2>1, <2>2
<1>8. CASE Look(v)
  <2> DEFINE new == [me EXCEPT !.pc = "greeted", !.first = Latest, !.shown = FramesOf({Latest})]
  <2>1. /\ new \in Rec /\ new.next = me.next /\ new.first = seq
    BY <1>5 DEF FramesOf
  <2>2. viewer' = [viewer EXCEPT ![v] = new]
    BY <1>5, <1>8 DEF Look
  <2> HIDE DEF new
  <2>3. ASSUME NEW i \in 1..(new.next - 1)
        PROVE  ~(chan[i] > new.first)
    <3>1. me.next \in Nat /\ me.next <= Len(chan) + 1 /\ Len(chan) \in Nat
      BY <1>5
    <3>2. i \in DOMAIN chan
      BY <1>5, <2>1, <3>1
    <3>3. chan[i] \in Nat /\ chan[i] <= seq /\ seq \in Nat
      BY <1>5, <3>2
    <3>4. QED
      BY <2>1, <3>3
  <2>4. QED
    BY <1>5, <1>6, <2>1, <2>2, <2>3
<1>9. CASE Greet(v)
  <2> DEFINE new == [me EXCEPT !.pc = "open"]
  <2>1. /\ new \in Rec /\ new.next = me.next /\ new.first = me.first
        /\ new.shown = me.shown /\ new.told = me.told
    BY <1>5
  <2>2. viewer' = [viewer EXCEPT ![v] = new] /\ me.pc = "greeted"
    BY <1>9 DEF Greet, Greeted
  <2>3. CaughtUp(v)
    BY <2>2 DEF HubInv, Views
  <2> HIDE DEF new
  <2>4. QED
    BY <1>5, <1>6, <2>1, <2>2, <2>3 DEF CaughtUp
<1>10. CASE Leave(v)
  <2>1. Away \in Rec /\ Away.next <= Len(chan) + 1 /\ Away.pc \notin {"greeted", "open"}
    BY <1>5 DEF Away
  <2>2. viewer' = [viewer EXCEPT ![v] = Away]
    BY <1>10 DEF Leave
  <2>3. QED
    BY <1>6, <2>1, <2>2
<1>11. CASE Receive(v)
  <2> DEFINE new == Received(v)
  <2>1. /\ viewer' = [viewer EXCEPT ![v] = new] /\ me.pc = "open" /\ me.next <= Len(chan)
    BY <1>11 DEF Receive
  <2>2. \A i \in 1..(me.next - 1) : chan[i] > me.first => chan[i] \in me.shown \cup me.told
    BY <2>1 DEF HubInv, Views, CaughtUp
  <2>3. Oldest \in Nat \ {0} /\ Oldest <= Len(chan) + 1
    BY <1>5, HubAssumption DEF Oldest
  <2>4. CASE me.next < Oldest
    <3> DEFINE missed == FramesOf({chan[i] : i \in me.next..(Oldest - 1)})
    <3>1. new = [me EXCEPT !.next = Oldest, !.told = me.told \cup missed]
      BY <2>4 DEF Received
    <3>2. \A i \in me.next..(Oldest - 1) : chan[i] # 0 => chan[i] \in missed
      BY DEF FramesOf
    <3>3. missed \subseteq Nat
      BY <1>5, <2>3 DEF FramesOf
    <3> HIDE DEF missed, new
    <3>4. /\ new \in Rec /\ new.next = Oldest /\ new.first = me.first
          /\ new.shown = me.shown /\ new.told = me.told \cup missed
      BY <1>5, <2>3, <3>1, <3>3
    <3>5. \A i \in 1..(new.next - 1) :
             chan[i] > new.first => chan[i] \in new.shown \cup new.told
      BY <1>5, <2>2, <2>3, <3>2, <3>4, SMTT(30)
    <3>6. QED
      BY <1>6, <2>1, <2>3, <3>4, <3>5
  <2>5. CASE ~(me.next < Oldest)
    <3> DEFINE next == FramesOf({chan[me.next]})
    <3>1. new = [me EXCEPT !.next = me.next + 1, !.shown = me.shown \cup next]
      BY <2>5 DEF Received
    <3>2. next \subseteq Nat /\ (chan[me.next] # 0 => chan[me.next] \in next)
      BY <1>5, <2>1 DEF FramesOf
    <3> HIDE DEF next, new
    <3>3. /\ new \in Rec /\ new.next = me.next + 1 /\ new.first = me.first
          /\ new.told = me.told /\ new.shown = me.shown \cup next
      <4>0. me \in Rec
        BY <1>5
      <4> HIDE DEF me
      <4>1. me.next + 1 \in Nat \ {0}
        BY <4>0
      <4>2. me.shown \cup next \subseteq Nat
        BY <3>2, <4>0
      <4>3. QED
        BY <3>1, <4>0, <4>1, <4>2
    <3>4. \A i \in 1..(new.next - 1) :
             chan[i] > new.first => chan[i] \in new.shown \cup new.told
      BY <1>5, <2>1, <2>2, <3>2, <3>3
    <3>5. new.next <= Len(chan) + 1
      BY <1>5, <2>1, <3>3
    <3>6. QED
      BY <1>6, <2>1, <3>3, <3>4, <3>5
  <2>6. QED
    BY <2>4, <2>5
<1>12. QED
  BY <1>7, <1>8, <1>9, <1>10, <1>11

LEMMA HubInvNext == HubInv /\ [HubNext]_hubVars => HubInv'
<1>1. SUFFICES ASSUME HubInv, [HubNext]_hubVars PROVE HubInv'
  OBVIOUS
<1>2. ASSUME UNCHANGED <<storeVars, pullVars, viewer>>, now' \in Nat, now' >= now PROVE HubInv'
  BY FetchesUntouched, <1>1, <1>2, SMTT(30)
     DEF HubInv, HubTypes, FramesInOrder, FramesSent, FramesOf, Views, CaughtUp, storeVars, pullVars
<1>3. CASE Tick /\ UNCHANGED <<storeVars, pullVars, viewer>>
  BY <1>1, <1>2, <1>3 DEF Tick, HubInv, HubTypes
<1>4. ASSUME NEW p \in Pushers, Offer(p) \/ Admit(p), UNCHANGED <<storeVars, pullVars, viewer>>
      PROVE  HubInv'
  BY <1>1, <1>2, <1>4 DEF Offer, Admit, HubInv, HubTypes
<1>5. CASE UNCHANGED hubVars
  BY <1>1, <1>2, <1>5 DEF hubVars, gateVars, HubInv, HubTypes
<1>6. QED
  BY <1>1, <1>3, <1>4, <1>5, PushKeeps, PublishInv, AskKeeps, LockKeeps, FetchKeeps, DropKeeps,
     LooksOn DEF HubNext

LEMMA HubInvariant == HubSpec => []HubInv
  BY HubInvInit, HubInvNext, PTL DEF HubSpec

(* However pushes and fetches race, events, numbers and the ring agree     *)
(* (store).                                                                *)
THEOREM InOrder == HubSpec => []FramesInOrder
  BY HubInvariant, PTL DEF HubInv

(* For a channel of any capacity a viewer is shown, or told of, every      *)
(* frame newer than the one it was greeted with (stream_loop).             *)
THEOREM NoGap == HubSpec => []NoSilentGap
<1>1. HubInv => NoSilentGap
  BY DEF HubInv, Views, CaughtUp, NoSilentGap
<1>2. QED
  BY <1>1, HubInvariant, PTL

(* For any number of askers: nobody fetches who waited while another's     *)
(* fetch ended, and nobody is answered with an older one (current_frame).  *)
THEOREM OneFetch == HubSpec => FetchShared
<1>1. ASSUME HubInv, [HubNext]_hubVars, NEW a \in Askers, ask[a].pc = "waiting"
      PROVE  /\ ask'[a].pc = "fetching" => a \notin ended
             /\ ask'[a].pc = "answered" => last >= ask[a].asked
  <2>1. ask \in [Askers -> [pc : {"away", "waiting", "fetching", "answered", "dropped"},
                           asked : Nat]]
    BY <1>1 DEF HubInv, HubTypes
  <2>2. ASSUME NEW b \in Askers, Lock(b)
        PROVE  /\ ask'[a].pc = "fetching" => a \notin ended
               /\ ask'[a].pc = "answered" => last >= ask[a].asked
    BY <1>1, <2>1, <2>2 DEF Lock, Shares, Quiet, HubInv, HubTypes, Fetches
  <2>3. ASSUME NEW b \in Askers, Ask(b) \/ Fetch(b) \/ Drop(b)
        PROVE  ask'[a].pc \notin {"fetching", "answered"}
    BY <1>1, <2>1, <2>3 DEF Ask, Fetch, Fetching, Answered, Drop, Quiet
  <2>4. CASE UNCHANGED ask
    BY <1>1, <2>4
  <2>5. QED
    BY <1>1, <2>2, <2>3, <2>4
       DEF HubNext, hubVars, pullVars, Push, Publish, Join, Look, Greet, Receive, Leave
<1>2. HubInv /\ [HubNext]_hubVars =>
        [\A a \in Askers : ask[a].pc = "waiting" =>
           /\ ask'[a].pc = "fetching" => a \notin ended
           /\ ask'[a].pc = "answered" => last >= ask[a].asked]_hubVars
  BY <1>1
<1>3. QED
  BY <1>2, HubInvariant, PTL DEF HubSpec, FetchShared
=============================================================================
