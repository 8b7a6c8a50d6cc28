----------------------------- MODULE DeviceHub -----------------------------
(***************************************************************************)
(* One camera of the device hub (devices.rs): frames pushed to it, frames  *)
(* fetched from it by whoever asks, the ring of the newest frames, the     *)
(* broadcast channel, and the viewers of its stream (ws.rs).               *)
(***************************************************************************)
EXTENDS FrameGate, FiniteSets

CONSTANTS Askers,     \* agents, watchers and requests asking for a frame
          Viewers,    \* sockets on the device's stream
          Keep,       \* frames held in the ring
          Capacity,   \* CHANNEL_CAPACITY
          MaxEvents   \* bound: events sent on the channel

ASSUME HubAssumption ==
    Keep \in Nat \ {0} /\ Capacity \in Nat \ {0} /\ MaxEvents \in Nat

VARIABLES ring,    \* the frames held, by sequence number
          seq,     \* the last sequence number given out
          chan,    \* every event sent: a frame's number, or 0 for another event
          ask,     \* what each asker is doing, and when it asked
          waiting, \* those waiting for the pull lock, in order
          last,    \* when the newest fetch finished; -1 for never
          ended,   \* history: the askers a fetch has ended for since they asked
          viewer   \* what each viewer is doing and has been shown

storeVars == <<ring, seq, chan>>
pullVars == <<ask, waiting, last, ended>>
hubVars == <<gateVars, storeVars, pullVars, viewer>>

Never == -1
Quiet(pc) == [pc |-> pc, asked |-> 0]
Away == [pc |-> "away", next |-> 1, first |-> 0, shown |-> {}, told |-> {}]

HubInit ==
    /\ GateInit
    /\ ring = <<>> /\ seq = 0 /\ chan = <<>>
    /\ ask = [a \in Askers |-> Quiet("away")]
    /\ waiting = <<>> /\ last = Never /\ ended = {}
    /\ viewer = [v \in Viewers |-> Away]

-----------------------------------------------------------------------------
(* Frames and events *)

(* Faulty variant: a full ring gives up its newest frame. *)
Held_Newest(frames) == IF Len(frames) > Keep THEN SubSeq(frames, 1, Keep) ELSE frames

(* The oldest frame leaves a full ring. *)
Held(frames) == IF Len(frames) > Keep THEN Tail(frames) ELSE frames

(* store: the number, the ring and the channel, all under the ring's lock. *)
Store ==
    /\ Len(chan) < MaxEvents
    /\ seq' = seq + 1
    /\ ring' = Held(Append(ring, seq + 1))
    /\ chan' = Append(chan, seq + 1)

Push(p) ==
    /\ Stored(p)
    /\ Store
    /\ UNCHANGED <<pullVars, viewer>>

(* Telemetry or an insight. *)
Publish ==
    /\ Len(chan) < MaxEvents
    /\ chan' = Append(chan, 0)
    /\ UNCHANGED <<gateVars, ring, seq, pullVars, viewer>>

-----------------------------------------------------------------------------
(* current_frame of a camera with a source *)

Ask(a) ==
    /\ ask[a].pc = "away"
    /\ ask' = [ask EXCEPT ![a] = [pc |-> "waiting", asked |-> now]]
    /\ waiting' = Append(waiting, a)
    /\ UNCHANGED <<gateVars, storeVars, last, ended, viewer>>

Fetching(a) == ask[a].pc = "fetching"
LockFree == \A a \in Askers : ~Fetching(a)

(* Faulty variant: every caller fetches for itself. *)
Shares_Never(a) == FALSE

(* A fetch has finished since this caller asked. *)
Shares(a) == last >= ask[a].asked

(* The lock is free and it is this caller's turn: it takes the newest      *)
(* fetch's result, or fetches.                                             *)
Lock(a) ==
    /\ LockFree
    /\ waiting # <<>> /\ Head(waiting) = a
    /\ waiting' = Tail(waiting)
    /\ ask' = [ask EXCEPT ![a] =
                 IF Shares(a) THEN Quiet("answered") ELSE Quiet("fetching")]
    /\ ended' = ended \ {a}
    /\ UNCHANGED <<gateVars, storeVars, last, viewer>>

Answered(a) ==
    /\ ask' = [ask EXCEPT ![a] = Quiet("answered")]
    /\ last' = now
    /\ ended' = ended \cup {b \in Askers : ask[b].pc = "waiting"}

(* The fetch brings a frame, which is stored, or fails: either way those   *)
(* who wait for it will share it.                                          *)
Fetch(a) ==
    /\ Fetching(a)
    /\ Answered(a)
    /\ Store \/ UNCHANGED storeVars
    /\ UNCHANGED <<gateVars, waiting, viewer>>

(* A caller's request times out: its wait or its fetch is dropped, and the *)
(* lock with it.                                                           *)
Drop(a) ==
    /\ ask[a].pc \in {"waiting", "fetching"}
    /\ ask' = [ask EXCEPT ![a] = Quiet("dropped")]
    /\ waiting' = SelectSeq(waiting, LAMBDA b : b # a)
    /\ ended' = ended \ {a}
    /\ UNCHANGED <<gateVars, storeVars, last, viewer>>

-----------------------------------------------------------------------------
(* stream_loop *)

Latest == IF ring = <<>> THEN 0 ELSE ring[Len(ring)]

(* Frames' numbers are positive. *)
FramesOf(events) == events \ {0}

Join(v) ==
    /\ viewer[v].pc = "away"
    /\ viewer' = [viewer EXCEPT ![v].pc = "joined", ![v].next = Len(chan) + 1]
    /\ UNCHANGED <<gateVars, storeVars, pullVars>>

(* The opening: the newest frame is read after the channel was joined. *)
Look(v) ==
    /\ viewer[v].pc = "joined"
    /\ viewer' = [viewer EXCEPT ![v].pc = "greeted", ![v].first = Latest,
                                ![v].shown = FramesOf({Latest})]
    /\ UNCHANGED <<gateVars, storeVars, pullVars>>

(* Faulty variant: the channel is joined once the opening is delivered. *)
Greeted_Joins(v) == [viewer[v] EXCEPT !.pc = "open", !.next = Len(chan) + 1]

Greeted(v) == [viewer[v] EXCEPT !.pc = "open"]

(* The opening was delivered. *)
Greet(v) ==
    /\ viewer[v].pc = "greeted"
    /\ viewer' = [viewer EXCEPT ![v] = Greeted(v)]
    /\ UNCHANGED <<gateVars, storeVars, pullVars>>

(* The oldest event the channel still holds. *)
Oldest == IF Len(chan) > Capacity THEN Len(chan) - Capacity + 1 ELSE 1

(* The next event, or word of how many were missed. *)
Received(v) ==
    LET me == viewer[v]
    IN  IF me.next < Oldest
        THEN [me EXCEPT !.next = Oldest,
                        !.told = me.told \cup FramesOf({chan[i] : i \in me.next..(Oldest - 1)})]
        ELSE [me EXCEPT !.next = me.next + 1,
                        !.shown = me.shown \cup FramesOf({chan[me.next]})]

Receive(v) ==
    /\ viewer[v].pc = "open" /\ viewer[v].next <= Len(chan)
    /\ viewer' = [viewer EXCEPT ![v] = Received(v)]
    /\ UNCHANGED <<gateVars, storeVars, pullVars>>

(* It closed, or stopped reading. *)
Leave(v) ==
    /\ viewer[v].pc # "away"
    /\ viewer' = [viewer EXCEPT ![v] = Away]
    /\ UNCHANGED <<gateVars, storeVars, pullVars>>

-----------------------------------------------------------------------------
HubNext ==
    \/ Tick /\ UNCHANGED <<storeVars, pullVars, viewer>>
    \/ \E p \in Pushers :
        \/ (Offer(p) \/ Admit(p)) /\ UNCHANGED <<storeVars, pullVars, viewer>>
        \/ Push(p)
    \/ Publish
    \/ \E a \in Askers : Ask(a) \/ Lock(a) \/ Fetch(a) \/ Drop(a)
    \/ \E v \in Viewers : Join(v) \/ Look(v) \/ Greet(v) \/ Receive(v) \/ Leave(v)

HubSpec == HubInit /\ [][HubNext]_hubVars

-----------------------------------------------------------------------------
HubTypeOK ==
    /\ GateTypeOK
    /\ ring \in Seq(1..MaxEvents) /\ Len(ring) <= Keep
    /\ seq \in 0..MaxEvents
    /\ chan \in Seq(0..MaxEvents)
    /\ ask \in [Askers -> [pc : {"away", "waiting", "fetching", "answered", "dropped"},
                           asked : 0..MaxTime]]
    /\ waiting \in Seq(Askers)
    /\ last \in {Never} \cup 0..MaxTime
    /\ ended \subseteq Askers
    /\ viewer \in [Viewers -> [pc : {"away", "joined", "greeted", "open"},
                               next : 1..(MaxEvents + 1), first : 0..MaxEvents,
                               shown : SUBSET (1..MaxEvents), told : SUBSET (1..MaxEvents)]]

FramesSent == FramesOf({chan[i] : i \in DOMAIN chan})

(* Every frame stored is sent, in the order of the numbers, and the ring   *)
(* holds the newest, however pushes and fetches race (store).              *)
FramesInOrder ==
    /\ FramesSent = 1..seq
    /\ \A i, j \in DOMAIN chan :
          i < j /\ chan[i] # 0 /\ chan[j] # 0 => chan[i] < chan[j]
    /\ Len(ring) = IF seq > Keep THEN Keep ELSE seq
    /\ \A k \in DOMAIN ring : ring[k] = seq - Len(ring) + k

(* A viewer misses no frame newer than the one it was greeted with without *)
(* being told ("a slow subscriber misses frames [...]; it is told how      *)
(* many"): joining, looking and receiving leave no gap (stream_loop).      *)
NoSilentGap ==
    \A v \in Viewers : viewer[v].pc = "open" =>
        \A i \in 1..(viewer[v].next - 1) :
            chan[i] > viewer[v].first => chan[i] \in viewer[v].shown \cup viewer[v].told

(* "Everyone who asks while a fetch is in flight shares it": whoever       *)
(* waited while a fetch ended fetches nothing.  And nobody is answered     *)
(* with a fetch that ended before it asked.                                *)
FetchShared ==
    [][\A a \in Askers : ask[a].pc = "waiting" =>
        /\ ask'[a].pc = "fetching" => a \notin ended
        /\ ask'[a].pc = "answered" => last >= ask[a].asked]_hubVars

=============================================================================
