------------------------------ MODULE FrameGate ------------------------------
(***************************************************************************)
(* Device::admit (devices.rs): the frames of one device held to max_fps by *)
(* a generic cell rate algorithm that lets a frame be half an interval     *)
(* early.  A push reads the clock before it takes the lock, so pushes may  *)
(* be judged in another order than they arrived in.                        *)
(***************************************************************************)
EXTENDS Integers, Sequences

CONSTANTS Pushers,  \* requests and sockets pushing frames to the device
          Half,     \* half an interval, in ticks of the clock
          MaxTime   \* bound: the clock

ASSUME GateAssumption == Half \in Nat \ {0} /\ MaxTime \in Nat

VARIABLES now,      \* Instant::now()
          push,     \* what each pusher is doing, and the instant it read
          due,      \* next_due; 0, in no frame's future, for None
          accepted  \* history: the instants of the frames accepted

gateVars == <<now, push, due, accepted>>

Interval == 2 * Half

NoPush == [pc |-> "idle", at |-> 0]

GateInit ==
    /\ now = 0 /\ due = 0 /\ accepted = <<>>
    /\ push = [p \in Pushers |-> NoPush]

Tick ==
    /\ now < MaxTime
    /\ now' = now + 1
    /\ UNCHANGED <<push, due, accepted>>

(* A valid frame has arrived: admit's argument is evaluated. *)
Offer(p) ==
    /\ push[p].pc = "idle"
    /\ push' = [push EXCEPT ![p] = [pc |-> "arrived", at |-> now]]
    /\ UNCHANGED <<now, due, accepted>>

TooFast(at) == at + Half < due

(* Faulty variant: time in which nothing came is saved up. *)
NextDue_SavesUp(at) == due + Interval

(* The next frame is due an interval after this one was, or came. *)
NextDue(at) == (IF due > at THEN due ELSE at) + Interval

(* admit, under the lock: the frame is let in, or dropped. *)
Admit(p) ==
    /\ push[p].pc = "arrived"
    /\ LET at == push[p].at
       IN  IF TooFast(at)
           THEN /\ push' = [push EXCEPT ![p] = NoPush]
                /\ UNCHANGED <<due, accepted>>
           ELSE /\ due' = NextDue(at)
                /\ accepted' = Append(accepted, at)
                /\ push' = [push EXCEPT ![p] = [pc |-> "admitted", at |-> 0]]
    /\ UNCHANGED now

(* The frame admitted is stored, and its push is over. *)
Stored(p) ==
    /\ push[p].pc = "admitted"
    /\ push' = [push EXCEPT ![p] = NoPush]
    /\ UNCHANGED <<now, due, accepted>>

GateNext == Tick \/ \E p \in Pushers : Offer(p) \/ Admit(p) \/ Stored(p)

GateSpec == GateInit /\ [][GateNext]_gateVars

-----------------------------------------------------------------------------
GateTypeOK ==
    /\ now \in 0..MaxTime
    /\ push \in [Pushers -> [pc : {"idle", "arrived", "admitted"}, at : 0..MaxTime]]
    /\ due \in Nat
    /\ accepted \in Seq(0..MaxTime)

(* "The long-run rate still never exceeds max_fps, and no two frames are   *)
(* accepted closer together than half an interval": over any run of        *)
(* frames, by the instants admit was given, however the pushes race.       *)
RateHeld ==
    \A i, j \in DOMAIN accepted :
        i < j => accepted[j] - accepted[i] >= (j - i) * Interval - Half

=============================================================================
