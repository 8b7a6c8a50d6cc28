---------------------------- MODULE SessionBound ----------------------------
(***************************************************************************)
(* How long a session's conversation may grow: bound() of                  *)
(* agent/session.rs.  Every save passes through it.                        *)
(*                                                                         *)
(* A message is a record with at least the fields                          *)
(*   start  TRUE for a user message that is not a batch of tool results    *)
(*   size   the serialised size of its content                             *)
(* and a conversation is a sequence of messages, the oldest first.         *)
(***************************************************************************)
EXTENDS Integers, Sequences, FiniteSetsExt

CONSTANTS MaxMessages,  \* MAX_SESSION_MESSAGES (400 in the code)
          MaxBytes      \* MAX_SESSION_BYTES (8 MiB in the code)

ASSUME BoundAssumption == MaxMessages \in Nat \ {0} /\ MaxBytes \in Nat

(* The size of the messages from i to the end. *)
TailBytes(conv, i) == MapThenSumSet(LAMBDA j : conv[j].size, i..Len(conv))

(* Whether the messages from i on would be within both limits. *)
Fits(conv, i) == Len(conv) - i + 1 <= MaxMessages /\ TailBytes(conv, i) <= MaxBytes

(* The loop of bound() walks back from the newest message and stops after  *)
(* the first one that does not fit: these are the turn starts it meets.    *)
TurnStartsSeen(conv) ==
    {i \in DOMAIN conv : conv[i].start /\ \A j \in i + 1 .. Len(conv) : Fits(conv, j)}

(* The first message kept: the oldest turn start that fits, else the newest *)
(* turn start the loop met; 1 (nothing dropped) when it met none.           *)
FirstKept(conv) ==
    LET seen == TurnStartsSeen(conv)
        fitting == {i \in seen : Fits(conv, i)}
    IN  IF conv = <<>> \/ Fits(conv, 1) THEN 1
        ELSE IF fitting # {} THEN Min(fitting)
        ELSE IF seen # {} THEN Max(seen)
        ELSE 1

(* bound(): drop the oldest whole turns. *)
Bound(conv) == SubSeq(conv, FirstKept(conv), Len(conv))

=============================================================================
