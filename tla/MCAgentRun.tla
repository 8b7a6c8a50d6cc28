----------------------------- MODULE MCAgentRun -----------------------------
(* AgentRun on small instances: a triage agent that may hand over to a     *)
(* specialist, one tool that looks and one that deletes and needs a human. *)
EXTENDS AgentRun, TLC

CONSTANTS triage, specialist, look, delete, read, write, star

OneWay == triage :> {specialist} @@ specialist :> {}
SplitTools == triage :> {look, delete} @@ specialist :> {look, delete}

DeclareAll == triage :> {write} @@ specialist :> {star}

NeedWrite == look :> {} @@ delete :> {write}

Asks == triage :> 2 @@ specialist :> 1
RootCaller == {{star}}

(* What the audit says of calls that nobody holds any more is not told apart. *)
Held == {calls[i].id : i \in DOMAIN calls} \cup
        UNION {{p.calls[i].id : i \in DOMAIN p.calls} : p \in parked}
View == <<st, phase, callVars, parked, sessionVars, nextTurn,
          ran \cap Held, approved \cap Held, declined \cap Held>>

=============================================================================
