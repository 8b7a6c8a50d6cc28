------------------------------ MODULE ModelWire ------------------------------
(* What a model provider is sent, and how long it is asked.  A run keeps one *)
(* conversation in Anthropic's shape; before each step old images are turned *)
(* into text (agent/vision.rs), the model's name picks a provider            *)
(* (agent/registry.rs), the conversation is written in that provider's       *)
(* format and sent, with retries, and the answer is read back into the       *)
(* conversation (agent/provider.rs).  Servers omit call ids, repeat them and *)
(* misreport why they stopped; a handoff or a session takes a conversation   *)
(* from one format to the other.                                             *)
(*                                                                           *)
(* Of a text only whether it is empty is modelled.  An image is the number   *)
(* of its shot, counted over the whole conversation.  An id is a pair:       *)
(* <<0, k>> came from a server, <<0, 0>> is a missing or an empty one, and   *)
(* <<n, i>> was made for the i-th call of message n.  Approvals and what     *)
(* tools do are in AgentRun; compaction, a session's bound and its expiry,   *)
(* which take messages and their images out of a conversation, are there and *)
(* in SessionTurns, and not here.                                            *)
EXTENDS Integers, Sequences, FiniteSets, SequencesExt, Functions, TLC

CONSTANTS
  Names,       \* the names of models
  Written,     \* those an agent of the application is declared with
  Aliases,     \* a function from some names to names (app.models)
  Prefix,      \* of each name: what stands before its slash, "" for nothing
  Gpt,         \* the bare names that begin as OpenAI's do
  Declared,    \* app.provider: of each declared prefix, its kind and its key
  Keys,        \* the vendors whose API key is set: of "anthropic", "openai"
  Given,       \* the ids servers write, besides none
  MaxImages,   \* images taken from one request or one tool result
  MaxKept,     \* policy.max_images
  MaxSteps,    \* the agent's max_steps
  Retries,     \* PROVIDER_RETRIES
  Longest,     \* MAX_RETRY_AFTER, in quarters of a second
  Asked,       \* the retry-after values a provider may send, of those a
               \* Duration holds (Dropped has the others); -1 for none
  MaxCalls,    \* bound: tool calls in one answer
  MaxShots,    \* bound: images in one request or one result
  MaxTurns,    \* bound: turns of the conversation
  MaxSent      \* bound: messages of a conversation that is sent

ASSUME WireAssumption ==
  /\ Aliases \in [DOMAIN Aliases -> Names] /\ DOMAIN Aliases \subseteq Names
  /\ Written \subseteq Names /\ Prefix \in [Names -> STRING] /\ Gpt \subseteq Names
  /\ Keys \subseteq {"anthropic", "openai"} /\ Given \subseteq {0} \X (Nat \ {0})
  /\ MaxImages \in Nat /\ MaxKept \in Nat /\ MaxSteps \in Nat
  /\ Retries \in Nat /\ Longest \in Nat /\ Asked \subseteq Nat \cup {-1}
  /\ \A a \in 0..Retries : 2^a \in 0..Longest
  /\ MaxCalls \in Nat /\ MaxShots \in Nat

VARIABLES
  conv,        \* st.conversation.messages
  shots,       \* images taken into the conversation so far
  model,       \* st.def.model
  pc,          \* "idle", "step", "sending", "asleep" or "tools"
  steps,       \* st.usage.steps
  attempt,     \* of send_with_retries
  asleep,      \* slept during this completion, in quarters of a second
  turns,       \* turns asked, for MaxTurns
  saved        \* the conversation the last run that ended left, and its shots

vars == <<conv, shots, model, pc, steps, attempt, asleep, turns, saved>>

Init ==
  /\ conv = <<>> /\ shots = 0 /\ model \in Written /\ pc = "idle"
  /\ steps = 0 /\ attempt = 0 /\ asleep = 0 /\ turns = 0
  /\ saved = [conv |-> <<>>, shots |-> 0]

---------------------------------------------------------------------------
(* Names and providers *)

\* The prefixes that have a provider, each with its format.  Ollama is built
\* in; a declared provider of that name replaces it, unless it is of
\* Anthropic's kind and has no key, for then it is not built.
Prefixed ==
  [p \in {d \in DOMAIN Declared : Declared[d].kind # "anthropic" \/ Declared[d].keyed}
     |-> IF Declared[p].kind = "anthropic" THEN "anthropic" ELSE "openai"]
  @@ ("ollama" :> "openai")

ResolveAlias(name) ==
  LET hop[i \in 0..8] ==
        IF i = 0 THEN name
        ELSE IF hop[i - 1] \in DOMAIN Aliases THEN Aliases[hop[i - 1]] ELSE hop[i - 1]
  IN hop[8]

\* The format the provider of a concrete name speaks, "none" without one.
Route(name) ==
  LET p == Prefix[name]
      vendor == IF p # "" THEN p ELSE IF name \in Gpt THEN "openai" ELSE "anthropic"
  IN IF p \in DOMAIN Prefixed THEN Prefixed[p]
     ELSE IF vendor \in Keys THEN vendor ELSE "none"

Format == Route(ResolveAlias(model))

---------------------------------------------------------------------------
(* Images *)

Text == [type |-> "text"]

\* A caller's words when they are empty: the content of a request without
\* images, or the text block after its images.
Blank == [type |-> "blank"]

\* Any other block a model of Anthropic's answers with, thinking for one.
Other == [type |-> "other"]

Image(shot) == [type |-> "image", shot |-> shot]

\* The images a block shows.
ShotOf(block) == IF block.type = "image" THEN <<block.shot>> ELSE <<>>

Seen(block) ==
  IF block.type = "tool_result"
  THEN FlattenSeq([j \in DOMAIN block.content |-> ShotOf(block.content[j])])
  ELSE ShotOf(block)

Shots(blocks) == FlattenSeq([i \in DOMAIN blocks |-> Seen(blocks[i])])

AllShots(messages) == FlattenSeq([i \in DOMAIN messages |-> Shots(messages[i].blocks)])

\* A block without the images that are old.
Faded(block, old) == IF block.type = "image" /\ block.shot \in old THEN Text ELSE block

Without(blocks, old) ==
  [i \in DOMAIN blocks |->
    IF blocks[i].type = "tool_result"
    THEN [blocks[i] EXCEPT !.content = [j \in DOMAIN @ |-> Faded(@[j], old)]]
    ELSE Faded(blocks[i], old)]

\* A mutant: images inside tool results are overlooked.
Prune_Flat(messages, keep) ==
  LET all == AllShots(messages)
      old == {all[i] : i \in 1..(Len(all) - keep)}
  IN [m \in DOMAIN messages |->
       [messages[m] EXCEPT !.blocks =
          [i \in DOMAIN @ |-> Faded(@[i], old)]]]

\* The messages with all but the newest images turned into text, where they
\* stand: beside the words of a request or inside a tool result.
Prune(messages, keep) ==
  LET all == AllShots(messages)
      old == {all[i] : i \in 1..(Len(all) - keep)}
  IN [m \in DOMAIN messages |-> [messages[m] EXCEPT !.blocks = Without(@, old)]]

Taken(found, first) == [i \in 1..found |-> Image(first + i)]

\* The images of a tool result that holds `found` of them: the rest are
\* mentioned in its text.
Extract(found, first) == Taken(IF found > MaxImages THEN MaxImages ELSE found, first)

---------------------------------------------------------------------------
(* What is sent *)

Ids(blocks, type) ==
  FlattenSeq([i \in DOMAIN blocks |-> IF blocks[i].type = type THEN <<blocks[i].id>> ELSE <<>>])

Says(blocks) == \E i \in DOMAIN blocks : blocks[i] = Text

\* One message of a request: whether it holds text, or another block of the
\* model's own, the calls it makes, the calls it answers and the images it
\* shows.
Entry(role, text, calls, answers, seen) ==
  [role |-> role, text |-> text, calls |-> calls, answers |-> answers, shots |-> seen]

\* One message as the Messages API takes it: as it is.
ToAnthropic(m) ==
  Entry(m.role, Says(m.blocks) \/ Other \in ToSet(m.blocks),
        Ids(m.blocks, "tool_use"), Ids(m.blocks, "tool_result"), Shots(m.blocks))

AnthropicBody(messages) == [i \in DOMAIN messages |-> ToAnthropic(messages[i])]

\* One message as Chat Completions writes it.  Tool messages carry text only,
\* so every image of the results follows in one user message after them, with
\* a line for each result.  Other blocks are left out, and an answer of those
\* alone has null content.
ToOpenAi(m) ==
  LET answers == Ids(m.blocks, "tool_result")
      seen == Shots(m.blocks)
  IN IF m.role = "assistant"
     THEN <<Entry("assistant", Says(m.blocks), Ids(m.blocks, "tool_use"), <<>>, <<>>)>>
     ELSE [i \in DOMAIN answers |-> Entry("tool", TRUE, <<>>, <<answers[i]>>, <<>>)]
          \o (IF seen = <<>> /\ ~Says(m.blocks) /\ m.blocks # <<Blank>> THEN <<>>
              ELSE <<Entry("user", Says(m.blocks) \/ answers # <<>>, <<>>, <<>>, seen)>>)

OpenAiBody(messages) == FlattenSeq([i \in DOMAIN messages |-> ToOpenAi(messages[i])])

\* What a request has for one message of the conversation.
Sent(m) == IF Format = "anthropic" THEN {ToAnthropic(m)} ELSE ToSet(ToOpenAi(m))

\* The request of the completion under way.
Wire == IF Format = "anthropic" THEN AnthropicBody(conv) ELSE OpenAiBody(conv)

---------------------------------------------------------------------------
(* What is read back *)

\* A mutant: the id as it was given.
CallId_AsGiven(given, seen, fresh) == given

CallId(given, seen, fresh) == IF given \in Given \ seen THEN given ELSE fresh

\* The ids of the calls of one answer, each unlike those before it.
CallIds(given) ==
  LET upto[i \in 0..Len(given)] ==
        IF i = 0 THEN <<>>
        ELSE Append(upto[i - 1], CallId(given[i], ToSet(upto[i - 1]), <<Len(conv) + 1, i>>))
  IN upto[Len(given)]

ParseAnthropic(stop) ==
  IF stop = "calls" THEN "tool_use" ELSE IF stop = "cut" THEN "max_tokens" ELSE "end_turn"

\* Ollama, vLLM and others say `stop` for an answer that holds calls.
ParseOpenAi(stop, calls) ==
  IF stop = "calls" THEN "tool_use"
  ELSE IF stop = "cut" THEN "max_tokens"
  ELSE IF calls # <<>> THEN "tool_use" ELSE "end_turn"

StopReason(stop, calls) ==
  IF Format = "anthropic" THEN ParseAnthropic(stop) ELSE ParseOpenAi(stop, calls)

\* An answer as the conversation keeps it: without empty texts, and without
\* calls that will not run.
Replayable(other, text, calls, runs) ==
  (IF other THEN <<Other>> ELSE <<>>) \o (IF text THEN <<Text>> ELSE <<>>)
  \o (IF runs THEN [i \in DOMAIN calls |-> [type |-> "tool_use", id |-> calls[i]]] ELSE <<>>)

---------------------------------------------------------------------------
(* The run *)

\* A request, with its images before its words, which may be empty.
Ask(found, worded, m) ==
  /\ pc = "idle" /\ turns < MaxTurns /\ Len(conv) < MaxSent
  /\ found <= MaxImages
  /\ conv' = Append(conv, [role |-> "user",
                           blocks |-> Append(Taken(found, shots), IF worded THEN Text ELSE Blank)])
  /\ shots' = shots + found /\ turns' = turns + 1
  /\ model' = m /\ steps' = 0 /\ pc' = "step"
  /\ UNCHANGED <<attempt, asleep, saved>>

\* A run that ends saves its conversation, failed or not.
EndRun ==
  /\ pc' = "idle" /\ attempt' = 0 /\ asleep' = 0
  /\ saved' = [conv |-> conv', shots |-> shots']

StepLimit ==
  /\ pc = "step" /\ steps >= MaxSteps
  /\ UNCHANGED <<conv, shots, model, steps, turns>>
  /\ EndRun

Prepare ==
  /\ pc = "step" /\ steps < MaxSteps /\ Len(conv) <= MaxSent
  /\ conv' = Prune(conv, MaxKept)
  /\ UNCHANGED <<shots, model, steps, turns>>
  /\ IF Format = "none" THEN EndRun
     ELSE pc' = "sending" /\ UNCHANGED <<attempt, asleep, saved>>

\* A mutant: the provider's word is taken however long it asks for.
RetryDelay_AsTold(n, after) == IF after >= 0 THEN after ELSE 2^n

RetryDelay(n, after) == IF after \in 0..Longest THEN after ELSE 2^n

\* A refused connection or one of RETRY_STATUSES is waited out and asked again
\* while attempts are left.  A timeout, another status, a body that cannot be
\* read and an error in the body of a success end the run.
SendWithRetries(transient, after) ==
  /\ pc = "sending"
  /\ UNCHANGED <<conv, shots, model, steps, turns>>
  /\ IF transient /\ attempt < Retries
     THEN /\ asleep' = asleep + RetryDelay(attempt, after)
          /\ attempt' = attempt + 1 /\ pc' = "asleep" /\ UNCHANGED saved
     ELSE EndRun

Wake ==
  /\ pc = "asleep" /\ pc' = "sending"
  /\ UNCHANGED <<conv, shots, model, steps, attempt, asleep, turns, saved>>

\* The run is dropped while it waits: its caller has gone, or a retry-after was
\* finite and too large for a Duration, which panics whatever the status.  The
\* session is as the last run that ended left it.
Dropped ==
  /\ pc \in {"sending", "asleep", "tools"}
  /\ conv' = saved.conv /\ shots' = saved.shots
  /\ pc' = "idle" /\ attempt' = 0 /\ asleep' = 0
  /\ UNCHANGED <<model, steps, turns, saved>>

\* The answer holds text or not, calls with the ids it gives them, and the
\* reason it stopped; in Anthropic's format, other blocks too.
Complete(other, text, given, stop) ==
  /\ pc = "sending" /\ (other => Format = "anthropic")
  /\ steps' = steps + 1 /\ UNCHANGED <<shots, model, turns>>
  /\ LET calls == CallIds(given)
         runs == StopReason(stop, calls) = "tool_use" /\ calls # <<>>
         kept == Replayable(other, text, calls, runs)
     IN /\ conv' = IF kept = <<>> THEN conv
                   ELSE Append(conv, [role |-> "assistant", blocks |-> kept])
        /\ IF runs THEN pc' = "tools" /\ attempt' = 0 /\ asleep' = 0 /\ UNCHANGED saved
           ELSE EndRun

\* The calls of the last answer are run in order, each result with the images
\* it holds, and a handoff among them may change the model.
Tools(found, m) ==
  /\ pc = "tools"
  /\ LET calls == Ids(Last(conv).blocks, "tool_use")
         first[i \in 1..(Len(calls) + 1)] ==
           IF i = 1 THEN shots ELSE first[i - 1] + Len(Extract(found[i - 1], 0))
     IN /\ conv' = Append(conv, [role |-> "user", blocks |->
                     [i \in DOMAIN calls |->
                       [type |-> "tool_result", id |-> calls[i],
                        content |-> <<Text>> \o Extract(found[i], first[i])]]])
        /\ shots' = first[Len(calls) + 1]
  /\ model' = m /\ pc' = "step"
  /\ UNCHANGED <<steps, attempt, asleep, turns, saved>>

Requests ==
  \E found \in 0..MaxShots, worded \in BOOLEAN, m \in Written : Ask(found, worded, m)
Sends == \E transient \in BOOLEAN, after \in Asked : SendWithRetries(transient, after)
Answers ==
  \E other, text \in BOOLEAN, given \in SeqOf(Given \cup {<<0, 0>>}, MaxCalls),
     stop \in {"end", "calls", "cut"} : Complete(other, text, given, stop)
Results == \E found \in [1..MaxCalls -> 0..MaxShots], m \in Written : Tools(found, m)

Next == Requests \/ StepLimit \/ Prepare \/ Sends \/ Wake \/ Dropped \/ Answers \/ Results

Spec == Init /\ [][Next]_vars

---------------------------------------------------------------------------
(* Properties *)

\* The calls answered after message i of a request, up to the first message
\* that answers none.
AnsweredAfter(ms, i) ==
  LET stops == {j \in (i + 1)..Len(ms) : ms[j].answers = <<>>} \cup {Len(ms) + 1}
      end == CHOOSE j \in stops : \A k \in stops : j <= k
  IN FlattenSeq([j \in 1..(end - i - 1) |-> ms[i + j].answers])

HoldsSome(e) == e.text \/ e.calls # <<>> \/ e.answers # <<>> \/ e.shots # <<>>

\* The messages that are sent although nothing is in them: a question without
\* words or images and, in Chat Completions, an answer of other blocks alone.
MayBeEmpty(m) ==
  \/ m.blocks = <<Blank>>
  \/ Format # "anthropic" /\ ToSet(m.blocks) = {Other}

\* Providers refuse a request in which a call has no answer right after it, an
\* answer has no call right before it, two calls of one message share an id,
\* or a message holds nothing; and a session keeps such a conversation for
\* good.  No request is like that, in either format, whatever ids and stop
\* reasons the servers wrote, wherever tools returned images and wherever a
\* run was dropped, but for the two kinds of message the code does send with
\* nothing in them.  An empty text beside images is sent as well, which is not
\* what this is about (provider.rs:228, provider.rs:549, agent.rs:439,
\* agent.rs:700).
WireAccepted ==
  pc = "sending" /\ attempt = 0 =>
    LET ms == Wire
    IN /\ \A i \in DOMAIN ms :
            /\ ms[i].calls # <<>> =>
                 /\ Cardinality(ToSet(ms[i].calls)) = Len(ms[i].calls)
                 /\ AnsweredAfter(ms, i) = ms[i].calls
            /\ ms[i].answers # <<>> =>
                 \E k \in 1..(i - 1) : ms[k].calls # <<>> /\ \A j \in (k + 1)..i : ms[j].answers # <<>>
       /\ \A i \in DOMAIN conv :
            MayBeEmpty(conv[i]) \/ \A e \in Sent(conv[i]) : HoldsSome(e)

\* Every step pays for the whole conversation again.  A request shows the
\* newest images, as many as the policy allows, in the order they were taken:
\* none is resent for ever and none newer is dropped for an older one,
\* whichever format carries them, in a conversation that is not compacted or
\* cut (vision.rs:243, provider.rs:549).
NewestImages ==
  pc = "sending" /\ attempt = 0 =>
    LET ms == Wire
        n == IF shots < MaxKept THEN shots ELSE MaxKept
    IN FlattenSeq([i \in DOMAIN ms |-> ms[i].shots]) = [i \in 1..n |-> shots - n + i]

\* However a provider misbehaves, one completion sleeps no longer than its
\* retries times the longest retry-after that is honoured (provider.rs:112).
PatienceBounded == asleep <= Retries * Longest
=============================================================================
