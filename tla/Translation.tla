---------------------------- MODULE Translation ----------------------------
(***************************************************************************)
(* proxy/translators/, as the handlers of a request use them: one backend  *)
(* of the chain after the other is sent the request in its own dialect,    *)
(* made each time from the same parsed body, until one answers, and its    *)
(* answer is translated back.                                              *)
(*                                                                         *)
(* A text is a number, the position of its message in the request or of    *)
(* its part in the answer: what matters is which texts arrive, in which    *)
(* order, and as whose.  Models, options and headers are copied one by one *)
(* and stay out.                                                           *)
(***************************************************************************)
EXTENDS Integers, Sequences, SequencesExt, Subsequences

CONSTANTS
    Conversations,  \* what clients may send: sequences of roles
    Replies,        \* what backends may answer, for each dialect
    MaxCalls        \* bound of the model: the backends of a chain

Roles == {"system", "user", "assistant", "tool"}

\* finish_reason_map of anthropic.py and reason_map of gemini.py.
AnthropicReasons ==
    [end_turn |-> "stop", max_tokens |-> "length", stop_sequence |-> "stop", tool_use |-> "tool_calls"]
GeminiReasons ==
    [STOP |-> "stop", MAX_TOKENS |-> "length", SAFETY |-> "content_filter",
     RECITATION |-> "content_filter"]

\* An answer has parts and a reason why it ends; the body of an error has no parts, and "none".
Dialects == {"openai", "anthropic", "google"}
ReplyType == [parts : Seq({"text", "call"}), reason : STRING \ {"waiting"}]

TranslationAssumption ==
    /\ Conversations \subseteq Seq(Roles)
    /\ DOMAIN Replies = Dialects
    /\ \A d \in Dialects : Replies[d] \subseteq ReplyType
    /\ MaxCalls \in Nat

VARIABLES
    asked,      \* history: the roles of the messages the client sent
    messages,   \* the messages of request_body
    calls,      \* the backends tried, each with the request it was sent
    reply,      \* what the last of them answered
    answer      \* what the client gets

vars == <<asked, messages, calls, reply, answer>>

NoReply == [parts |-> <<>>, reason |-> "waiting"]
NoAnswer == [texts |-> <<>>, reason |-> "waiting"]

Init ==
    /\ asked \in Conversations
    /\ messages = [n \in DOMAIN asked |-> [role |-> asked[n], texts |-> <<n>>]]
    /\ calls = <<>>
    /\ reply = NoReply /\ answer = NoAnswer
-----------------------------------------------------------------------------
TextsOf(ms) == FlattenSeq([n \in DOMAIN ms |-> ms[n].texts])

SystemTexts == TextsOf(Only(messages, {m \in ToSet(messages) : m.role = "system"}))
Others == Only(messages, {m \in ToSet(messages) : m.role # "system"})

ToAnthropic == [system |-> SystemTexts, turns |-> Others]

GeminiTurns ==
    [n \in DOMAIN Others |->
        [role |-> IF Others[n].role = "assistant" THEN "model" ELSE "user",
         texts |-> Others[n].texts]]

\* The system messages are prepended to the first message of a user, if there is one.
ToGemini ==
    LET first == SelectInSeq(GeminiTurns, LAMBDA t : t.role = "user") IN
    [system |-> <<>>,
     turns |-> IF first = 0 THEN GeminiTurns
               ELSE [GeminiTurns EXCEPT ![first].texts = SystemTexts \o @]]

\* translate_request; any other backend is sent the body as it is.
Request(d) ==
    CASE d = "anthropic" -> ToAnthropic
      [] d = "google" -> ToGemini
      [] OTHER -> [system |-> <<>>, turns |-> messages]

\* Mutated form of Call: the translator works on the messages it was given.
CallInPlace(d) ==
    /\ reply = NoReply /\ Len(calls) < MaxCalls
    /\ calls' = Append(calls, [to |-> d, request |-> Request(d)])
    /\ messages' = IF d = "google" THEN ToGemini.turns ELSE messages
    /\ UNCHANGED <<asked, reply, answer>>

\* One turn of the loop over backends_to_try.
Call(d) ==
    /\ reply = NoReply /\ Len(calls) < MaxCalls
    /\ calls' = Append(calls, [to |-> d, request |-> Request(d)])
    /\ UNCHANGED <<asked, messages, reply, answer>>
-----------------------------------------------------------------------------
Texts(parts) == Only(Positions(parts), {n \in DOMAIN parts : parts[n] = "text"})

\* finish_reason_map.get(..., "stop")
Mapped(reasons, reason) == IF reason \in DOMAIN reasons THEN reasons[reason] ELSE "stop"

\* Mutated form of Speaker: the answer is taken to be the primary backend's.
SpeakerFirst == Head(calls).to

\* The backend that answered, in whose dialect translate_response reads the answer.
Speaker == Last(calls).to

FinishReason(reason) ==
    CASE Speaker = "anthropic" -> Mapped(AnthropicReasons, reason)
      [] Speaker = "google" -> Mapped(GeminiReasons, reason)
      [] OTHER -> reason

\* Calls of tools are dropped; an error becomes an answer without text that ended normally.
Answer(rep) ==
    /\ calls # <<>> /\ reply = NoReply
    /\ reply' = rep
    /\ answer' = [texts |-> Texts(rep.parts), reason |-> FinishReason(rep.reason)]
    /\ UNCHANGED <<asked, messages, calls>>

Next ==
    \/ \E d \in Dialects : Call(d)
    \/ calls # <<>> /\ \E rep \in Replies[Last(calls).to] : Answer(rep)
-----------------------------------------------------------------------------
\* The texts of the client, by whose they are.
System == {n \in DOMAIN asked : asked[n] = "system"}
Models == {n \in DOMAIN asked : asked[n] = "assistant"}
NotSystem == DOMAIN asked \ System

Told(request) == request.system \o TextsOf(request.turns)

\* The texts that a request puts into the mouth of the model.
AsModel(request) ==
    ToSet(TextsOf(Only(request.turns,
                       {t \in ToSet(request.turns) : t.role \in {"assistant", "model"}})))

HasUser == \E n \in DOMAIN asked : asked[n] \in {"user", "tool"}

(***************************************************************************)
(* Whichever backends were tried before it, and in whatever dialects, a    *)
(* backend is told the whole conversation, once and in its order, and none *)
(* of it as said by the model but what the model said.  The instructions   *)
(* of the system are told in their order, too, except to Gemini when       *)
(* nobody else but the model has spoken.                                   *)
(***************************************************************************)
SameConversation ==
    \A n \in DOMAIN calls :
        LET request == calls[n].request IN
        /\ ToSet(Told(request)) \subseteq DOMAIN asked
        /\ Only(Told(request), NotSystem) = Only(Positions(asked), NotSystem)
        /\ Only(Told(request), System) =
               IF calls[n].to = "google" /\ ~HasUser THEN <<>> ELSE Only(Positions(asked), System)
        /\ AsModel(request) = Models

(***************************************************************************)
(* An answer that its backend cut short is not passed off as a whole one,  *)
(* and one that is whole not as cut short, whichever backends were tried   *)
(* before; and all of its text arrives, in order.                          *)
(***************************************************************************)
CutShort == [openai |-> "length", anthropic |-> "max_tokens", google |-> "MAX_TOKENS"]

AnswerKept ==
    reply # NoReply =>
        /\ answer.reason = "length" <=> reply.reason = CutShort[Last(calls).to]
        /\ \A m, n \in DOMAIN answer.texts : m < n => answer.texts[m] < answer.texts[n]
        /\ ToSet(answer.texts) = {n \in DOMAIN reply.parts : reply.parts[n] = "text"}
=============================================================================
