----------------------------- MODULE MCStreams -----------------------------
(***************************************************************************)
(* Every conversation of at most three messages, told to two backends of a *)
(* chain in any dialects.  Of each a buffered answer with text on both     *)
(* sides of a call of a tool, one that was cut short, one that ends for a  *)
(* reason the translator does not know, and an error; and a streamed one,  *)
(* long enough for a chunk that cuts one event and carries another.  A     *)
(* stream of Gemini may end without an end mark, or have one too early.    *)
(***************************************************************************)
EXTENDS Exchange

Roles == {"system", "user", "assistant", "tool"}
UpToThree == UNION {[1 .. n -> Roles] : n \in 0 .. 3}

Reply(reason) == [parts |-> <<"text", "call", "text">>, reason |-> reason]
Error == [parts |-> <<>>, reason |-> "none"]

FourReplies ==
    [openai |-> {Reply("stop"), Reply("length"), Error},
     anthropic |-> {Reply("tool_use"), Reply("max_tokens"), Reply("refusal"), Error},
     google |-> {Reply("STOP"), Reply("MAX_TOKENS"), Reply("OTHER"), Error}]

Answers ==
    [openai |-> {<<"delta", "delta", "last", "end">>},
     anthropic |-> {<<"message_start", "content_block_delta", "ping",
                      "content_block_delta", "message_delta", "message_stop">>},
     google |-> {<<"parts", "parts", "parts_stop">>, <<"parts", "parts", "parts_max_tokens">>,
                 <<"parts_stop", "parts", "parts_stop">>}]
=============================================================================
