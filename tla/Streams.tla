------------------------------ MODULE Streams ------------------------------
(***************************************************************************)
(* One streamed response, from the moment _handle_streaming_with_fallback  *)
(* returns it: event_generator() of proxy/main.py, between the backend     *)
(* that sends, the network that cuts what is sent into chunks, and the     *)
(* client that may leave.  A chunk goes to translate_stream_chunk() as it  *)
(* is, or on to the client if the backend needs no translation.            *)
(*                                                                         *)
(* A backend sends events, one line of data each.  A line has two halves:  *)
(* a chunk that ends between them cuts the line, anywhere else it does no  *)
(* harm.  Of an event only its kind matters, which decides what the client *)
(* is told: a role, text, the reason why the text ends, the end mark.      *)
(***************************************************************************)
EXTENDS Integers, Sequences, FiniteSets, FiniteSetsExt, Functions, Subsequences

CONSTANTS
    Responses,      \* what backends send, for each dialect
    Loggable        \* FALSE when requests.jsonl cannot be written

\* A stream of an OpenAI backend: nothing is translated.
OpenAISays == [delta |-> {"text"}, last |-> {"finish"}, end |-> {"done"}]

\* translate_stream_chunk of translators/anthropic.py, by the type of the event.
AnthropicSays ==
    [message_start |-> {"role"}, content_block_delta |-> {"text"},
     message_delta |-> {"finish"}, message_stop |-> {"done"}, ping |-> {}]

\* That of translators/gemini.py, by the finishReason: STOP ends the stream, no other does.
GeminiSays ==
    [parts |-> {"text"}, parts_stop |-> {"text", "finish", "done"}, parts_max_tokens |-> {"text"}]

\* The dispatch by the name of the backend.
Says == [openai |-> OpenAISays, anthropic |-> AnthropicSays, google |-> GeminiSays]

ASSUME StreamAssumption ==
    /\ DOMAIN Responses = DOMAIN Says
    /\ \A d \in DOMAIN Says : Responses[d] \subseteq Seq(DOMAIN Says[d])
    /\ Loggable \in BOOLEAN

VARIABLES
    dialect,        \* what the backend speaks
    response,       \* the kinds of the events it sends
    backend,        \* whether it sends, has sent all, or broke off
    sent, taken,    \* halves of lines: sent by the backend, taken by aiter_bytes
    cuts,           \* history: the events that a chunk cut
    got,            \* the events the client got, in order
    client,
    generator,      \* of event_generator: not started, running, over, or never to start
    connection,     \* of response and client to the backend
    logged

wire == <<dialect, response, backend, sent>>
handling == <<taken, cuts, got, generator, connection, logged>>
vars == <<wire, handling, client>>

translated == dialect # "openai"
Events == DOMAIN response
Size == 2 * Len(response)

Init ==
    /\ dialect \in DOMAIN Says
    /\ response \in Responses[dialect]
    /\ backend = "sending" /\ sent = 0
    /\ taken = 0 /\ cuts = {} /\ got = <<>>
    /\ client = "there"
    /\ generator = "returned" /\ connection = "open" /\ logged = 0
-----------------------------------------------------------------------------
\* The backend and the network.
Send ==
    /\ backend = "sending" /\ sent < Size
    /\ sent' = sent + 1
    /\ UNCHANGED <<dialect, response, backend, handling, client>>

Finish ==
    /\ backend = "sending" /\ sent = Size
    /\ backend' = "finished"
    /\ UNCHANGED <<dialect, response, sent, handling, client>>

\* It disconnects, or is silent for longer than its timeout.
Break ==
    /\ backend = "sending"
    /\ backend' = "broken"
    /\ UNCHANGED <<dialect, response, sent, handling, client>>

\* The response is sent to the client, unless it has left by then.
Start ==
    /\ generator = "returned" /\ client = "there"
    /\ generator' = "running"
    /\ UNCHANGED <<wire, taken, cuts, got, connection, logged, client>>

\* Mutated form of Whole: what is left of a line that was cut is taken for a line.
WholeAfterCut(from, to) == from \div 2 + 1 .. to \div 2

\* The events whose line ends in the chunk; translated ones must begin in it as well.
Whole(from, to) ==
    (IF translated THEN (from + 1) \div 2 ELSE from \div 2) + 1 .. to \div 2

\* Mutated form of Chunk: the chunk may be taken again.
ChunkAgain ==
    /\ generator = "running" /\ client = "there" /\ taken < sent
    /\ \E to \in taken + 1 .. sent, on \in BOOLEAN :
          LET whole == Whole(taken, to) IN
          /\ taken' = IF on THEN to ELSE taken
          /\ cuts' = IF to % 2 = 1 THEN cuts \cup {(to + 1) \div 2} ELSE cuts
          /\ got' = got \o [n \in 1 .. Cardinality(whole) |-> to \div 2 - Cardinality(whole) + n]
          /\ Len(got') <= 2 * Len(response)
    /\ UNCHANGED <<wire, generator, connection, logged, client>>

\* async for: a chunk is what has arrived, or a part of it; its events are yielded.
Chunk ==
    /\ generator = "running" /\ client = "there" /\ taken < sent
    /\ \E to \in taken + 1 .. sent :
          LET whole == Whole(taken, to) IN
          /\ taken' = to
          /\ cuts' = IF to % 2 = 1 THEN cuts \cup {(to + 1) \div 2} ELSE cuts
          /\ got' = got \o [n \in 1 .. Cardinality(whole) |-> to \div 2 - Cardinality(whole) + n]
    /\ UNCHANGED <<wire, generator, connection, logged, client>>

\* Mutated form of Close: no "finally".
CloseOnSuccess ==
    /\ generator' = "over"
    /\ IF backend = "finished" /\ client = "there"
       THEN connection' = "closed" /\ logged' = IF Loggable THEN 1 ELSE 0
       ELSE UNCHANGED <<connection, logged>>
    /\ UNCHANGED <<wire, taken, cuts, got, client>>

\* The "finally" of the generator.
Close ==
    /\ generator' = "over"
    /\ connection' = "closed"
    /\ logged' = IF Loggable THEN 1 ELSE 0
    /\ UNCHANGED <<wire, taken, cuts, got, client>>

\* The chunks are exhausted, or reading the next one raises.
End ==
    /\ generator = "running"
    /\ \/ backend = "broken"
       \/ backend = "finished" /\ taken = sent
    /\ Close

\* The client leaves, wherever the generator is.
Leave ==
    /\ client = "there" /\ generator \in {"returned", "running"}
    /\ client' = "gone"
    /\ UNCHANGED <<wire, handling>>

\* A generator that runs is closed, one that was never started is dropped.
Cancel == generator = "running" /\ client = "gone" /\ Close
Drop ==
    /\ generator = "returned" /\ client = "gone"
    /\ generator' = "abandoned"
    /\ UNCHANGED <<wire, taken, cuts, got, connection, logged, client>>

Next ==
    \/ Send \/ Finish \/ Break
    \/ Start \/ Chunk \/ End \/ Cancel \/ Drop
    \/ Leave

Spec == Init /\ [][Next]_vars
-----------------------------------------------------------------------------
Received == {got[n] : n \in DOMAIN got}

Tells(e, what) == what \in Says[dialect][response[e]]

\* stream() of sdk/client.py reads lines of data up to the end mark...
EndMarks == {n \in DOMAIN got : Tells(got[n], "done")}
Heard == IF EndMarks = {} THEN got ELSE SubSeq(got, 1, Min(EndMarks))

\* ... and yields the text of those that have one.
Yielded == Only(Heard, {e \in Events : Tells(e, "text")})

\* What never reaches the client, although its backend sent all of it.
Missed(e) == translated /\ e \in cuts

(***************************************************************************)
(* What the SDK yields is text the backend sent, in the order it sent it   *)
(* and no piece of it twice.  Of an answer that neither side broke off it  *)
(* yields all up to the first end mark, but for the pieces that had to be  *)
(* translated and were cut; an end mark that was cut does not end it.      *)
(***************************************************************************)
SdkYieldsText ==
    /\ \A m, n \in DOMAIN Yielded : m < n => Yielded[m] < Yielded[n]
    /\ generator = "over" /\ backend = "finished" /\ client = "there" =>
           Range(Yielded) =
               {e \in Events :
                   /\ Tells(e, "text") /\ ~Missed(e)
                   /\ \A d \in Events : d < e /\ Tells(d, "done") => Missed(d)}

(***************************************************************************)
(* The client misses an event that was taken from the wire only if it had  *)
(* to be translated and a chunk cut it, and every event that was cut is    *)
(* missed as a whole: no half of it is ever sent on as something else.     *)
(***************************************************************************)
LostIsCut ==
    \A e \in Events : 2 * e <= taken =>
        (e \notin Received <=> Missed(e))

(***************************************************************************)
(* A stream whose generator was started ends with its connection closed,   *)
(* and logged if the log works, whoever leaves or breaks off first.        *)
(***************************************************************************)
StartedIsClosed ==
    generator = "running" ~>
        generator = "over" /\ connection = "closed" /\ (Loggable => logged = 1)

(***************************************************************************)
(* README.md:46, "Full pass-through streaming support": a client that sees *)
(* the end mark has seen all of the text.                                  *)
(***************************************************************************)
DoneIsComplete ==
    \A d \in Received : Tells(d, "done") =>
        \A e \in Events : e < d /\ Tells(e, "text") => e \in Received
=============================================================================
