------------------------------ MODULE Exchange ------------------------------
(***************************************************************************)
(* The two handlers of proxy/main.py seen from the dialects: a request is  *)
(* told to one backend of the chain after the other (Translation), until   *)
(* one answers it, or opens a stream (Streams) in the same dialect.        *)
(***************************************************************************)
EXTENDS Streams

CONSTANTS Conversations, Replies, MaxCalls

VARIABLES
    asked, messages, calls, reply, answer,  \* of Translation
    opened      \* whether the handler has returned a stream

request == <<asked, messages, calls, reply, answer>>
exchangeVars == <<vars, request, opened>>

Telling == INSTANCE Translation

ASSUME ExchangeAssumption == Telling!TranslationAssumption

ExchangeInit == Init /\ Telling!Init /\ opened = FALSE

Tell == ~opened /\ Telling!Next /\ UNCHANGED <<vars, opened>>

\* The backend that was called last opens a stream; with the handler its request is forgotten.
Open ==
    /\ ~opened /\ calls # <<>> /\ answer = Telling!NoAnswer
    /\ dialect = Telling!Speaker
    /\ opened' = TRUE
    /\ asked' = <<>> /\ messages' = <<>> /\ calls' = <<>>
    /\ UNCHANGED <<vars, reply, answer>>

During(A) == opened /\ A /\ UNCHANGED <<request, opened>>

ExchangeNext == Tell \/ Open \/ During(Next)

ExchangeSpec == ExchangeInit /\ [][ExchangeNext]_exchangeVars

(***************************************************************************)
(* A backend that falls silent runs into the read timeout.  The event loop *)
(* resumes a generator whose chunk is there or whose client has left.      *)
(* Nobody has to leave.                                                    *)
(***************************************************************************)
FairExchange ==
    /\ ExchangeSpec
    /\ WF_exchangeVars(During(Send)) /\ WF_exchangeVars(During(Finish \/ Break))
    /\ WF_exchangeVars(During(Start \/ Chunk \/ End \/ Cancel \/ Drop))
-----------------------------------------------------------------------------
(***************************************************************************)
(* Of the handlers of one request: every backend of the chain is told the  *)
(* same conversation, and an answer that was cut short is known as such.   *)
(***************************************************************************)
SameConversation == Telling!SameConversation
AnswerKept == Telling!AnswerKept
=============================================================================
