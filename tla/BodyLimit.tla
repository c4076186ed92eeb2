----------------------------- MODULE BodyLimit -----------------------------
(***************************************************************************)
(* BodySizeLimitMiddleware (app/core/middleware.py): one request with a    *)
(* body, the middleware's wrapped receive and send, and what reaches the   *)
(* client.  The application behind it is any ASGI application: FastAPI     *)
(* reads the whole body and then runs the route (the phase "running",      *)
(* whose steps another module supplies), a router miss or the rate limiter *)
(* answers without having read it and may go on receiving meanwhile.       *)
(***************************************************************************)
EXTENDS Naturals, Sequences

CONSTANTS Limit,    \* max_request_body_bytes, in some unit
          MaxBody   \* the longest body tried

ASSUME LimitAssumption == Limit \in Nat /\ MaxBody \in Nat /\ Limit < MaxBody

VARIABLES
  phase,      \* how far the request has come
  body,       \* the length of its body, which is not empty
  chunked,    \* it declares no Content-Length
  received,   \* bytes limited_receive has seen
  exceeded,   \* they passed the limit
  forwarded,  \* some message of the application went out
  answer,     \* the status the application answers with, 0 before it knows
  wire        \* the messages sent to the client

bodyVars == <<phase, body, chunked, received, exceeded, forwarded, answer, wire>>

End == 0                 \* the message that completes a response
\* Answers without a read: the router's 404 (which stands for its 405 and the
\* host check's 400 too) and the rate limiter's.
Early == {404, 429}
ErrorStatus == {400, 401, 403, 404, 409, 413, 416, 422, 429, 500, 502}
Status == {201, 207} \cup ErrorStatus
Response(status) == <<status, End>>

BodyInit ==
  /\ phase = "new"
  /\ body \in 1..MaxBody /\ chunked \in BOOLEAN
  /\ received = 0
  /\ exceeded = FALSE /\ forwarded = FALSE
  /\ answer = 0
  /\ wire = <<>>

\* A declared length over the limit is answered without a read.
RefuseDeclared ==
  /\ phase = "new"
  /\ ~chunked /\ body > Limit
  /\ phase' = "over"
  /\ wire' = Response(413)
  /\ UNCHANGED <<body, chunked, received, exceeded, forwarded, answer>>

Admit ==
  /\ phase = "new"
  /\ chunked \/ body <= Limit
  /\ phase' = "reading"
  /\ UNCHANGED <<body, chunked, received, exceeded, forwarded, answer, wire>>

Over_AtLimit(bytes) == bytes > Limit + 1
Over(bytes) == bytes > Limit

\* limited_receive.  Past the limit the application is told the client went
\* away, which makes FastAPI answer 400 to a body it was still reading.
Receive ==
  /\ ~exceeded /\ received < body
  /\ phase = "reading" \/ (phase \in {"answering", "started"} /\ answer \in Early)
  /\ \E bytes \in 1..(body - received) : received' = received + bytes
  /\ exceeded' = Over(received')
  /\ CASE phase = "reading" /\ exceeded' -> phase' = "answering" /\ answer' = 400
       [] phase = "reading" /\ ~exceeded' /\ received' = body ->
            phase' = "running" /\ answer' = answer
       [] OTHER -> UNCHANGED <<phase, answer>>
  /\ UNCHANGED <<body, chunked, forwarded, wire>>

\* The client goes away while its body is read.
Hangup ==
  /\ phase = "reading" /\ received < body
  /\ phase' = "answering" /\ answer' = 400
  /\ UNCHANGED <<body, chunked, received, exceeded, forwarded, wire>>

EarlyAnswer ==
  /\ phase = "reading" /\ received = 0
  /\ phase' = "answering" /\ answer' \in Early
  /\ UNCHANGED <<body, chunked, received, exceeded, forwarded, wire>>

\* The route ends: an answer, of its own or of an exception handler, or an
\* exception none of the inner handlers takes.
Answer(status) ==
  /\ phase = "running"
  /\ phase' = "answering" /\ answer' = status
  /\ UNCHANGED <<body, chunked, received, exceeded, forwarded, wire>>

Raise ==
  /\ phase = "running"
  /\ phase' = "raised"
  /\ UNCHANGED <<body, chunked, received, exceeded, forwarded, answer, wire>>

\* limited_send.
Send_NoLatch(message) ==
  IF exceeded
  THEN UNCHANGED <<forwarded, wire>>
  ELSE forwarded' = TRUE /\ wire' = Append(wire, message)
Send(message) ==
  IF exceeded /\ ~forwarded
  THEN UNCHANGED <<forwarded, wire>>
  ELSE forwarded' = TRUE /\ wire' = Append(wire, message)

SendStart ==
  /\ phase = "answering"
  /\ Send(answer)
  /\ phase' = "started"
  /\ UNCHANGED <<body, chunked, received, exceeded, answer>>

SendEnd ==
  /\ phase = "started"
  /\ Send(End)
  /\ phase' = "returned"
  /\ UNCHANGED <<body, chunked, received, exceeded, answer>>

\* The application returned: the 413 replaces an answer that was dropped.
Finish ==
  /\ phase = "returned"
  /\ phase' = "over"
  /\ wire' = IF exceeded /\ ~forwarded THEN Response(413) ELSE wire
  /\ UNCHANGED <<body, chunked, received, exceeded, forwarded, answer>>

\* ServerErrorMiddleware, outside this one, answers for the exception.
FinishRaised ==
  /\ phase = "raised"
  /\ phase' = "over"
  /\ wire' = Response(500)
  /\ UNCHANGED <<body, chunked, received, exceeded, forwarded, answer>>

BodyStep == \/ RefuseDeclared \/ Admit \/ Receive \/ Hangup \/ EarlyAnswer
            \/ SendStart \/ SendEnd \/ Finish \/ FinishRaised

BodyTypeOK ==
  /\ phase \in {"new", "reading", "running", "answering", "started", "returned",
                "raised", "over", "dead"}
  /\ body \in 1..MaxBody /\ chunked \in BOOLEAN
  /\ received \in 0..body
  /\ exceeded \in BOOLEAN /\ forwarded \in BOOLEAN
  /\ answer \in Status \cup {0}

\* The client gets one response: never the messages of two, however the limit
\* is exceeded around the application's own messages, and a whole one by the
\* time the middleware is done (limited_send's drop and its latch, and the
\* 413 that only replaces what was dropped).
OneResponse ==
  /\ wire = <<>> \/ \E s \in Status : wire = <<s>> \/ wire = Response(s)
  /\ phase = "over" => Len(wire) = 2

\* A body over the limit never reaches a route, whether it declares its length
\* or not, and once the limit is passed the client is told 413 and not the 400
\* that FastAPI makes of the cut body; a body within the limit is never told
\* 413 by the middleware.
OversizedRefused ==
  /\ body > Limit => phase \notin {"running", "raised"}
  /\ phase = "over" /\ body > Limit =>
       wire[1] = 413 \/ (answer \in Early \cup {400} /\ (exceeded => answer \in Early))
  /\ phase = "over" /\ body <= Limit =>
       wire[1] = answer \/ (answer = 0 /\ wire[1] = 500)
=============================================================================
