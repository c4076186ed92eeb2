-------------------------- MODULE MediaStore_proofs --------------------------
(***************************************************************************)
(* Proofs about MediaStore and the BodyLimit it extends.  The invariant is *)
(* in four parts: the request (BodyInv, about the middleware's variables   *)
(* alone), the flow of the upload (FlowInv), what the table and the bucket *)
(* hold (StoreInv) and the players (PlayerInv).                            *)
(***************************************************************************)
EXTENDS MediaStore, SequenceTheorems, TLAPS

Unanswered == {"new", "reading", "running", "raised"}

BodyInv ==
  /\ BodyTypeOK
  /\ exceeded <=> received > Limit
  /\ phase \in Unanswered => answer = 0
  /\ phase \in {"running", "raised"} => body <= Limit
  /\ phase \in {"answering", "started", "returned"} =>
       /\ answer \in Status
       /\ body <= Limit \/ answer \in Early \cup {400}
  /\ phase \in Unanswered \cup {"answering"} => wire = <<>> /\ ~forwarded
  /\ phase \in {"started", "returned"} /\ ~forwarded => wire = <<>> /\ exceeded
  /\ phase = "started" /\ forwarded => wire = <<answer>>
  /\ phase = "returned" /\ forwarded => wire = Response(answer)
  /\ forwarded /\ exceeded => answer \in Early
  /\ OneResponse
  /\ phase = "over" => OversizedRefused

LEMMA BodyStart == ASSUME BodyInit PROVE BodyInv
<1>1. BodyTypeOK
  <2>1. received \in 0..body BY LimitAssumption DEF BodyInit
  <2>2. exceeded \in BOOLEAN /\ forwarded \in BOOLEAN /\ chunked \in BOOLEAN BY DEF BodyInit
  <2>. QED BY <2>1, <2>2 DEF BodyInit, BodyTypeOK
<1>2. exceeded <=> received > Limit BY LimitAssumption DEF BodyInit
<1>3. OneResponse BY DEF BodyInit, OneResponse
<1>. QED BY <1>1, <1>2, <1>3 DEF BodyInit, BodyInv, Unanswered

LEMMA BodyKept == ASSUME BodyInv, UNCHANGED bodyVars PROVE BodyInv'
BY DEF BodyInv, BodyTypeOK, OneResponse, OversizedRefused, Unanswered, bodyVars

LEMMA Statuses ==
  /\ Early \cup {400, 413, 500} \subseteq Status /\ Status \subseteq Nat
  /\ 413 \notin Early /\ 0 \notin Status
BY DEF Early, Status, ErrorStatus

LEMMA Responses ==
  ASSUME NEW s \in Nat
  PROVE  /\ Response(s) # <<>> /\ Len(Response(s)) = 2 /\ Response(s)[1] = s
         /\ Append(<<>>, s) = <<s>> /\ Append(<<s>>, End) = Response(s)
<1>1. /\ <<s>> \in Seq(Nat) /\ Len(<<s>>) = 1
      /\ <<s, 0>> \in Seq(Nat) /\ Len(<<s, 0>>) = 2 /\ <<s, 0>> # <<>>
  OBVIOUS
<1>2. Append(<<s>>, 0) \in Seq(Nat) /\ Len(Append(<<s>>, 0)) = 2
  BY <1>1
<1>3. \A i \in 1..2 : Append(<<s>>, 0)[i] = <<s, 0>>[i]
  BY <1>1
<1>4. Append(<<s>>, 0) = <<s, 0>>
  BY <1>1, <1>2, <1>3, SeqEqual
<1>. QED BY <1>1, <1>4 DEF Response, End

\* A response that is whole in the end is one response.
LEMMA Whole ==
  ASSUME NEW s \in Status, wire' = Response(s)
  PROVE  OneResponse' /\ wire'[1] = s
<1>1. s \in Nat BY Statuses
<1>2. Len(wire') = 2 /\ wire'[1] = s BY <1>1, Responses
<1>. QED BY <1>2 DEF OneResponse

LEMMA BodySteps == ASSUME BodyInv, BodyStep PROVE BodyInv'
<1>1. CASE RefuseDeclared
  <2>1. BodyTypeOK' BY <1>1 DEF RefuseDeclared, BodyInv, BodyTypeOK
  <2>2. OneResponse' /\ wire'[1] = 413 BY <1>1, Statuses, Whole DEF RefuseDeclared
  <2>. QED BY <1>1, <2>1, <2>2, LimitAssumption
           DEF RefuseDeclared, BodyInv, BodyTypeOK, OversizedRefused, Unanswered
<1>2. CASE Admit
  <2>1. BodyTypeOK' BY <1>2, Statuses DEF Admit, BodyInv, BodyTypeOK
  <2>2. OneResponse' BY <1>2 DEF Admit, BodyInv, OneResponse
  <2>. QED BY <1>2, <2>1, <2>2, Statuses, LimitAssumption
           DEF Admit, BodyInv, OversizedRefused, Unanswered
<1>3. CASE Receive
  <2>1. BodyTypeOK' BY <1>3, Statuses DEF Receive, Over, BodyInv, BodyTypeOK
  <2>2. OneResponse' BY <1>3 DEF Receive, Over, BodyInv, OneResponse
  <2>3. exceeded' <=> received' > Limit BY <1>3 DEF Receive, Over
  <2>4. UNCHANGED <<body, forwarded, wire>> /\ ~exceeded BY <1>3 DEF Receive
  <2>5. CASE phase = "reading" /\ exceeded'
    <3>1. phase' = "answering" /\ answer' = 400 BY <1>3, <2>5 DEF Receive
    <3>. QED BY <2>1, <2>2, <2>3, <2>4, <2>5, <3>1, Statuses DEF BodyInv, Unanswered
  <2>6. CASE phase = "reading" /\ ~exceeded' /\ received' = body
    <3>1. phase' = "running" /\ answer' = answer BY <1>3, <2>6 DEF Receive
    <3>. QED BY <2>1, <2>2, <2>3, <2>4, <2>6, <3>1, LimitAssumption
             DEF BodyInv, BodyTypeOK, Unanswered
  <2>7. CASE phase = "reading" /\ ~exceeded' /\ received' # body
    <3>1. phase' = phase /\ answer' = answer BY <1>3, <2>7 DEF Receive
    <3>. QED BY <2>1, <2>2, <2>3, <2>4, <2>7, <3>1 DEF BodyInv, Unanswered
  <2>8. CASE phase \in {"answering", "started"} /\ answer \in Early
    <3>1. phase' = phase /\ answer' = answer BY <1>3, <2>8 DEF Receive
    <3>. QED BY <2>1, <2>2, <2>3, <2>4, <2>8, <3>1 DEF BodyInv, Unanswered
  <2>. QED BY <1>3, <2>5, <2>6, <2>7, <2>8 DEF Receive
<1>4. CASE Hangup
  <2>1. BodyTypeOK' BY <1>4, Statuses DEF Hangup, BodyInv, BodyTypeOK
  <2>2. OneResponse' BY <1>4 DEF Hangup, BodyInv, OneResponse
  <2>. QED BY <1>4, <2>1, <2>2, Statuses, LimitAssumption
           DEF Hangup, BodyInv, OversizedRefused, Unanswered
<1>5. CASE EarlyAnswer
  <2>1. BodyTypeOK' BY <1>5, Statuses DEF EarlyAnswer, BodyInv, BodyTypeOK
  <2>2. OneResponse' BY <1>5 DEF EarlyAnswer, BodyInv, OneResponse
  <2>. QED BY <1>5, <2>1, <2>2, Statuses, LimitAssumption
           DEF EarlyAnswer, BodyInv, OversizedRefused, Unanswered
<1>6. CASE SendStart
  <2>1. BodyTypeOK' BY <1>6 DEF SendStart, Send, BodyInv, BodyTypeOK
  <2>2. wire = <<>> /\ answer \in Status BY <1>6 DEF SendStart, BodyInv, Unanswered
  <2>3. IF exceeded THEN UNCHANGED <<forwarded, wire>> ELSE forwarded' /\ wire' = <<answer>>
    BY <1>6, <2>2, Statuses, Responses DEF SendStart, Send, BodyInv, Unanswered
  <2>4. OneResponse' BY <1>6, <2>2, <2>3 DEF SendStart, OneResponse
  <2>. QED BY <1>6, <2>1, <2>2, <2>3, <2>4 DEF SendStart, BodyInv, Unanswered
<1>7. CASE SendEnd
  <2>1. BodyTypeOK' BY <1>7 DEF SendEnd, Send, BodyInv, BodyTypeOK
  <2>2. answer \in Status BY <1>7 DEF SendEnd, BodyInv
  <2>3. IF forwarded THEN wire' = Response(answer) /\ forwarded' ELSE UNCHANGED <<forwarded, wire>>
    BY <1>7, <2>2, Statuses, Responses DEF SendEnd, Send, BodyInv
  <2>4. OneResponse' BY <1>7, <2>2, <2>3 DEF SendEnd, OneResponse, BodyInv
  <2>. QED BY <1>7, <2>1, <2>2, <2>3, <2>4 DEF SendEnd, BodyInv, Unanswered
<1>8. CASE Finish
  <2>1. BodyTypeOK' BY <1>8 DEF Finish, BodyInv, BodyTypeOK
  <2>2. answer \in Status BY <1>8 DEF Finish, BodyInv
  <2>3. wire' = Response(IF forwarded THEN answer ELSE 413)
    BY <1>8 DEF Finish, BodyInv
  <2>4. OneResponse' /\ wire'[1] = IF forwarded THEN answer ELSE 413
    BY <2>2, <2>3, Statuses, Whole
  <2>. QED BY <1>8, <2>1, <2>2, <2>4, Statuses, LimitAssumption
           DEF Finish, BodyInv, BodyTypeOK, OversizedRefused, Unanswered
<1>9. CASE FinishRaised
  <2>1. BodyTypeOK' BY <1>9 DEF FinishRaised, BodyInv, BodyTypeOK
  <2>2. OneResponse' /\ wire'[1] = 500 BY <1>9, Statuses, Whole DEF FinishRaised
  <2>. QED BY <1>9, <2>1, <2>2, LimitAssumption
           DEF FinishRaised, BodyInv, BodyTypeOK, OversizedRefused, Unanswered
<1>. QED BY <1>1, <1>2, <1>3, <1>4, <1>5, <1>6, <1>7, <1>8, <1>9 DEF BodyStep

LEMMA BodyAnswers ==
  ASSUME BodyInv, NEW s \in Status, Answer(s) \/ Raise
  PROVE  BodyInv'
BY LimitAssumption DEF BodyInv, BodyTypeOK, OneResponse, OversizedRefused, Unanswered, Answer,
                       Raise, Status, ErrorStatus, Early, Response, End

LEMMA BodyDies ==
  ASSUME BodyInv, Crash
  PROVE  BodyInv'
BY DEF BodyInv, BodyTypeOK, OneResponse, OversizedRefused, Unanswered, Crash

-----------------------------------------------------------------------------
(* The flow of the upload. *)

Before == {"wait", "spool", "count", "authorize", "validate"}
Storing == {"store", "partition", "insert"}
Ended == {"close", "done", "dead"}
Untouched == inserted = {} /\ \A p \in Part : put[p] = "none"

FlowType ==
  /\ pc \in Before \cup Storing \cup Ended
  /\ parts \in 0..MaxFiles /\ known \in 0..parts /\ at \in 1..MaxFiles + 2
  /\ spool \subseteq Parts /\ put \in [Part -> Put] /\ inserted \subseteq Parts
  /\ outcome \in Status \cup {0}

\* Where the route is while the request is in a phase, and which temporary
\* files there are.
Places ==
  /\ phase \in {"new", "reading"} => pc = "wait"
  /\ phase = "running" => pc \notin {"done", "dead"}
  /\ phase \notin {"new", "reading", "running", "dead"} => pc \in {"wait", "done"}
  /\ phase = "dead" <=> pc = "dead"
  /\ pc = "wait" => known = 0 /\ at = 1
  /\ pc = "spool" => at \in Parts /\ spool = 1..(at - 1)
  /\ pc \in {"count", "authorize", "validate"} \cup Storing => spool = Parts /\ parts # 0
  /\ pc = "validate" => at \in Parts
  /\ pc = "partition" => at <= parts + 1
  /\ pc \in {"wait", "done"} => spool = {}

Puts ==
  /\ pc \in Before => \A p \in Part : put[p] = "none"
  /\ pc \in Storing => \A p \in Part : put[p] = "none" <=> p \notin Parts
  /\ pc \in {"partition", "insert", "close", "done"} =>
       \A p \in Part : put[p] \notin {"waiting", "busy"}
  /\ pc = "partition" => \A p \in Part : p < at => put[p] \in {"stored", "failed"}
  /\ pc = "insert" => /\ \A p \in Parts : put[p] \in {"stored", "failed"}
                      /\ \E p \in Parts : put[p] = "stored"

Outcomes ==
  /\ pc \notin Ended => outcome = 0 /\ inserted = {}
  /\ pc = "close" => outcome # 0
  /\ \A p \in inserted : put[p] = "stored"
  /\ outcome = 201 => inserted = Parts /\ parts # 0
  /\ outcome = 207 => /\ inserted = With("stored") /\ inserted \notin {{}, Parts}
                      /\ Parts \ inserted = With("failed")
  /\ outcome = 502 => inserted = {}
  /\ outcome \in 400..499 \/ answer \in 400..499 => Untouched
  /\ answer \in {201, 207, 502} => outcome = answer

FlowInv == FlowType /\ Places /\ Puts /\ Outcomes

LEMMA PartsType == ASSUME parts \in 0..MaxFiles PROVE Parts \subseteq Part /\ Part \subseteq Nat
BY MediaAssumption DEF Parts, Part

LEMMA FlowStart == ASSUME Init PROVE FlowInv
<1>. USE MediaAssumption DEF Init, BodyInit
<1>1. FlowType BY DEF FlowType, Before, Parts, Put
<1>2. Places BY DEF Places, Storing
<1>3. Puts BY DEF Puts, Storing
<1>4. Outcomes BY DEF Outcomes, Ended
<1>. QED BY <1>1, <1>2, <1>3, <1>4 DEF FlowInv

LEMMA Codes == {0} \cup {201, 207, 400, 401, 403, 404, 413, 422, 500, 502} \subseteq Status \cup {0}
BY DEF Status, ErrorStatus

\* How the middleware's own steps move the request.
LEMMA BodyMoves ==
  ASSUME BodyInv, BodyStep
  PROVE  /\ phase \notin {"running", "dead"} /\ phase' # "dead"
         /\ phase' \in {"new", "reading", "running"} => phase \in {"new", "reading"}
         /\ answer' = answer \/ (phase = "reading" /\ answer' \in {400, 404, 429})
BY DEF BodyStep, RefuseDeclared, Admit, Receive, Hangup, EarlyAnswer, SendStart, SendEnd,
       Finish, FinishRaised, Early

LEMMA FlowKept ==
  ASSUME FlowInv, UNCHANGED <<phase, answer>>, UNCHANGED uploadVars
  PROVE  FlowInv'
<1>. USE DEF uploadVars
<1>1. FlowType' BY DEF FlowInv, FlowType, Parts
<1>2. Places' BY DEF FlowInv, Places, Parts
<1>3. Puts' BY DEF FlowInv, Puts, Parts
<1>4. Parts' = Parts /\ With("stored")' = With("stored") /\ With("failed")' = With("failed")
  BY DEF Parts, With
<1>5. Outcomes' BY <1>4 DEF FlowInv, Outcomes, Untouched
<1>. QED BY <1>1, <1>2, <1>3, <1>5 DEF FlowInv

LEMMA FlowBody ==
  ASSUME BodyInv, FlowInv, Body
  PROVE  FlowInv'
<1>1. FlowType' BY DEF Body, FlowInv, FlowType, Parts, uploadVars
<1>2. Places' BY BodyMoves DEF Body, FlowInv, Places, Parts, uploadVars, BodyInv, BodyTypeOK
<1>3. Puts' BY DEF Body, FlowInv, Puts, Parts, uploadVars
<1>4. phase = "reading" => Untouched
  BY DEF FlowInv, Places, Puts, Outcomes, Before, Ended, Untouched
<1>5. UNCHANGED <<pc, parts, put, inserted, outcome>> BY DEF Body, uploadVars
<1>6. Parts' = Parts /\ With("stored")' = With("stored") /\ With("failed")' = With("failed")
  BY <1>5 DEF Parts, With
<1>7. Untouched' <=> Untouched BY <1>5 DEF Untouched
<1>8. answer' = answer \/ (phase = "reading" /\ answer' \in {400, 404, 429})
  BY BodyMoves DEF Body
<1>9. Outcomes' BY <1>4, <1>5, <1>6, <1>7, <1>8 DEF FlowInv, Outcomes
<1>. QED BY <1>1, <1>2, <1>3, <1>9 DEF FlowInv

\* A running request has no answer yet.
LEMMA Silent == ASSUME BodyInv, phase = "running" PROVE answer = 0
BY DEF BodyInv, Unanswered

\* The upload goes on, or is refused before it began to store.
LEMMA Onward ==
  ASSUME FlowInv, answer = 0, pc \notin Ended, pc' \notin Ended,
         UNCHANGED <<answer, outcome, inserted>>
  PROVE  Outcomes'
<1>1. outcome' = 0 /\ answer' = 0 /\ inserted' = {} BY DEF FlowInv, Outcomes
<1>. QED BY <1>1 DEF Outcomes, Ended

Refusals == {400, 401, 403, 404, 413, 422, 500, 502}

LEMMA Refused ==
  ASSUME FlowInv, answer = 0, pc \in Before, pc' = "close", outcome' \in Refusals,
         UNCHANGED <<answer, inserted, put>>
  PROVE  Outcomes' /\ Puts'
<1>1. inserted' = {} /\ answer' = 0 /\ \A p \in Part : put'[p] = "none"
  BY DEF FlowInv, Outcomes, Puts, Before, Ended
<1>2. Untouched' BY <1>1 DEF Untouched
<1>3. Outcomes' BY <1>1, <1>2 DEF Outcomes, Ended, Refusals
<1>4. Puts' BY <1>1 DEF Puts, Before, Storing
<1>. QED BY <1>3, <1>4

LEMMA FlowEnter ==
  ASSUME BodyInv, FlowInv, Enter
  PROVE  FlowInv'
<1>1. /\ phase = "running" /\ pc = "wait" /\ answer = 0 /\ spool = {} /\ inserted = {} /\ outcome = 0
      /\ \A p \in Part : put[p] = "none"
      /\ UNCHANGED <<known, at, spool, put, inserted, outcome>>
  BY Silent DEF Enter, Reach, FlowInv, Places, Puts, Outcomes, Before, Ended
<1>2. CASE \/ \E status \in {400, 401, 422, 429} : Leave(status) /\ UNCHANGED parts
           \/ Raise /\ pc' = "done" /\ UNCHANGED parts
  <2>1. /\ pc' = "done" /\ phase' \in {"answering", "raised"} /\ parts' = parts
        /\ answer' \in {0, 400, 401, 422, 429}
    BY <1>1, <1>2 DEF Leave, Answer, Raise
  <2>2. FlowType' BY <1>1, <2>1 DEF FlowInv, FlowType, Parts, Ended
  <2>3. Places' BY <1>1, <2>1 DEF Places, Storing
  <2>4. Puts' BY <1>1, <2>1 DEF Puts, Before, Storing
  <2>5. Untouched' BY <1>1 DEF Untouched
  <2>6. Outcomes' BY <1>1, <2>1, <2>5 DEF Outcomes, Ended
  <2>. QED BY <2>2, <2>3, <2>4, <2>6 DEF FlowInv
<1>3. CASE parts' \in Admissible /\ pc' = "spool" /\ UNCHANGED bodyVars
  <2>1. parts' \in 1..MaxFiles /\ phase' = phase /\ answer' = answer
    BY <1>3 DEF Admissible, Part, bodyVars
  <2>2. known = 0 /\ at = 1 BY <1>1 DEF FlowInv, Places
  <2>3. FlowType' BY <1>1, <1>3, <2>1, <2>2, MediaAssumption DEF FlowInv, FlowType, Parts, Before
  <2>4. Places' BY <1>1, <1>3, <2>1, <2>2 DEF Places, Storing, Parts
  <2>5. Puts' BY <1>1, <1>3 DEF Puts, Before, Storing
  <2>6. Outcomes' BY <1>1, <1>3, <2>1, Onward DEF Ended
  <2>. QED BY <2>3, <2>4, <2>5, <2>6 DEF FlowInv
<1>. QED BY <1>2, <1>3 DEF Enter

LEMMA FlowSpool ==
  ASSUME BodyInv, FlowInv, Spool
  PROVE  FlowInv'
<1>1. /\ phase = "running" /\ pc = "spool" /\ answer = 0
      /\ UNCHANGED <<phase, answer, parts, known, put, inserted>>
  BY Silent DEF Spool, Reach, bodyVars
<1>2. parts \in 1..MaxFiles /\ at \in 1..parts /\ spool = 1..(at - 1)
  BY <1>1, MediaAssumption DEF FlowInv, FlowType, Places, Parts
<1>3. CASE /\ spool' = spool \cup {at} /\ at' = at + 1 /\ outcome' = outcome
           /\ pc' = IF at = parts THEN "count" ELSE "spool"
  <2>1. spool' = 1..at BY <1>2, <1>3
  <2>2. FlowType' BY <1>1, <1>2, <1>3, <2>1, MediaAssumption DEF FlowInv, FlowType, Parts, Before
  <2>3. Places' BY <1>1, <1>2, <1>3, <2>1 DEF Places, Storing, Parts
  <2>4. Puts' BY <1>1, <1>3 DEF FlowInv, Puts, Before, Storing
  <2>5. Outcomes' BY <1>1, <1>3, Onward DEF Ended
  <2>. QED BY <2>2, <2>3, <2>4, <2>5 DEF FlowInv
<1>4. CASE (\E status \in {413, 500} : Abort(status)) /\ UNCHANGED <<spool, at>>
  <2>1. pc' = "close" /\ outcome' \in Refusals BY <1>4 DEF Abort, Refusals
  <2>2. FlowType' BY <1>1, <1>4, <2>1, Codes DEF FlowInv, FlowType, Parts, Ended, Refusals
  <2>3. Places' BY <1>1, <1>4, <2>1 DEF Places, Storing
  <2>4. Outcomes' /\ Puts' BY <1>1, <2>1, Refused DEF Before
  <2>. QED BY <2>2, <2>3, <2>4 DEF FlowInv
<1>. QED BY <1>3, <1>4 DEF Spool

LEMMA FlowCount ==
  ASSUME BodyInv, FlowInv, Count
  PROVE  FlowInv'
<1>1. /\ phase = "running" /\ pc = "count" /\ answer = 0
      /\ UNCHANGED <<phase, answer, parts, at, spool, put, inserted>>
  BY Silent DEF Count, Reach, bodyVars
<1>2. /\ known' \in 0..parts
      /\ Abort(422) \/ Abort(500) \/ (pc' = "authorize" /\ UNCHANGED outcome)
  <2>1. CASE Abort(500) /\ UNCHANGED known BY <2>1 DEF FlowInv, FlowType
  <2>2. CASE ~(Abort(500) /\ UNCHANGED known)
    <3>1. PICK photos, videos \in 0..parts :
            /\ photos + videos <= parts /\ known' = photos + videos
            /\ IF CountError(photos, videos)
               THEN Abort(422) ELSE pc' = "authorize" /\ UNCHANGED outcome
      BY <2>2 DEF Count
    <3>. QED BY <3>1 DEF FlowInv, FlowType
  <2>. QED BY <2>1, <2>2
<1>3. CASE pc' = "authorize" /\ UNCHANGED outcome
  <2>1. FlowType' BY <1>1, <1>2, <1>3 DEF FlowInv, FlowType, Parts, Before
  <2>2. Places' BY <1>1, <1>3 DEF FlowInv, Places, Storing, Parts
  <2>3. Puts' BY <1>1, <1>3 DEF FlowInv, Puts, Before, Storing
  <2>4. Outcomes' BY <1>1, <1>3, Onward DEF Ended
  <2>. QED BY <2>1, <2>2, <2>3, <2>4 DEF FlowInv
<1>4. ASSUME NEW c \in {422, 500}, Abort(c) PROVE FlowInv'
  <2>1. pc' = "close" /\ outcome' = c BY <1>4 DEF Abort
  <2>2. FlowType' BY <1>1, <1>2, <2>1, Codes DEF FlowInv, FlowType, Parts, Ended
  <2>3. Places' BY <1>1, <2>1 DEF Places, Storing
  <2>4. Outcomes' /\ Puts' BY <1>1, <2>1, Refused DEF Before, Refusals
  <2>. QED BY <2>2, <2>3, <2>4 DEF FlowInv
<1>. QED BY <1>2, <1>3, <1>4

LEMMA FlowAuthorize ==
  ASSUME BodyInv, FlowInv, Authorize
  PROVE  FlowInv'
<1>1. /\ phase = "running" /\ pc = "authorize" /\ answer = 0
      /\ UNCHANGED <<phase, answer, parts, known, spool, put, inserted>>
  BY Silent DEF Authorize, Reach, bodyVars
<1>2. spool = Parts /\ parts \in 1..MaxFiles
  BY <1>1 DEF FlowInv, Places, FlowType
<1>3. CASE pc' = "validate" /\ at' = 1 /\ outcome' = outcome
  <2>1. FlowType' BY <1>1, <1>3, MediaAssumption DEF FlowInv, FlowType, Parts, Before
  <2>2. Places' BY <1>1, <1>2, <1>3 DEF Places, Storing, Parts
  <2>3. Puts' BY <1>1, <1>3 DEF FlowInv, Puts, Before, Storing
  <2>4. Outcomes' BY <1>1, <1>3, Onward DEF Ended
  <2>. QED BY <2>1, <2>2, <2>3, <2>4 DEF FlowInv
<1>4. CASE at' = at /\ \E status \in {403, 404, 500} : Abort(status)
  <2>1. pc' = "close" /\ outcome' \in Refusals BY <1>4 DEF Abort, Refusals
  <2>2. FlowType' BY <1>1, <1>4, <2>1, Codes DEF FlowInv, FlowType, Parts, Ended, Refusals
  <2>3. Places' BY <1>1, <2>1 DEF Places, Storing
  <2>4. Outcomes' /\ Puts' BY <1>1, <2>1, Refused DEF Before
  <2>. QED BY <2>2, <2>3, <2>4 DEF FlowInv
<1>. QED BY <1>3, <1>4 DEF Authorize

LEMMA FlowValidate ==
  ASSUME BodyInv, FlowInv, Validate
  PROVE  FlowInv'
<1>1. /\ phase = "running" /\ pc = "validate" /\ answer = 0
      /\ UNCHANGED <<phase, answer, parts, known, spool, inserted>>
  BY Silent DEF Validate, Reach, bodyVars
<1>2. spool = Parts /\ parts \in 1..MaxFiles /\ at \in 1..parts
  BY <1>1 DEF FlowInv, Places, FlowType, Parts
<1>3. CASE /\ at # parts /\ at' = at + 1 /\ UNCHANGED <<pc, put, outcome>>
  <2>1. FlowType' BY <1>1, <1>2, <1>3, MediaAssumption DEF FlowInv, FlowType, Parts
  <2>2. Places' BY <1>1, <1>2, <1>3 DEF Places, Storing, Parts
  <2>3. Puts' BY <1>1, <1>3 DEF FlowInv, Puts, Before, Storing
  <2>4. Outcomes' BY <1>1, <1>3, Onward DEF Ended
  <2>. QED BY <2>1, <2>2, <2>3, <2>4 DEF FlowInv
<1>4. CASE /\ at' = at + 1 /\ pc' = "store" /\ UNCHANGED outcome
           /\ put' = [p \in Part |-> IF p \in Parts THEN "waiting" ELSE "none"]
  <2>1. put' \in [Part -> Put] BY <1>4 DEF Put
  <2>2. FlowType' BY <1>1, <1>2, <1>4, <2>1, MediaAssumption DEF FlowInv, FlowType, Parts, Storing
  <2>3. Places' BY <1>1, <1>2, <1>4 DEF Places, Storing, Parts
  <2>4. Parts' = Parts BY <1>1 DEF Parts
  <2>5. Puts' BY <1>1, <1>4, <2>4 DEF Puts, Before, Storing
  <2>6. Outcomes' BY <1>1, <1>4, Onward DEF Ended
  <2>. QED BY <2>2, <2>3, <2>5, <2>6 DEF FlowInv
<1>5. CASE UNCHANGED <<at, put>> /\ \E status \in {422, 500, 502} : Abort(status)
  <2>1. pc' = "close" /\ outcome' \in Refusals BY <1>5 DEF Abort, Refusals
  <2>2. FlowType' BY <1>1, <1>5, <2>1, Codes DEF FlowInv, FlowType, Parts, Ended, Refusals
  <2>3. Places' BY <1>1, <2>1 DEF Places, Storing
  <2>4. Outcomes' /\ Puts' BY <1>1, <1>5, <2>1, Refused DEF Before
  <2>. QED BY <2>2, <2>3, <2>4 DEF FlowInv
<1>. QED BY <1>3, <1>4, <1>5 DEF Validate, FrameErrors, GeminiErrors, ModerationErrors

LEMMA FlowStartPut ==
  ASSUME BodyInv, FlowInv, StartPut
  PROVE  FlowInv'
<1>1. /\ phase = "running" /\ pc = "store" /\ answer = 0
      /\ UNCHANGED <<phase, answer, pc, parts, known, at, spool, inserted, outcome>>
  BY Silent DEF StartPut, Reach, bodyVars
<1>2. PICK p \in Part : put[p] = "waiting" /\ put' = [put EXCEPT ![p] = "busy"]
  BY DEF StartPut, With
<1>3. put \in [Part -> Put] BY DEF FlowInv, FlowType
<1>4. put' \in [Part -> Put] BY <1>2, <1>3 DEF Put
<1>5. FlowType' BY <1>1, <1>4 DEF FlowInv, FlowType, Parts
<1>6. Places' BY <1>1 DEF FlowInv, Places, Parts
<1>7. \A q \in Part : put'[q] = "none" <=> put[q] = "none" BY <1>2, <1>3
<1>8. Parts' = Parts BY <1>1 DEF Parts
<1>9. Puts' BY <1>1, <1>7, <1>8 DEF FlowInv, Puts, Before, Storing
<1>10. Outcomes' BY <1>1, Onward DEF Ended
<1>. QED BY <1>5, <1>6, <1>9, <1>10 DEF FlowInv

LEMMA FlowEndPut ==
  ASSUME BodyInv, FlowInv, EndPut
  PROVE  FlowInv'
<1>1. /\ pc \in {"store", "close", "done"} /\ phase # "dead"
      /\ UNCHANGED <<phase, answer, pc, parts, known, at, spool, inserted, outcome>>
  BY DEF EndPut, bodyVars
<1>2. PICK p \in Part : put[p] = "busy"
        /\ \E s \in {"stored", "failed", "broken"} : put' = [put EXCEPT ![p] = s]
  BY DEF EndPut, With
<1>3. put \in [Part -> Put] /\ pc = "store" BY <1>1, <1>2 DEF FlowInv, FlowType, Puts
<1>4. phase = "running" /\ answer = 0
  BY <1>1, <1>3, Silent DEF FlowInv, Places, BodyInv, BodyTypeOK
<1>5. put' \in [Part -> Put] BY <1>2, <1>3 DEF Put
<1>6. FlowType' BY <1>1, <1>5 DEF FlowInv, FlowType, Parts
<1>7. Places' BY <1>1 DEF FlowInv, Places, Parts
<1>8. \A q \in Part : put'[q] = "none" <=> put[q] = "none" BY <1>2, <1>3
<1>9. Parts' = Parts BY <1>1 DEF Parts
<1>10. Puts' BY <1>1, <1>3, <1>8, <1>9 DEF FlowInv, Puts, Before, Storing
<1>11. Outcomes' BY <1>1, <1>3, <1>4, Onward DEF Ended
<1>. QED BY <1>6, <1>7, <1>10, <1>11 DEF FlowInv

LEMMA FlowGather ==
  ASSUME BodyInv, FlowInv, Gather
  PROVE  FlowInv'
<1>1. /\ phase = "running" /\ pc = "store" /\ answer = 0 /\ pc' = "partition" /\ at' = 1
      /\ With("waiting") \cup With("busy") = {}
      /\ UNCHANGED <<phase, answer, parts, known, spool, put, inserted, outcome>>
  BY Silent DEF Gather, Reach, bodyVars
<1>2. FlowType' BY <1>1, MediaAssumption DEF FlowInv, FlowType, Parts, Storing
<1>3. Places' BY <1>1 DEF FlowInv, Places, Storing, Parts, FlowType
<1>4. \A p \in Part : put[p] \notin {"waiting", "busy"} BY <1>1 DEF With
<1>5. Part \subseteq 1..MaxFiles BY DEF Part
<1>6. Puts' BY <1>1, <1>4, <1>5, MediaAssumption DEF FlowInv, Puts, Before, Storing, Parts
<1>7. Outcomes' BY <1>1, Onward DEF Ended
<1>. QED BY <1>2, <1>3, <1>6, <1>7 DEF FlowInv

LEMMA FlowPartition ==
  ASSUME BodyInv, FlowInv, Partition
  PROVE  FlowInv'
<1>1. /\ phase = "running" /\ pc = "partition" /\ answer = 0 /\ at' = at + 1
      /\ UNCHANGED <<phase, answer, parts, known, spool, put, inserted>>
  BY Silent DEF Partition, Reach, bodyVars
<1>2. /\ parts \in 1..MaxFiles /\ at \in 1..(parts + 1) /\ put \in [Part -> Put]
      /\ inserted = {} /\ outcome = 0 /\ spool = Parts
  BY <1>1, MediaAssumption DEF FlowInv, FlowType, Places, Outcomes, Ended, Storing
<1>3. Parts' = Parts /\ Parts \subseteq Part
  BY <1>1, <1>2, MediaAssumption DEF Parts, Part
<1>4. CASE /\ at <= parts /\ put[at] \in {"stored", "failed"} /\ UNCHANGED <<pc, outcome>>
  <2>1. FlowType' BY <1>1, <1>2, <1>4, MediaAssumption DEF FlowInv, FlowType, Parts
  <2>2. Places' BY <1>1, <1>2, <1>3, <1>4 DEF Places, Storing
  <2>3. \A p \in Part : p < at + 1 => p < at \/ p = at BY <1>2 DEF Part
  <2>4. Puts' BY <1>1, <1>3, <1>4, <2>3 DEF FlowInv, Puts, Before, Storing
  <2>5. Outcomes' BY <1>1, <1>4, Onward DEF Ended
  <2>. QED BY <2>1, <2>2, <2>4, <2>5 DEF FlowInv
<1>5. CASE pc' = "close" /\ outcome' \in {500, 502}
  <2>1. FlowType' BY <1>1, <1>2, <1>5, Codes, MediaAssumption DEF FlowInv, FlowType, Parts, Ended
  <2>2. Places' BY <1>1, <1>5 DEF Places, Storing
  <2>3. Puts' BY <1>1, <1>5 DEF FlowInv, Puts, Before, Storing
  <2>4. Outcomes' BY <1>1, <1>2, <1>5 DEF Outcomes, Ended
  <2>. QED BY <2>1, <2>2, <2>3, <2>4 DEF FlowInv
<1>6. CASE at > parts /\ ~AllFailed /\ pc' = "insert" /\ UNCHANGED outcome
  <2>1. FlowType' BY <1>1, <1>2, <1>6, MediaAssumption DEF FlowInv, FlowType, Parts, Storing
  <2>2. Places' BY <1>1, <1>2, <1>3, <1>6 DEF Places, Storing
  <2>3. \A p \in Parts : p < at BY <1>2, <1>6 DEF Parts
  <2>4. \A p \in Parts : put[p] \in {"stored", "failed"}
    BY <1>1, <1>3, <2>3 DEF FlowInv, Puts
  <2>5. \A p \in Part : p \notin Parts => put[p] = "none"
    BY <1>1 DEF FlowInv, Puts, Storing
  <2>6. \E p \in Parts : put[p] = "stored"
    BY <1>6, <2>5 DEF AllFailed, With
  <2>7. Puts' BY <1>1, <1>3, <1>6, <2>4, <2>5, <2>6 DEF FlowInv, Puts, Before, Storing
  <2>8. Outcomes' BY <1>1, <1>6, Onward DEF Ended
  <2>. QED BY <2>1, <2>2, <2>7, <2>8 DEF FlowInv
<1>. QED BY <1>4, <1>5, <1>6 DEF Partition, Abort

\* What an insert makes rows of: every part of the upload is stored or failed.
LEMMA Outcome ==
  ASSUME BodyInv, FlowInv, pc = "insert"
  PROVE  /\ With("stored") \subseteq Parts /\ With("stored") # {}
         /\ Parts \ With("stored") = With("failed")
         /\ Success = 201 => With("stored") = Parts
         /\ Success = 207 => With("stored") # Parts
         /\ Success \in {201, 207}
         /\ parts # 0
<1>1. /\ \A p \in Part : put[p] = "none" <=> p \notin Parts
      /\ \A p \in Parts : put[p] \in {"stored", "failed"}
      /\ \E p \in Parts : put[p] = "stored"
      /\ parts # 0
  BY DEF FlowInv, Puts, Places, Storing
<1>2. Parts \subseteq Part BY PartsType DEF FlowInv, FlowType
<1>3. /\ With("stored") \subseteq Parts /\ With("stored") # {}
      /\ Parts \ With("stored") = With("failed")
  BY <1>1, <1>2 DEF With
<1>4. CASE With("failed") = {}
  <2>1. Success = 201 BY <1>4 DEF Success
  <2>. QED BY <1>1, <1>3, <1>4, <2>1
<1>5. CASE With("failed") # {}
  <2>1. Success = 207 BY <1>5 DEF Success
  <2>. QED BY <1>1, <1>3, <1>5, <2>1
<1>. QED BY <1>4, <1>5

LEMMA FlowInsert ==
  ASSUME BodyInv, FlowInv, Insert
  PROVE  FlowInv'
<1>1. /\ phase = "running" /\ pc = "insert" /\ answer = 0 /\ pc' = "close"
      /\ UNCHANGED <<phase, answer, parts, known, at, spool, put>>
  BY Silent DEF Insert, Reach, bodyVars, Abort
<1>2. inserted = {} BY <1>1 DEF FlowInv, Outcomes, Ended
<1>3. \/ inserted' = With("stored") /\ outcome' \in {Success, 500}
      \/ inserted' = {} /\ outcome' = 500
  BY <1>2 DEF Insert, Abort, Prepared
<1>4. Parts' = Parts /\ With("stored")' = With("stored") /\ With("failed")' = With("failed")
  BY <1>1 DEF Parts, With
<1>5. outcome' \in Status \cup {0} /\ outcome' \in {201, 207, 500}
  BY <1>1, <1>3, Outcome, Codes
<1>6. FlowType' BY <1>1, <1>3, <1>4, <1>5, Outcome DEF FlowInv, FlowType, Ended
<1>7. Places' BY <1>1 DEF Places, Storing
<1>8. Puts'
  <2>1. \A p \in Part : put[p] \notin {"waiting", "busy"} BY <1>1 DEF FlowInv, Puts
  <2>. QED BY <1>1, <2>1 DEF Puts, Before, Storing
<1>9. \A p \in inserted' : put'[p] = "stored" BY <1>1, <1>3 DEF With
<1>10. Outcomes' BY <1>1, <1>3, <1>4, <1>5, <1>9, Outcome DEF Outcomes, Ended
<1>. QED BY <1>6, <1>7, <1>8, <1>10 DEF FlowInv

LEMMA FlowReturn ==
  ASSUME BodyInv, FlowInv, Return
  PROVE  FlowInv'
<1>1. /\ phase = "running" /\ pc = "close" /\ pc' = "done" /\ spool' = {} /\ answer = 0
      /\ phase' \in {"answering", "raised"} /\ answer' \in {0, outcome}
      /\ UNCHANGED <<parts, known, at, put, inserted, outcome>>
  BY Silent DEF Return, CloseSpools, Reach, Answer, Raise
<1>2. FlowType' BY <1>1 DEF FlowInv, FlowType, Parts, Ended
<1>3. Places' BY <1>1 DEF Places, Storing
<1>4. Puts' BY <1>1 DEF FlowInv, Puts, Before, Storing
<1>5. Parts' = Parts /\ With("stored")' = With("stored") /\ With("failed")' = With("failed")
  BY <1>1 DEF Parts, With
<1>6. Untouched' <=> Untouched BY <1>1 DEF Untouched
<1>7. Outcomes' BY <1>1, <1>5, <1>6 DEF FlowInv, Outcomes, Ended
<1>. QED BY <1>2, <1>3, <1>4, <1>7 DEF FlowInv

-----------------------------------------------------------------------------
(* What the table and the bucket hold. *)

Active == {"found", "removed", "stuck"}
EraserState == [at : {"idle", "found", "removed", "stuck", "done"}, key : Key]

StoreType ==
  /\ session \in BOOLEAN /\ rows \subseteq Key /\ objects \subseteq Key
  /\ eraser \in [Erasers -> EraserState]
  /\ faults \subseteq {"remove", "broken", "insert", "session", "crash"}

\* Only what was inserted is listed or deleted.
Listed ==
  /\ rows \subseteq Old \cup inserted
  /\ \A e \in Erasers : eraser[e].at \in Active => eraser[e].key \in Old \cup inserted

\* A stored part keeps its object until its row is inserted.
Bucket ==
  /\ \A p \in Part \ inserted : put[p] = "stored" => p \in objects
  /\ \A p \in Part : p \in objects => put[p] \in {"stored", "failed"}

\* Unless a fault left it, the object of a deletion is gone, and an object
\* without a row belongs to the upload that is storing.
Accounted ==
  faults = {} =>
    /\ \A e \in Erasers : eraser[e].at \in {"removed", "stuck"} => eraser[e].key \notin objects
    /\ \A k \in objects \ rows :
         /\ k \in Part /\ pc \in Storing
         /\ \/ put[k] = "stored"
            \/ put[k] = "failed" /\ (pc = "store" \/ (pc = "partition" /\ k >= at))

StoreInv == StoreType /\ Listed /\ Bucket /\ RowsHaveObjects /\ Accounted

PlayerInv ==
  /\ player \in [Players -> [at : {"idle", "found", "open", "body", "done", "abandoned"},
                             key : Key]]
  /\ upstream \subseteq {p \in Players : player[p].at \in {"open", "body", "abandoned"}}
  /\ lent \subseteq {p \in Players : player[p].at = "found"}

IInv == BodyInv /\ FlowInv /\ StoreInv /\ PlayerInv

LEMMA Keys == Old \cup Part = Key /\ Old \cap Part = {} /\ Part \subseteq Nat
BY MediaAssumption DEF Old, Part, Key

LEMMA StoreStart == ASSUME Init PROVE StoreInv
<1>1. StoreType BY Keys DEF Init, StoreType, EraserState, Old
<1>2. Listed BY DEF Init, Listed, Active
<1>3. Bucket BY Keys DEF Init, Bucket
<1>4. RowsHaveObjects BY DEF Init, RowsHaveObjects
<1>5. Accounted BY DEF Init, Accounted
<1>. QED BY <1>1, <1>2, <1>3, <1>4, <1>5 DEF StoreInv

\* A step that leaves table, bucket and deletions alone.
Idle(p) == put[p] \notin {"stored", "failed"}
StoreKeptBy ==
  /\ UNCHANGED <<storeVars, eraser, inserted>>
  /\ \A p \in Part : put'[p] = put[p] \/ (Idle(p) /\ Idle(p)')
  /\ \/ pc \notin Storing \/ UNCHANGED <<pc, at>>
     \/ pc = "store" /\ pc' = "partition" /\ at' = 1

LEMMA StoreKept ==
  ASSUME StoreInv, StoreKeptBy
  PROVE  StoreInv'
<1>1. UNCHANGED <<session, rows, objects, faults, eraser, inserted>>
  BY DEF StoreKeptBy, storeVars
<1>2. StoreType' BY <1>1 DEF StoreInv, StoreType
<1>3. Listed' BY <1>1 DEF StoreInv, Listed
<1>4. Bucket' BY <1>1 DEF StoreInv, Bucket, StoreKeptBy, Idle
<1>5. RowsHaveObjects' BY <1>1 DEF StoreInv, RowsHaveObjects
<1>6. Accounted'
  <2>. SUFFICES ASSUME faults = {}
                PROVE  /\ \A e \in Erasers : eraser[e].at \in {"removed", "stuck"} =>
                                               eraser[e].key \notin objects
                       /\ \A k \in objects \ rows :
                            /\ k \in Part /\ pc' \in Storing
                            /\ \/ put'[k] = "stored"
                               \/ put'[k] = "failed" /\ (pc' = "store" \/ (pc' = "partition" /\ k >= at'))
    BY <1>1 DEF Accounted
  <2>1. \A e \in Erasers : eraser[e].at \in {"removed", "stuck"} => eraser[e].key \notin objects
    BY DEF StoreInv, Accounted
  <2>2. ASSUME NEW k \in objects \ rows
        PROVE  /\ k \in Part /\ pc' \in Storing
               /\ \/ put'[k] = "stored"
                  \/ put'[k] = "failed" /\ (pc' = "store" \/ (pc' = "partition" /\ k >= at'))
    <3>1. /\ k \in Part /\ pc \in Storing
          /\ \/ put[k] = "stored"
             \/ put[k] = "failed" /\ (pc = "store" \/ (pc = "partition" /\ k >= at))
      BY <2>2 DEF StoreInv, Accounted
    <3>2. put'[k] = put[k] BY <3>1 DEF StoreKeptBy, Idle
    <3>3. k \in Nat /\ k >= 1 BY <3>1, MediaAssumption DEF Part
    <3>. QED BY <3>1, <3>2, <3>3 DEF StoreKeptBy, Storing
  <2>. QED BY <2>1, <2>2
<1>. QED BY <1>2, <1>3, <1>4, <1>5, <1>6 DEF StoreInv

LEMMA StoreEndPut ==
  ASSUME FlowInv, StoreInv, EndPut
  PROVE  StoreInv'
<1>1. UNCHANGED <<session, rows, faults, eraser, inserted, pc, at>> BY DEF EndPut, Elsewhere, eraserVars
<1>2. PICK p \in Part : /\ put[p] = "busy"
        /\ \/ put' = [put EXCEPT ![p] = "stored"] /\ objects' = objects \cup {p}
           \/ put' = [put EXCEPT ![p] = "failed"] /\ objects' \in {objects, objects \cup {p}}
           \/ put' = [put EXCEPT ![p] = "broken"] /\ objects' = objects
  BY DEF EndPut, With
<1>3. pc = "store" /\ inserted = {} /\ put \in [Part -> Put]
  BY <1>2 DEF EndPut, FlowInv, FlowType, Puts, Outcomes, Ended
<1>4. objects' \in {objects, objects \cup {p}} BY <1>2
<1>5. put'[p] \in {"stored", "failed", "broken"} /\ \A q \in Part : q # p => put'[q] = put[q]
  BY <1>2, <1>3
<1>6. put'[p] = "stored" => objects' = objects \cup {p} BY <1>2, <1>3
<1>7. objects' # objects => objects' = objects \cup {p} /\ put'[p] \in {"stored", "failed"}
  BY <1>2, <1>3
<1>8. StoreType' BY <1>1, <1>4, Keys DEF StoreInv, StoreType
<1>9. Listed' BY <1>1 DEF StoreInv, Listed
<1>10. Bucket' BY <1>1, <1>2, <1>5, <1>6, <1>7 DEF StoreInv, Bucket
<1>11. RowsHaveObjects' BY <1>1, <1>4 DEF StoreInv, RowsHaveObjects
<1>12. Accounted'
  <2>. SUFFICES ASSUME faults = {}
                PROVE  /\ \A e \in Erasers : eraser[e].at \in {"removed", "stuck"} =>
                                               eraser[e].key \notin objects'
                       /\ \A k \in objects' \ rows :
                            k \in Part /\ put'[k] \in {"stored", "failed"}
    BY <1>1, <1>3 DEF Accounted, Storing
  <2>1. \A e \in Erasers : eraser[e].at \in {"removed", "stuck"} =>
           eraser[e].key \notin objects /\ eraser[e].key \in Old
    BY <1>3 DEF StoreInv, Accounted, Listed, Active
  <2>2. \A k \in objects \ rows : k \in Part /\ put[k] \in {"stored", "failed"}
    BY DEF StoreInv, Accounted
  <2>. QED BY <1>2, <1>4, <1>5, <1>7, <2>1, <2>2, Keys
<1>. QED BY <1>8, <1>9, <1>10, <1>11, <1>12 DEF StoreInv

LEMMA StorePartition ==
  ASSUME FlowInv, StoreInv, Partition
  PROVE  StoreInv'
<1>1. pc = "partition" /\ at' = at + 1 /\ UNCHANGED <<session, rows, put, inserted, eraser, parts>>
  BY DEF Partition, Reach, Elsewhere, eraserVars
<1>2. inserted = {} /\ parts \in 0..MaxFiles /\ at \in Nat /\ \A p \in Part : p \notin Parts => put[p] = "none"
  BY <1>1 DEF FlowInv, FlowType, Outcomes, Puts, Storing, Ended
<1>cases.
      \/ at <= parts /\ put[at] = "stored" /\ UNCHANGED <<pc, objects, faults>>
      \/ at <= parts /\ put[at] = "failed" /\ CleanUp(at) /\ pc' = pc
      \/ at <= parts /\ UNCHANGED objects /\ faults' = faults \cup {"broken"}
      \/ at > parts /\ AllFailed /\ UNCHANGED <<objects, faults>>
      \/ at > parts /\ ~AllFailed /\ pc' = "insert" /\ UNCHANGED <<objects, faults>>
  BY DEF Partition, Abort
<1>part. at <= parts => at \in Part
  BY <1>1, <1>2, MediaAssumption DEF FlowInv, FlowType, Part
<1>3. /\ objects' \in {objects, objects \ {at}}
      /\ objects' # objects => at \in Part /\ put[at] = "failed"
      /\ faults \subseteq faults' /\ faults' \subseteq faults \cup {"remove", "broken"}
  BY <1>cases, <1>part DEF CleanUp, Remove
<1>4. StoreType' BY <1>1, <1>3 DEF StoreInv, StoreType
<1>5. Listed' BY <1>1 DEF StoreInv, Listed
<1>6. Bucket' BY <1>1, <1>3 DEF StoreInv, Bucket
<1>7. objects' # objects => at \notin rows BY <1>2, <1>3, Keys DEF StoreInv, Listed
<1>8. RowsHaveObjects' BY <1>1, <1>3, <1>7 DEF StoreInv, RowsHaveObjects
<1>9. Accounted'
  <2>. SUFFICES ASSUME faults' = {}
                PROVE  /\ \A e \in Erasers : eraser[e].at \in {"removed", "stuck"} =>
                                               eraser[e].key \notin objects'
                       /\ \A k \in objects' \ rows :
                            /\ k \in Part /\ pc' \in Storing
                            /\ \/ put[k] = "stored"
                               \/ put[k] = "failed" /\ (pc' = "store" \/ (pc' = "partition" /\ k >= at + 1))
    BY <1>1 DEF Accounted
  <2>1. faults = {} BY <1>3
  <2>2. \A e \in Erasers : eraser[e].at \in {"removed", "stuck"} => eraser[e].key \notin objects'
    BY <1>3, <2>1 DEF StoreInv, Accounted
  <2>3. ASSUME NEW k \in objects' \ rows
        PROVE  /\ k \in Part /\ pc' \in Storing
               /\ \/ put[k] = "stored"
                  \/ put[k] = "failed" /\ (pc' = "store" \/ (pc' = "partition" /\ k >= at + 1))
    <3>1. k \in Part /\ k \in Nat /\ (put[k] = "stored" \/ (put[k] = "failed" /\ k >= at))
      BY <1>1, <1>3, <2>1, <2>3, Keys DEF StoreInv, Accounted
    <3>2. k \in Parts /\ k <= parts BY <1>2, <3>1 DEF Parts
    <3>3. CASE at <= parts
      <4>1. pc' = "partition" BY <1>1, <1>2, <1>cases, <3>3
      <4>2. put[k] = "failed" => k # at
        BY <1>2, <1>cases, <2>1, <2>3, <3>1, <3>3 DEF CleanUp, Remove
      <4>. QED BY <1>2, <3>1, <4>1, <4>2 DEF Storing
    <3>4. CASE at > parts
      <4>1. put[k] = "stored" BY <1>2, <3>1, <3>2, <3>4
      <4>2. pc' = "insert" BY <1>2, <1>cases, <3>1, <3>4, <4>1 DEF AllFailed, With
      <4>. QED BY <3>1, <4>1, <4>2 DEF Storing
    <3>. QED BY <1>2, <3>3, <3>4
  <2>. QED BY <2>2, <2>3
<1>. QED BY <1>4, <1>5, <1>6, <1>8, <1>9 DEF StoreInv

LEMMA StoreInsert ==
  ASSUME FlowInv, StoreInv, Insert
  PROVE  StoreInv'
<1>1. pc = "insert" /\ UNCHANGED <<session, objects, put, eraser, parts>>
  BY DEF Insert, Reach, Elsewhere, eraserVars
<1>2. inserted = {} /\ With("stored") \subseteq Part
  BY <1>1 DEF FlowInv, Outcomes, Ended, With
<1>3. \/ rows' = rows \cup With("stored") /\ inserted' = With("stored") /\ faults' = faults
      \/ rows' = rows /\ inserted' = inserted /\ faults' = faults \cup {"insert"}
  BY DEF Insert, Prepared
<1>4. StoreType' BY <1>1, <1>2, <1>3, Keys DEF StoreInv, StoreType
<1>5. Listed' BY <1>1, <1>2, <1>3 DEF StoreInv, Listed
<1>6. Bucket' BY <1>1, <1>2, <1>3 DEF StoreInv, Bucket
<1>7. With("stored") \subseteq objects BY <1>2 DEF StoreInv, Bucket, With
<1>8. RowsHaveObjects' BY <1>1, <1>3, <1>7 DEF StoreInv, RowsHaveObjects
<1>9. Accounted'
  <2>. SUFFICES ASSUME faults' = {}
                PROVE  /\ \A e \in Erasers : eraser[e].at \in {"removed", "stuck"} =>
                                               eraser[e].key \notin objects
                       /\ objects \subseteq rows'
    BY <1>1 DEF Accounted
  <2>1. faults = {} /\ rows' = rows \cup With("stored") BY <1>3
  <2>2. \A e \in Erasers : eraser[e].at \in {"removed", "stuck"} => eraser[e].key \notin objects
    BY <2>1 DEF StoreInv, Accounted
  <2>3. \A k \in objects \ rows : k \in Part /\ put[k] = "stored"
    BY <1>1, <2>1 DEF StoreInv, Accounted
  <2>. QED BY <2>1, <2>2, <2>3 DEF With
<1>. QED BY <1>4, <1>5, <1>6, <1>8, <1>9 DEF StoreInv

LEMMA StoreEraseFind ==
  ASSUME StoreInv, NEW e \in Erasers, EraseFind(e)
  PROVE  StoreInv'
<1>1. UNCHANGED <<session, rows, objects, faults, put, inserted, pc, at>>
  BY DEF EraseFind, storeVars, uploadVars
<1>2. PICK k \in rows : eraser' = [eraser EXCEPT ![e] = [at |-> "found", key |-> k]]
  BY DEF EraseFind
<1>3. eraser \in [Erasers -> EraserState] /\ k \in Key /\ k \in Old \cup inserted
  BY DEF StoreInv, StoreType, Listed
<1>4. /\ eraser'[e].at = "found" /\ eraser'[e].key = k
      /\ \A f \in Erasers : f # e => eraser'[f] = eraser[f]
  BY <1>2, <1>3
<1>5. eraser[e].at = "idle" BY DEF EraseFind
<1>6. eraser' \in [Erasers -> EraserState] BY <1>2, <1>3 DEF EraserState
<1>7. StoreType' BY <1>1, <1>6 DEF StoreInv, StoreType
<1>8. Listed' BY <1>1, <1>3, <1>4 DEF StoreInv, Listed
<1>9. Bucket' BY <1>1 DEF StoreInv, Bucket
<1>10. RowsHaveObjects'
  <2>. SUFFICES ASSUME NEW x \in rows \ objects
                PROVE  \E f \in Erasers : eraser'[f].key = x /\ eraser'[f].at \in {"removed", "stuck"}
    BY <1>1 DEF RowsHaveObjects
  <2>1. PICK f \in Erasers : eraser[f].key = x /\ eraser[f].at \in {"removed", "stuck"}
    BY DEF StoreInv, RowsHaveObjects
  <2>. QED BY <1>4, <1>5, <2>1
<1>11. Accounted' BY <1>1, <1>4 DEF StoreInv, Accounted
<1>. QED BY <1>7, <1>8, <1>9, <1>10, <1>11 DEF StoreInv

LEMMA StoreEraseObject ==
  ASSUME StoreInv, NEW e \in Erasers, EraseObject(e)
  PROVE  StoreInv'
<1>1. UNCHANGED <<session, rows, put, inserted, pc, at>> BY DEF EraseObject, uploadVars
<1>2. eraser \in [Erasers -> EraserState] /\ eraser[e].at = "found"
  BY DEF StoreInv, StoreType, EraseObject
<1>3. /\ eraser'[e].at = "removed" /\ eraser'[e].key = eraser[e].key
      /\ \A f \in Erasers : f # e => eraser'[f] = eraser[f]
      /\ eraser' \in [Erasers -> EraserState]
  BY <1>2 DEF EraseObject, EraserState
<1>4. \/ objects' = objects \ {eraser[e].key} /\ faults' = faults
      \/ objects' = objects /\ faults' = faults \cup {"remove"}
  BY DEF EraseObject, Remove
<1>5. eraser[e].key \in Old \cup inserted BY <1>2 DEF StoreInv, Listed, Active
<1>6. StoreType' BY <1>1, <1>3, <1>4 DEF StoreInv, StoreType
<1>7. Listed' BY <1>1, <1>2, <1>3, <1>5 DEF StoreInv, Listed, Active
<1>8. Bucket' BY <1>1, <1>4, <1>5, Keys DEF StoreInv, Bucket
<1>9. RowsHaveObjects'
  <2>. SUFFICES ASSUME NEW x \in rows \ objects'
                PROVE  \E f \in Erasers : eraser'[f].key = x /\ eraser'[f].at \in {"removed", "stuck"}
    BY <1>1 DEF RowsHaveObjects
  <2>1. CASE x \in objects BY <1>3, <1>4, <2>1
  <2>2. CASE x \notin objects
    <3>1. PICK f \in Erasers : eraser[f].key = x /\ eraser[f].at \in {"removed", "stuck"}
      BY <2>2 DEF StoreInv, RowsHaveObjects
    <3>. QED BY <1>2, <1>3, <3>1
  <2>. QED BY <2>1, <2>2
<1>10. Accounted' BY <1>1, <1>3, <1>4 DEF StoreInv, Accounted
<1>. QED BY <1>6, <1>7, <1>8, <1>9, <1>10 DEF StoreInv

LEMMA StoreEraseRow ==
  ASSUME StoreInv, NEW e \in Erasers, EraseRow(e)
  PROVE  StoreInv'
<1>1. UNCHANGED <<session, objects, faults, put, inserted, pc, at>> BY DEF EraseRow, uploadVars
<1>2. eraser \in [Erasers -> EraserState] /\ eraser[e].at = "removed"
  BY DEF StoreInv, StoreType, EraseRow
<1>3. /\ eraser'[e].at \in {"stuck", "done"} /\ eraser'[e].key = eraser[e].key
      /\ \A f \in Erasers : f # e => eraser'[f] = eraser[f]
      /\ eraser' \in [Erasers -> EraserState]
  BY <1>2 DEF EraseRow, EraserState
<1>4. \/ rows' = rows \ {eraser[e].key}
      \/ rows' = rows /\ eraser'[e].at = "stuck"
  BY <1>2 DEF EraseRow, EraserState
<1>5. StoreType' BY <1>1, <1>3, <1>4 DEF StoreInv, StoreType
<1>6. Listed' BY <1>1, <1>2, <1>3, <1>4 DEF StoreInv, Listed, Active
<1>7. Bucket' BY <1>1 DEF StoreInv, Bucket
<1>8. RowsHaveObjects'
  <2>. SUFFICES ASSUME NEW x \in rows' \ objects
                PROVE  \E f \in Erasers : eraser'[f].key = x /\ eraser'[f].at \in {"removed", "stuck"}
    BY <1>1 DEF RowsHaveObjects
  <2>1. PICK f \in Erasers : eraser[f].key = x /\ eraser[f].at \in {"removed", "stuck"}
    BY <1>4 DEF StoreInv, RowsHaveObjects
  <2>. QED BY <1>3, <1>4, <2>1
<1>9. Accounted'
  <2>. SUFFICES ASSUME faults = {}
                PROVE  /\ \A f \in Erasers : eraser'[f].at \in {"removed", "stuck"} =>
                                               eraser'[f].key \notin objects
                       /\ objects \ rows' = objects \ rows
    BY <1>1 DEF StoreInv, Accounted
  <2>1. \A f \in Erasers : eraser[f].at \in {"removed", "stuck"} => eraser[f].key \notin objects
    BY DEF StoreInv, Accounted
  <2>. QED BY <1>2, <1>3, <1>4, <2>1
<1>. QED BY <1>5, <1>6, <1>7, <1>8, <1>9 DEF StoreInv

LEMMA StoreDeleteSession == ASSUME StoreInv, DeleteSession PROVE StoreInv'
<1>1. /\ UNCHANGED <<objects, eraser, put, inserted>>
      /\ session' = FALSE /\ rows' = {} /\ faults' = faults \cup {"session"}
  BY DEF DeleteSession, uploadVars, eraserVars
<1>2. StoreType' BY <1>1 DEF StoreInv, StoreType
<1>3. Listed' BY <1>1 DEF StoreInv, Listed
<1>4. Bucket' BY <1>1 DEF StoreInv, Bucket
<1>5. RowsHaveObjects' BY <1>1 DEF RowsHaveObjects
<1>6. Accounted' BY <1>1 DEF Accounted
<1>. QED BY <1>2, <1>3, <1>4, <1>5, <1>6 DEF StoreInv

LEMMA StoreCrash == ASSUME StoreInv, Crash PROVE StoreInv'
<1>1. /\ UNCHANGED <<session, rows, objects, put, inserted>>
      /\ faults' = faults \cup {"crash"}
  BY DEF Crash
<1>2. eraser \in [Erasers -> EraserState] BY DEF StoreInv, StoreType
<1>3. \A e \in Erasers :
         /\ eraser'[e] = [eraser[e] EXCEPT !.at = IF eraser[e].at \in {"removed", "stuck"} THEN "stuck" ELSE "done"]
         /\ eraser[e] \in EraserState
  BY <1>2 DEF Crash
<1>4. \A e \in Erasers :
         /\ eraser'[e] \in EraserState /\ eraser'[e].key = eraser[e].key
         /\ eraser'[e].at = IF eraser[e].at \in {"removed", "stuck"} THEN "stuck" ELSE "done"
  BY <1>3 DEF EraserState
<1>5. eraser' \in [Erasers -> EraserState] BY <1>4 DEF Crash
<1>6. StoreType' BY <1>1, <1>5 DEF StoreInv, StoreType
<1>7. Listed' BY <1>1, <1>4 DEF StoreInv, Listed, Active
<1>8. Bucket' BY <1>1 DEF StoreInv, Bucket
<1>9. RowsHaveObjects' BY <1>1, <1>4 DEF StoreInv, RowsHaveObjects
<1>10. Accounted' BY <1>1 DEF Accounted
<1>. QED BY <1>6, <1>7, <1>8, <1>9, <1>10 DEF StoreInv

-----------------------------------------------------------------------------
(* The players, and the whole invariant. *)

PlayerState == [at : {"idle", "found", "open", "body", "done", "abandoned"}, key : Key]

LEMMA PlayerKept == ASSUME PlayerInv, UNCHANGED playerVars PROVE PlayerInv'
BY DEF PlayerInv, playerVars

\* One player moves, and what it holds changes with it.
LEMMA PlayerMoves ==
  ASSUME PlayerInv, NEW p \in Players, NEW s \in PlayerState,
         player' = [player EXCEPT ![p] = s],
         upstream' \subseteq upstream \cup {p}, lent' \subseteq lent \cup {p},
         p \in upstream' => s.at \in {"open", "body", "abandoned"},
         p \in lent' => s.at = "found"
  PROVE  PlayerInv'
<1>1. player \in [Players -> PlayerState] BY DEF PlayerInv, PlayerState
<1>2. player' \in [Players -> PlayerState] BY <1>1
<1>3. player'[p] = s /\ \A q \in Players : q # p => player'[q] = player[q] BY <1>1
<1>. QED BY <1>2, <1>3 DEF PlayerInv, PlayerState

LEMMA PlayerFind ==
  ASSUME StoreInv, PlayerInv, NEW p \in Players, PlayFind(p)
  PROVE  PlayerInv'
<1>1. PICK k \in rows : player' = [player EXCEPT ![p] = [at |-> "found", key |-> k]]
  BY DEF PlayFind
<1>2. [at |-> "found", key |-> k] \in PlayerState
  BY DEF StoreInv, StoreType, PlayerState
<1>3. p \notin upstream BY DEF PlayFind, PlayerInv
<1>4. upstream' = upstream /\ lent' = lent \cup {p} BY DEF PlayFind
<1>. QED BY <1>1, <1>2, <1>3, <1>4, PlayerMoves

LEMMA PlayerPlays ==
  ASSUME PlayerInv, NEW p \in Players,
         PlayOpen(p) \/ PlayBody(p) \/ PlayEnd(p) \/ PlayAbandon(p)
  PROVE  PlayerInv'
<1>1. player \in [Players -> PlayerState] BY DEF PlayerInv, PlayerState
<1>2. PICK a \in {"open", "body", "done", "abandoned"} :
        /\ player' = [player EXCEPT ![p] = [player[p] EXCEPT !.at = a]]
        /\ a = "done" => p \notin upstream'
  BY <1>1 DEF PlayOpen, PlayBody, PlayEnd, PlayAbandon, PlayerInv
<1>3. upstream' \subseteq upstream \cup {p} /\ lent' \subseteq lent /\ p \notin lent'
  BY DEF PlayOpen, PlayBody, PlayEnd, PlayAbandon, Release, PlayerInv
<1>4. /\ [player[p] EXCEPT !.at = a] \in PlayerState
      /\ [player[p] EXCEPT !.at = a].at = a
  BY <1>1 DEF PlayerState
<1>. QED BY <1>2, <1>3, <1>4, PlayerMoves

LEMMA PlayersDie == ASSUME PlayerInv, Crash PROVE PlayerInv'
<1>1. player \in [Players -> PlayerState] BY DEF PlayerInv, PlayerState
<1>2. \A p \in Players : [player[p] EXCEPT !.at = "done"] \in PlayerState
  BY <1>1 DEF PlayerState
<1>. QED BY <1>2 DEF Crash, PlayerInv, PlayerState

LEMMA FlowCrash == ASSUME FlowInv, Crash PROVE FlowInv'
<1>1. /\ pc' = "dead" /\ phase' = "dead"
      /\ UNCHANGED <<answer, parts, known, at, spool, put, inserted, outcome>>
  BY DEF Crash
<1>2. FlowType' BY <1>1 DEF FlowInv, FlowType, Parts, Ended
<1>3. Places' BY <1>1 DEF Places, Storing
<1>4. Puts' BY <1>1 DEF Puts, Before, Storing
<1>5. Parts' = Parts /\ With("stored")' = With("stored") /\ With("failed")' = With("failed")
  BY <1>1 DEF Parts, With
<1>6. Untouched' <=> Untouched BY <1>1 DEF Untouched
<1>7. Outcomes' BY <1>1, <1>5, <1>6 DEF FlowInv, Outcomes, Ended
<1>. QED BY <1>2, <1>3, <1>4, <1>7 DEF FlowInv

\* What no action of the upload but two touches.
LEMMA BodyUpload ==
  ASSUME BodyInv, FlowInv, Upload
  PROVE  BodyInv' /\ UNCHANGED playerVars
<1>1. CASE Enter
  <2>1. UNCHANGED playerVars BY <1>1 DEF Enter, Elsewhere
  <2>2. ASSUME NEW s \in {400, 401, 422, 429}, Leave(s) \/ Raise PROVE BodyInv'
    <3>1. s \in Status BY DEF Status, ErrorStatus
    <3>. QED BY <2>2, <3>1, BodyAnswers DEF Leave
  <2>3. UNCHANGED bodyVars => BodyInv' BY BodyKept
  <2>. QED BY <1>1, <2>1, <2>2, <2>3 DEF Enter
<1>2. CASE Return
  <2>1. outcome \in Status
    BY <1>2 DEF FlowInv, FlowType, Outcomes, Return, Reach, Ended
  <2>. QED BY <1>2, <2>1, BodyAnswers DEF Return, Elsewhere
<1>3. CASE Spool \/ Count \/ Authorize \/ Validate \/ StartPut \/ EndPut \/ Gather \/ Partition \/ Insert
  <2>1. UNCHANGED bodyVars /\ UNCHANGED playerVars
    BY <1>3 DEF Spool, Count, Authorize, Validate, StartPut, EndPut, Gather, Partition, Insert, Elsewhere
  <2>. QED BY <2>1, BodyKept
<1>. QED BY <1>1, <1>2, <1>3 DEF Upload

LEMMA FlowUpload == ASSUME BodyInv, FlowInv, Upload PROVE FlowInv'
BY FlowEnter, FlowSpool, FlowCount, FlowAuthorize, FlowValidate, FlowStartPut, FlowEndPut,
   FlowGather, FlowPartition, FlowInsert, FlowReturn DEF Upload

LEMMA StoreUpload == ASSUME FlowInv, StoreInv, Upload PROVE StoreInv'
<1>1. CASE Enter \/ Spool \/ Count \/ Authorize \/ Return
  <2>1. UNCHANGED <<storeVars, eraser, inserted, put>> /\ pc \notin Storing
    BY <1>1 DEF Enter, Spool, Count, Authorize, Return, Elsewhere, eraserVars, Reach, Storing
  <2>. QED BY <2>1, StoreKept DEF StoreKeptBy
<1>2. CASE Validate
  <2>1. UNCHANGED <<storeVars, eraser, inserted>> /\ pc = "validate"
    BY <1>2 DEF Validate, Elsewhere, eraserVars, Reach
  <2>2. \A p \in Part : put[p] = "none" BY <2>1 DEF FlowInv, Puts, Before
  <2>3. put' = put \/ put' = [p \in Part |-> IF p \in Parts THEN "waiting" ELSE "none"]
    BY <1>2 DEF Validate
  <2>4. \A p \in Part : put'[p] = put[p] \/ (Idle(p) /\ Idle(p)') BY <2>2, <2>3 DEF Idle
  <2>. QED BY <2>1, <2>4, StoreKept DEF StoreKeptBy, Storing
<1>3. CASE StartPut
  <2>1. UNCHANGED <<storeVars, eraser, inserted, pc, at>>
    BY <1>3 DEF StartPut, Elsewhere, eraserVars
  <2>2. PICK p \in Part : put[p] = "waiting" /\ put' = [put EXCEPT ![p] = "busy"]
    BY <1>3 DEF StartPut, With
  <2>3. put \in [Part -> Put] BY DEF FlowInv, FlowType
  <2>4. \A q \in Part : put'[q] = put[q] \/ (Idle(q) /\ Idle(q)') BY <2>2, <2>3 DEF Idle
  <2>. QED BY <2>1, <2>4, StoreKept DEF StoreKeptBy
<1>4. CASE Gather
  <2>1. /\ UNCHANGED <<storeVars, eraser, inserted, put>>
        /\ pc = "store" /\ pc' = "partition" /\ at' = 1
    BY <1>4 DEF Gather, Elsewhere, eraserVars, Reach
  <2>. QED BY <2>1, StoreKept DEF StoreKeptBy
<1>. QED BY <1>1, <1>2, <1>3, <1>4, StoreEndPut, StorePartition, StoreInsert DEF Upload

LEMMA Starts == ASSUME Init PROVE IInv
<1>1. PlayerInv BY Keys DEF Init, PlayerInv, Old
<1>. QED BY <1>1, BodyStart, FlowStart, StoreStart DEF Init, IInv

LEMMA Inductive == ASSUME IInv, [Next]_vars PROVE IInv'
<1>. USE DEF IInv
<1>1. CASE Body
  <2>1. BodyInv' BY <1>1, BodySteps DEF Body
  <2>2. FlowInv' BY <1>1, FlowBody
  <2>3. StoreInv' BY <1>1, StoreKept DEF Body, StoreKeptBy, storeVars, uploadVars, eraserVars
  <2>4. PlayerInv' BY <1>1, PlayerKept DEF Body
  <2>. QED BY <2>1, <2>2, <2>3, <2>4
<1>2. CASE Upload BY <1>2, BodyUpload, FlowUpload, StoreUpload, PlayerKept
<1>3. ASSUME NEW e \in Erasers, EraseFind(e) \/ EraseObject(e) \/ EraseRow(e)
      PROVE  IInv'
  <2>1. UNCHANGED bodyVars /\ UNCHANGED uploadVars /\ UNCHANGED playerVars
    BY <1>3 DEF EraseFind, EraseObject, EraseRow
  <2>2. StoreInv' BY <1>3, StoreEraseFind, StoreEraseObject, StoreEraseRow
  <2>. QED BY <2>1, <2>2, BodyKept, FlowKept, PlayerKept DEF bodyVars
<1>4. CASE DeleteSession
  <2>1. UNCHANGED bodyVars /\ UNCHANGED uploadVars /\ UNCHANGED playerVars
    BY <1>4 DEF DeleteSession
  <2>. QED BY <1>4, <2>1, BodyKept, FlowKept, PlayerKept, StoreDeleteSession DEF bodyVars
<1>5. ASSUME NEW p \in Players,
             PlayFind(p) \/ PlayOpen(p) \/ PlayBody(p) \/ PlayEnd(p) \/ PlayAbandon(p)
      PROVE  IInv'
  <2>1. UNCHANGED bodyVars /\ UNCHANGED storeVars /\ UNCHANGED uploadVars /\ UNCHANGED eraserVars
    BY <1>5 DEF PlayFind, PlayOpen, PlayBody, PlayEnd, PlayAbandon
  <2>2. StoreInv' BY <2>1, StoreKept DEF StoreKeptBy, uploadVars, eraserVars
  <2>3. PlayerInv' BY <1>5, PlayerFind, PlayerPlays
  <2>. QED BY <2>1, <2>2, <2>3, BodyKept, FlowKept DEF bodyVars
<1>6. CASE Crash BY <1>6, BodyDies, FlowCrash, StoreCrash, PlayersDie
<1>7. CASE UNCHANGED vars
  <2>1. UNCHANGED bodyVars /\ UNCHANGED storeVars /\ UNCHANGED uploadVars
        /\ UNCHANGED eraserVars /\ UNCHANGED playerVars
    BY <1>7 DEF vars
  <2>2. StoreInv' BY <2>1, StoreKept DEF StoreKeptBy, uploadVars, eraserVars
  <2>. QED BY <2>1, <2>2, BodyKept, FlowKept, PlayerKept DEF bodyVars
<1>. QED BY <1>1, <1>2, <1>3, <1>4, <1>5, <1>6, <1>7 DEF Next

LEMMA Always == Spec => []IInv
<1>1. Init => IInv BY Starts
<1>2. IInv /\ [Next]_vars => IInv' BY Inductive
<1>. QED BY <1>1, <1>2, PTL DEF Spec

-----------------------------------------------------------------------------
\* Type correctness: every variable of the request, the upload, the table, the
\* bucket, the deletions and the players keeps its type.
THEOREM TypeCorrect == Spec => []TypeOK
<1>1. IInv => TypeOK
  BY DEF IInv, BodyInv, FlowInv, FlowType, Before, Storing, Ended, StoreInv, StoreType, EraserState,
         PlayerInv, TypeOK
<1>. QED BY <1>1, Always, PTL

\* However the limit is passed around the application's own messages, the
\* client gets one response, and a whole one when the middleware is done.
THEOREM OneAnswer == Spec => []OneResponse
<1>1. IInv => OneResponse BY DEF IInv, BodyInv
<1>. QED BY <1>1, Always, PTL

\* An oversized body never reaches a route, and 413 is told to those it is
\* meant for and to no other.
THEOREM LimitHolds == Spec => []OversizedRefused
<1>1. IInv => OversizedRefused
  <2>1. SUFFICES ASSUME IInv, phase # "over" PROVE OversizedRefused
    BY DEF IInv, BodyInv
  <2>2. body \in Nat /\ Limit \in Nat BY <2>1, LimitAssumption DEF IInv, BodyInv, BodyTypeOK
  <2>3. phase \in {"running", "raised"} => body <= Limit BY <2>1 DEF IInv, BodyInv
  <2>. QED BY <2>1, <2>2, <2>3 DEF OversizedRefused
<1>. QED BY <1>1, Always, PTL

\* A row without its object belongs to a deletion that failed or is under way.
THEOREM RowsAreBacked == Spec => []RowsHaveObjects
<1>1. IInv => RowsHaveObjects BY DEF IInv, StoreInv
<1>. QED BY <1>1, Always, PTL

\* Outside a running upload, an object without a row was left by a fault.
THEOREM ObjectsAreListed == Spec => []ObjectsHaveRows
<1>1. IInv => ObjectsHaveRows
  <2>1. SUFFICES ASSUME IInv, phase # "running", faults = {} PROVE objects \subseteq rows
    BY DEF ObjectsHaveRows
  <2>2. pc \notin Storing BY <2>1 DEF IInv, FlowInv, Places, Storing, BodyInv, BodyTypeOK
  <2>. QED BY <2>1, <2>2 DEF IInv, StoreInv, Accounted
<1>. QED BY <1>1, Always, PTL

\* A batch that is refused has stored nothing.
THEOREM RefusalsStoreNothing == Spec => []RefusedStoresNothing
<1>1. IInv => RefusedStoresNothing
  BY DEF IInv, FlowInv, Outcomes, Untouched, StoreInv, Bucket, RefusedStoresNothing
<1>. QED BY <1>1, Always, PTL

\* The answer tells which parts have rows.
THEOREM AnswersAreTrue == Spec => []AnswerAgrees
<1>1. IInv => AnswerAgrees
  <2>1. SUFFICES ASSUME IInv PROVE AnswerAgrees OBVIOUS
  <2>2. answer \in {201, 207, 502} => outcome = answer BY <2>1 DEF IInv, FlowInv, Outcomes
  <2>3. parts # 0 => 1 \in Parts BY <2>1, MediaAssumption DEF IInv, FlowInv, FlowType, Parts
  <2>. QED BY <2>1, <2>2, <2>3 DEF IInv, FlowInv, Outcomes, AnswerAgrees
<1>. QED BY <1>1, Always, PTL

\* A PUT in flight has its temporary file, and a request that ended has none.
THEOREM SpoolsLast == Spec => []SpoolsOutlivePuts
<1>1. IInv => SpoolsOutlivePuts
  <2>1. SUFFICES ASSUME IInv PROVE SpoolsOutlivePuts OBVIOUS
  <2>2. phase # "dead" => With("busy") \subseteq spool
    <3>1. SUFFICES ASSUME phase # "dead", NEW p \in Part, put[p] = "busy" PROVE p \in spool
      BY DEF With
    <3>2. pc = "store" /\ p \in Parts
      BY <2>1, <3>1 DEF IInv, FlowInv, FlowType, Places, Puts, Before, Storing, Ended
    <3>. QED BY <2>1, <3>2 DEF IInv, FlowInv, Places, Storing
  <2>3. phase \in {"answering", "started", "returned", "raised", "over"} => spool = {}
    BY <2>1 DEF IInv, FlowInv, Places
  <2>. QED BY <2>2, <2>3 DEF SpoolsOutlivePuts
<1>. QED BY <1>1, Always, PTL

\* A player that streams holds no connection of the pool.
THEOREM StreamsAreFree == Spec => []StreamsHoldNoConnection
<1>1. IInv => StreamsHoldNoConnection BY DEF IInv, PlayerInv, StreamsHoldNoConnection
<1>. QED BY <1>1, Always, PTL

-----------------------------------------------------------------------------
(* Table and bucket implement the library. *)

libraryVars == <<rows \cap objects, inserted, session>>

\* A step of the upload publishes its batch or is not seen.
LEMMA UploadMaps ==
  ASSUME IInv, Upload
  PROVE  Library!Publish \/ UNCHANGED libraryVars
<1>1. CASE Enter \/ Spool \/ Count \/ Authorize \/ Validate \/ StartPut \/ Gather \/ Return
  BY <1>1 DEF Enter, Spool, Count, Authorize, Validate, StartPut, Gather, Return, storeVars, libraryVars
<1>2. CASE EndPut
  <2>1. PICK p \in Part : put[p] = "busy" /\ objects' \in {objects, objects \cup {p}}
    BY <1>2 DEF EndPut, With
  <2>2. UNCHANGED <<rows, inserted, session>> BY <1>2 DEF EndPut
  <2>3. p \notin rows
    BY <2>1, Keys DEF IInv, FlowInv, Outcomes, StoreInv, Listed
  <2>. QED BY <2>1, <2>2, <2>3 DEF libraryVars
<1>3. CASE Partition
  <2>1. UNCHANGED <<rows, inserted, session>> BY <1>3 DEF Partition
  <2>2. objects' = objects \/ (objects' = objects \ {at} /\ at <= parts /\ put[at] = "failed")
    BY <1>3 DEF Partition, CleanUp, Remove
  <2>3. at <= parts => at \in Part
    BY MediaAssumption DEF IInv, FlowInv, FlowType, Part
  <2>4. at <= parts /\ put[at] = "failed" => at \notin rows
    BY <2>3, Keys DEF IInv, FlowInv, Outcomes, StoreInv, Listed
  <2>. QED BY <2>1, <2>2, <2>4 DEF libraryVars
<1>4. CASE Insert
  <2>1. pc = "insert" /\ UNCHANGED <<session, objects>> BY <1>4 DEF Insert, Reach
  <2>2. inserted = {} /\ With("stored") \subseteq Part /\ With("stored") # {}
    BY <2>1, Outcome DEF IInv, FlowInv, Outcomes, Ended, With
  <2>3. With("stored") \subseteq objects BY <2>2 DEF IInv, StoreInv, Bucket, With
  <2>4. CASE session /\ rows' = rows \cup With("stored") /\ inserted' = With("stored")
    <3>1. rows' \cap objects' = (rows \cap objects) \cup inserted'
      BY <2>1, <2>3, <2>4
    <3>. QED BY <2>1, <2>2, <2>4, <3>1 DEF Library!Publish
  <2>5. CASE UNCHANGED <<rows, inserted>> BY <2>1, <2>5 DEF libraryVars
  <2>. QED BY <1>4, <2>4, <2>5 DEF Insert, Prepared
<1>. QED BY <1>1, <1>2, <1>3, <1>4 DEF Upload

\* A deletion withdraws its file with the object, and its row is not seen to
\* go; when the object stays, the file is withdrawn with the row.
LEMMA ErasersMap ==
  ASSUME NEW e \in Erasers, EraseFind(e) \/ EraseObject(e) \/ EraseRow(e)
  PROVE  Library!Withdraw \/ UNCHANGED libraryVars
<1>1. UNCHANGED <<inserted, session>>
  BY DEF EraseFind, EraseObject, EraseRow, storeVars, uploadVars
<1>2. \/ UNCHANGED <<rows, objects>>
      \/ rows' = rows /\ objects' = objects \ {eraser[e].key}
      \/ rows' = rows \ {eraser[e].key} /\ objects' = objects
  BY DEF EraseFind, EraseObject, EraseRow, Remove, storeVars
<1>3. CASE rows' \cap objects' = rows \cap objects BY <1>1, <1>3 DEF libraryVars
<1>4. CASE rows' \cap objects' # rows \cap objects
  <2>1. /\ eraser[e].key \in rows \cap objects
        /\ rows' \cap objects' = (rows \cap objects) \ {eraser[e].key}
    BY <1>2, <1>4
  <2>. QED BY <1>1, <2>1 DEF Library!Withdraw
<1>. QED BY <1>3, <1>4

\* Together they implement MediaLibrary: a batch appears at once and in an
\* open session, and nothing that was withdrawn comes back.
THEOREM Implements == Spec => ImplementsLibrary
<1>1. Init => Library!Init BY DEF Init, Library!Init
<1>2. IInv /\ [Next]_vars => [Library!Next]_libraryVars
  <2>. SUFFICES ASSUME IInv, [Next]_vars PROVE Library!Next \/ UNCHANGED libraryVars
    OBVIOUS
  <2>1. CASE Body BY <2>1 DEF Body, storeVars, uploadVars, libraryVars
  <2>2. CASE Upload BY <2>2, UploadMaps DEF Library!Next
  <2>3. ASSUME NEW e \in Erasers, EraseFind(e) \/ EraseObject(e) \/ EraseRow(e)
        PROVE  Library!Next \/ UNCHANGED libraryVars
    BY <2>3, ErasersMap DEF Library!Next
  <2>4. CASE DeleteSession
    <3>1. session = TRUE /\ session' = FALSE /\ rows' = {} /\ inserted' = inserted
      BY <2>4 DEF DeleteSession, uploadVars, IInv, StoreInv, StoreType
    <3>2. rows' \cap objects' = {} BY <3>1
    <3>. QED BY <3>1, <3>2 DEF Library!Next, Library!Close
  <2>5. ASSUME NEW p \in Players,
               PlayFind(p) \/ PlayOpen(p) \/ PlayBody(p) \/ PlayEnd(p) \/ PlayAbandon(p)
        PROVE  UNCHANGED libraryVars
    BY <2>5 DEF PlayFind, PlayOpen, PlayBody, PlayEnd, PlayAbandon, storeVars, uploadVars, libraryVars
  <2>6. CASE Crash BY <2>6 DEF Crash, libraryVars
  <2>7. CASE UNCHANGED vars BY <2>7 DEF vars, storeVars, uploadVars, libraryVars
  <2>. QED BY <2>1, <2>2, <2>3, <2>4, <2>5, <2>6, <2>7 DEF Next
<1>. QED BY <1>1, <1>2, Always, PTL DEF Spec, ImplementsLibrary, Library!Spec, libraryVars
=============================================================================
