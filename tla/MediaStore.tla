----------------------------- MODULE MediaStore -----------------------------
(***************************************************************************)
(* The media of one session: an upload request (app/api/media.py,          *)
(* app/services/media.py, app/core/upload.py), media deletions, the        *)
(* deletion of the session and players of the streaming proxy, over the    *)
(* table of media rows and the storage bucket, which share no transaction. *)
(* The request's body comes through BodyLimit; the route runs while its    *)
(* phase is "running".                                                     *)
(***************************************************************************)
EXTENDS BodyLimit, FiniteSets

CONSTANTS MaxFiles,      \* MAX_UPLOAD_FILES
          MinPhotos,     \* MIN_UPLOAD_PHOTOS
          MaxPhotos,     \* MAX_UPLOAD_PHOTOS
          MaxVideos,     \* MAX_UPLOAD_VIDEOS
          Concurrency,   \* UPLOAD_CONCURRENCY
          Erasers,       \* DELETE requests of media
          Players        \* streams of the proxy

\* What _photo_bounds_are_satisfiable accepts when the settings load.
PhotoBoundsAreSatisfiable == MinPhotos <= MaxPhotos

ASSUME MediaAssumption ==
  /\ MaxFiles \in Nat \ {0} /\ MinPhotos \in Nat /\ MaxPhotos \in Nat
  /\ MaxVideos \in Nat /\ Concurrency \in Nat \ {0}
  /\ PhotoBoundsAreSatisfiable

Old == {0}                    \* a medium stored earlier
Part == 1..MaxFiles           \* the parts of the upload, by position
Key == Old \cup Part          \* an object's key; a part gets a fresh one

VARIABLES
  session,    \* the session's row exists
  rows,       \* keys that have a media row
  objects,    \* keys that have an object in the bucket
  pc,         \* the upload: what it does next
  parts,      \* how many parts it has
  known,      \* how many of them are photos or videos
  at,         \* the part its loop has reached
  spool,      \* parts whose temporary file exists
  put,        \* what became of each part's PUT
  inserted,   \* the parts a committed insert made rows of
  outcome,    \* the status it will answer with
  eraser,     \* each deletion: what it did last, and its key
  player,     \* each player, the same
  upstream,   \* players whose storage response and client are open
  lent,       \* players that hold a pooled database connection
  faults      \* the events that may leave an object without a row

storeVars == <<session, rows, objects, faults>>
uploadVars == <<pc, parts, known, at, spool, put, inserted, outcome>>
eraserVars == eraser
playerVars == <<player, upstream, lent>>
vars == <<bodyVars, storeVars, uploadVars, eraserVars, playerVars>>

Put == {"none", "waiting", "busy", "stored", "failed", "broken"}
Parts == 1..parts
With(status) == {p \in Part : put[p] = status}

Init ==
  /\ BodyInit
  /\ session = TRUE
  /\ rows = Old /\ objects = Old
  /\ pc = "wait" /\ parts = 0 /\ known = 0 /\ at = 1
  /\ spool = {} /\ put = [p \in Part |-> "none"]
  /\ inserted = {} /\ outcome = 0
  /\ eraser = [e \in Erasers |-> [at |-> "idle", key |-> 0]]
  /\ player = [p \in Players |-> [at |-> "idle", key |-> 0]]
  /\ upstream = {} /\ lent = {}
  /\ faults = {}

-----------------------------------------------------------------------------
(* The upload: upload_media and MediaService.upload_batch. *)

Elsewhere == UNCHANGED <<eraserVars, playerVars>>
Reach(label) == phase = "running" /\ pc = label

\* An exception before the route's try block, or an answer.
Leave(status) ==
  /\ Answer(status)
  /\ pc' = "done"

\* An exception inside it: the finally still runs.
Abort(status) == pc' = "close" /\ outcome' = status

Admissible_OneMore == 1..MaxFiles + 1
Admissible == Part

\* FastAPI's dependencies refuse the request's shape or its token (400, 401) or
\* fail to fetch the keys that would verify it; the route's rate limit (429) and
\* too many parts (422) are refused before any is spooled.
Enter ==
  /\ Reach("wait")
  /\ \/ \E status \in {400, 401, 422, 429} : Leave(status) /\ UNCHANGED parts
     \/ Raise /\ pc' = "done" /\ UNCHANGED parts
     \/ parts' \in Admissible /\ pc' = "spool" /\ UNCHANGED bodyVars
  /\ UNCHANGED <<storeVars, known, at, spool, put, inserted, outcome>>
  /\ Elsewhere

\* spool_upload removes its own file when it fails: the part is too large
\* (413) or the disk refuses it (500).
Spool ==
  /\ Reach("spool")
  /\ \/ /\ spool' = spool \cup {at}
        /\ at' = at + 1
        /\ pc' = IF at = parts THEN "count" ELSE "spool"
        /\ UNCHANGED outcome
     \/ /\ \E status \in {413, 500} : Abort(status)
        /\ UNCHANGED <<spool, at>>
  /\ UNCHANGED <<bodyVars, storeVars, parts, known, put, inserted>>
  /\ Elsewhere

CountError(photos, videos) ==
  \/ photos > 0 /\ videos > 0
  \/ 0 < photos /\ photos < MinPhotos
  \/ photos > MaxPhotos
  \/ videos > MaxVideos

Count ==
  /\ Reach("count")
  /\ \/ \E photos, videos \in 0..parts :
          /\ photos + videos <= parts
          /\ known' = photos + videos
          /\ IF CountError(photos, videos)
             THEN Abort(422)
             ELSE pc' = "authorize" /\ UNCHANGED outcome
     \/ Abort(500) /\ UNCHANGED known      \* a head cannot be read or classified
  /\ UNCHANGED <<bodyVars, storeVars, parts, at, spool, put, inserted>>
  /\ Elsewhere

Authorize ==
  /\ Reach("authorize")
  /\ \/ ~session /\ Abort(404) /\ UNCHANGED at
     \/ session /\ Abort(403) /\ UNCHANGED at
     \/ Abort(500) /\ UNCHANGED at        \* the database fails
     \/ session /\ pc' = "validate" /\ at' = 1 /\ UNCHANGED outcome
  /\ UNCHANGED <<bodyVars, storeVars, parts, known, spool, put, inserted>>
  /\ Elsewhere

\* What a part's checks may end in: a video that OpenCV cannot read, a call of
\* Gemini that fails or cannot be parsed, a file that moderation refuses.
FrameErrors == {422, 500}
GeminiErrors == {500, 502}
ModerationErrors == {422} \cup FrameErrors \cup GeminiErrors

\* Phase 0, one part after the other: its type and length, then moderation.
\* Parts of no known type, which are refused, count as the last.
Validate_Pipelined ==
  /\ Reach("validate")
  /\ \/ /\ at <= known
        /\ at' = at + 1
        /\ put' = [put EXCEPT ![at] = "busy"]
        /\ pc' = IF at = parts THEN "store" ELSE "validate"
        /\ UNCHANGED outcome
     \/ Abort(422) /\ UNCHANGED <<at, put>>
  /\ UNCHANGED <<bodyVars, storeVars, parts, known, spool, inserted>>
  /\ Elsewhere
Validate ==
  /\ Reach("validate")
  /\ \/ /\ at <= known
        /\ at' = at + 1
        /\ IF at = parts
           THEN pc' = "store" /\ put' = [p \in Part |-> IF p \in Parts THEN "waiting" ELSE "none"]
           ELSE UNCHANGED <<pc, put>>
        /\ UNCHANGED outcome
     \/ /\ at > known /\ Abort(422)
        /\ UNCHANGED <<at, put>>
     \/ /\ at <= known
        /\ \E status \in {422} \cup FrameErrors \cup ModerationErrors : Abort(status)
        /\ UNCHANGED <<at, put>>
  /\ UNCHANGED <<bodyVars, storeVars, parts, known, spool, inserted>>
  /\ Elsewhere

\* Phase A: the semaphore admits waiters in order.
Holders_KeptOnFailure == With("busy") \cup With("failed")
Holders == With("busy")
StartPut ==
  /\ Reach("store")
  /\ Cardinality(Holders) < Concurrency
  /\ \E p \in With("waiting") :
       /\ \A q \in With("waiting") : p <= q
       /\ put' = [put EXCEPT ![p] = "busy"]
  /\ UNCHANGED <<bodyVars, storeVars, pc, parts, known, at, spool, inserted, outcome>>
  /\ Elsewhere

\* A failed PUT may have left its object behind; an error that is not
\* StorageUploadFailedError comes from the thread pool, before the PUT.
EndPut ==
  /\ pc \in {"store", "close", "done"} /\ phase # "dead"
  /\ \E p \in With("busy") :
       \/ put' = [put EXCEPT ![p] = "stored"] /\ objects' = objects \cup {p} /\ p \in spool
       \/ put' = [put EXCEPT ![p] = "failed"] /\ objects' \in {objects, objects \cup {p}}
       \/ put' = [put EXCEPT ![p] = "broken"] /\ UNCHANGED objects
  /\ UNCHANGED <<bodyVars, session, rows, faults, pc, parts, known, at, spool, inserted, outcome>>
  /\ Elsewhere

\* gather(return_exceptions=True) waits for every part.
Gather_FirstFailure ==
  /\ Reach("store")
  /\ With("waiting") \cup With("busy") = {} \/ With("failed") # {}
  /\ pc' = IF With("failed") # {} THEN "close" ELSE "partition"
  /\ outcome' = IF With("failed") # {} THEN 502 ELSE outcome
  /\ at' = 1
  /\ UNCHANGED <<bodyVars, storeVars, parts, known, spool, put, inserted>>
  /\ Elsewhere
Gather ==
  /\ Reach("store")
  /\ With("waiting") \cup With("busy") = {}
  /\ pc' = "partition"
  /\ at' = 1
  /\ UNCHANGED <<bodyVars, storeVars, parts, known, spool, put, inserted, outcome>>
  /\ Elsewhere

\* StorageClient.delete swallows its error: the object may stay.
Remove(key) ==
  \/ objects' = objects \ {key} /\ UNCHANGED faults
  \/ key \in objects /\ faults' = faults \cup {"remove"} /\ UNCHANGED objects

\* The results in order: a failed part is cleaned up, an unexpected error is
\* raised at once, and if nothing was stored the request fails.
CleanUp_Skipped(p) == UNCHANGED <<objects, faults>>
CleanUp(p) == Remove(p)
AllFailed_Unchecked == FALSE
AllFailed == With("stored") = {}
Partition ==
  /\ Reach("partition")
  /\ \/ /\ at <= parts /\ put[at] = "stored"
        /\ UNCHANGED <<pc, outcome, objects, faults>>
     \/ /\ at <= parts /\ put[at] = "failed"
        /\ CleanUp(at)
        /\ UNCHANGED <<pc, outcome>>
     \/ /\ at <= parts /\ put[at] = "broken"
        /\ Abort(500)
        /\ faults' = faults \cup {"broken"}
        /\ UNCHANGED objects
     \/ /\ at > parts
        /\ IF AllFailed THEN Abort(502) ELSE pc' = "insert" /\ UNCHANGED outcome
        /\ UNCHANGED <<objects, faults>>
  /\ at' = at + 1
  /\ UNCHANGED <<bodyVars, session, rows, parts, known, spool, put, inserted>>
  /\ Elsewhere

\* Phase B: one insert of the stored parts.  It fails when the session is
\* gone or the database is; the commit may also succeed unheard.
Prepared_All == Parts
Prepared == With("stored")
Success == IF With("failed") = {} THEN 201 ELSE 207
Insert_RowByRow ==
  /\ Reach("insert")
  /\ session
  /\ \E p \in Prepared \ inserted :
       /\ rows' = rows \cup {p} /\ inserted' = inserted \cup {p}
       /\ IF inserted' = Prepared THEN Abort(Success) ELSE UNCHANGED <<pc, outcome>>
  /\ UNCHANGED <<bodyVars, session, objects, faults, parts, known, at, spool, put>>
  /\ Elsewhere
Insert ==
  /\ Reach("insert")
  /\ \/ /\ session
        /\ rows' = rows \cup Prepared /\ inserted' = Prepared
        /\ \E status \in {Success, 500} : Abort(status)
        /\ UNCHANGED faults
     \/ /\ Abort(500)
        /\ faults' = faults \cup {"insert"}
        /\ UNCHANGED <<rows, inserted>>
  /\ UNCHANGED <<bodyVars, session, objects, parts, known, at, spool, put>>
  /\ Elsewhere

CloseSpools == spool' = {}

\* The finally, and then the answer; FastAPI has no handler for a 500.
Return ==
  /\ Reach("close")
  /\ CloseSpools
  /\ pc' = "done"
  /\ IF outcome = 500 THEN Raise ELSE Answer(outcome)
  /\ UNCHANGED <<storeVars, parts, known, at, put, inserted, outcome>>
  /\ Elsewhere

Upload == \/ Enter \/ Spool \/ Count \/ Authorize \/ Validate \/ StartPut \/ EndPut
          \/ Gather \/ Partition \/ Insert \/ Return

-----------------------------------------------------------------------------
(* delete_media, and the deletion of the session. *)

EraseFind(e) ==
  /\ eraser[e].at = "idle" /\ session
  /\ \E k \in rows : eraser' = [eraser EXCEPT ![e] = [at |-> "found", key |-> k]]
  /\ UNCHANGED <<bodyVars, storeVars, uploadVars, playerVars>>

EraseObject(e) ==
  /\ eraser[e].at = "found"
  /\ Remove(eraser[e].key)
  /\ eraser' = [eraser EXCEPT ![e].at = "removed"]
  /\ UNCHANGED <<bodyVars, session, rows, uploadVars, playerVars>>

\* The row may be gone already; the transaction may fail.
EraseRow(e) ==
  /\ eraser[e].at = "removed"
  /\ \/ rows' = rows \ {eraser[e].key} /\ eraser' = [eraser EXCEPT ![e].at = "done"]
     \/ UNCHANGED rows /\ eraser' = [eraser EXCEPT ![e].at = "stuck"]
  /\ UNCHANGED <<bodyVars, session, objects, faults, uploadVars, playerVars>>

\* The rows go by cascade; nothing removes the objects.
DeleteSession ==
  /\ session
  /\ session' = FALSE
  /\ rows' = {}
  /\ faults' = faults \cup {"session"}
  /\ UNCHANGED <<bodyVars, objects, uploadVars, eraserVars, playerVars>>

-----------------------------------------------------------------------------
(* The streaming proxy. *)

\* The token and the ownership are checked with a connection of the pool.
PlayFind(p) ==
  /\ player[p].at = "idle" /\ session
  /\ \E k \in rows : player' = [player EXCEPT ![p] = [at |-> "found", key |-> k]]
  /\ lent' = lent \cup {p}
  /\ UNCHANGED <<bodyVars, storeVars, uploadVars, eraserVars, upstream>>

\* stream_range opens the object, or closes what it opened and raises; the
\* function-scoped session ends with the route, before the response starts.
Release_RequestScope(p) == IF player'[p].at = "open" THEN lent ELSE lent \ {p}
Release(p) == lent \ {p}
PlayOpen(p) ==
  /\ player[p].at = "found"
  /\ \/ /\ player[p].key \in objects
        /\ player' = [player EXCEPT ![p].at = "open"]
        /\ upstream' = upstream \cup {p}
     \/ /\ player' = [player EXCEPT ![p].at = "done"]
        /\ UNCHANGED upstream
  /\ lent' = Release(p)
  /\ UNCHANGED <<bodyVars, storeVars, uploadVars, eraserVars>>

PlayBody(p) ==
  /\ player[p].at = "open"
  /\ player' = [player EXCEPT ![p].at = "body"]
  /\ UNCHANGED <<bodyVars, storeVars, uploadVars, eraserVars, upstream, lent>>

\* The last byte, an error of the storage or the client's leaving: the body's
\* finally closes the upstream, and a request-scoped session would end here.
PlayEnd(p) ==
  /\ player[p].at = "body"
  /\ player' = [player EXCEPT ![p].at = "done"]
  /\ upstream' = upstream \ {p} /\ lent' = lent \ {p}
  /\ UNCHANGED <<bodyVars, storeVars, uploadVars, eraserVars>>

\* The client leaves before the body's generator first runs: its finally
\* never does.
PlayAbandon(p) ==
  /\ player[p].at = "open"
  /\ player' = [player EXCEPT ![p].at = "abandoned"]
  /\ UNCHANGED <<bodyVars, storeVars, uploadVars, eraserVars, upstream, lent>>

-----------------------------------------------------------------------------
\* The process dies: rows and objects stay, and so do the temporary files.
Crash ==
  /\ phase \notin {"new", "over", "dead"}
  /\ phase' = "dead" /\ pc' = "dead"
  /\ faults' = faults \cup {"crash"}
  /\ eraser' = [e \in Erasers |->
                  [eraser[e] EXCEPT !.at = IF @ \in {"removed", "stuck"} THEN "stuck" ELSE "done"]]
  /\ player' = [p \in Players |-> [player[p] EXCEPT !.at = "done"]]
  /\ upstream' = {} /\ lent' = {}
  /\ UNCHANGED <<body, chunked, received, exceeded, forwarded, answer, wire,
                 session, rows, objects, parts, known, at, spool, put, inserted, outcome>>

Body == BodyStep /\ UNCHANGED <<storeVars, uploadVars, eraserVars, playerVars>>

Next ==
  \/ Body \/ Upload
  \/ \E e \in Erasers : EraseFind(e) \/ EraseObject(e) \/ EraseRow(e)
  \/ DeleteSession
  \/ \E p \in Players : PlayFind(p) \/ PlayOpen(p) \/ PlayBody(p) \/ PlayEnd(p) \/ PlayAbandon(p)
  \/ Crash

\* Coroutines and worker threads run on; nobody has to delete, play or crash,
\* and a client may stop sending: nothing bounds the wait for its body.
Spec == Init /\ [][Next]_vars /\ WF_vars(Upload) /\ WF_vars(phase # "reading" /\ Body)

-----------------------------------------------------------------------------
TypeOK ==
  /\ BodyTypeOK
  /\ session \in BOOLEAN /\ rows \subseteq Key /\ objects \subseteq Key
  /\ pc \in {"wait", "spool", "count", "authorize", "validate", "store", "partition",
             "insert", "close", "done", "dead"}
  /\ parts \in 0..MaxFiles /\ known \in 0..parts /\ at \in 1..MaxFiles + 2
  /\ spool \subseteq Parts /\ put \in [Part -> Put] /\ inserted \subseteq Parts
  /\ outcome \in Status \cup {0}
  /\ eraser \in [Erasers -> [at : {"idle", "found", "removed", "stuck", "done"}, key : Key]]
  /\ player \in [Players -> [at : {"idle", "found", "open", "body", "done", "abandoned"},
                             key : Key]]
  /\ upstream \subseteq Players /\ lent \subseteq Players
  /\ faults \subseteq {"remove", "broken", "insert", "session", "crash"}

\* A row is without its object only while a deletion that took the object is
\* about to take the row, or after one that failed to or died before it did:
\* no upload lists a part that was not stored (delete_media removes the object
\* first, and nothing repairs the row that is left).
RowsHaveObjects ==
  \A k \in rows \ objects :
    \E e \in Erasers : eraser[e].key = k /\ eraser[e].at \in {"removed", "stuck"}

\* While the upload is not running, an object without a row was left by an
\* event the code does not make good: a swallowed remove, an unexpected error
\* among stored siblings, a failed insert, the deletion of the session or a
\* crash.  A PUT that failed halfway and a deletion under way are none.
ObjectsHaveRows == phase # "running" /\ faults = {} => objects \subseteq rows

\* An upload that is answered with a 4xx has stored nothing, whatever else
\* happened: one bad part refuses the batch before any PUT (upload_batch's
\* "before a single object is stored").
RefusedStoresNothing ==
  outcome \in 400..499 \/ answer \in 400..499 =>
    objects \cap Part = {} /\ inserted = {}

\* 201 says that every part has its row, 207 that some have and that the
\* others failed, a 502 that none has.
AnswerAgrees ==
  /\ answer = 201 => inserted = Parts /\ Parts # {}
  /\ answer = 207 => inserted = With("stored") /\ inserted \notin {{}, Parts}
                     /\ Parts \ inserted = With("failed")
  /\ answer = 502 => inserted = {}

\* A PUT in flight still has the temporary file it reads, and a request that
\* ended leaves none behind: the finally runs only after the whole gather.
SpoolsOutlivePuts ==
  /\ phase # "dead" => With("busy") \subseteq spool
  /\ phase \in {"answering", "started", "returned", "raised", "over"} => spool = {}

\* A player that streams holds no database connection, and one that ended
\* holds neither a connection nor an upstream, unless its client left between
\* the opening of the upstream and the first run of the body.
StreamsHoldNoConnection ==
  \A p \in Players :
    /\ player[p].at \in {"open", "body", "done", "abandoned"} => p \notin lent
    /\ player[p].at = "done" => p \notin upstream

\* Row and bucket together implement a library whose uploads appear as one
\* batch, into an open session only.
Library == INSTANCE MediaLibrary WITH
  Old <- Old, New <- Part,
  visible <- rows \cap objects, batch <- inserted, open <- session
ImplementsLibrary == Library!Spec

\* An upload whose body the limit let through is answered, unless the process
\* dies: the gather waits for every PUT and no failure skips the finally.
UploadEnds == phase = "running" ~> phase \in {"over", "dead"}
=============================================================================
