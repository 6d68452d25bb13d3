------------------------------ MODULE Assistance ------------------------------
(***************************************************************************)
(* Requests of AI assistance the gateway would serve itself: the quota     *)
(* (middleware/ai_quota.go), the suppression of repeated bodies            *)
(* (middleware/ai_dedup.go), the handler (handlers/ai_handler.go) and its  *)
(* client of the AI service (clients/ai_client.go).  cmd/main.go mounts    *)
(* none of them; they are put together here in the order of their names in *)
(* the documents, beside the requests that are only proxied.               *)
(***************************************************************************)
EXTENDS Admission

CONSTANTS
    Bodies,     \* what a request asks for: its body, by hash
    Operations, \* those of the handler that are asked for
    AIQuota,    \* AI requests a day of one user
    Tries       \* of the client (4 in the code)

ASSUME AssistanceAssumption == {AIQuota, Tries} \subseteq Nat \ {0}

VARIABLES
    count,   \* per user the counter of ai_quota
    until,   \* per user the end of the counter, Nil for never
    marker,  \* per body "none", "processing" or "answer"
    works,   \* history: per body and operation, answers the AI service gave
    raced,   \* history: per body, marks written over and answers that could not be kept
    lapses   \* history: markers whose time was over

assistVars == <<count, until, marker, works, raced, lapses>>
vars == <<admissionVars, assistVars>>

Init ==
    /\ AdmissionInit
    /\ count = [u \in Users |-> 0] /\ until = [u \in Users |-> Nil]
    /\ marker = [b \in Bodies |-> "none"]
    /\ works = [b \in Bodies |-> 0] /\ raced = works /\ lapses = 0

-----------------------------------------------------------------------------
(* The client's operations: those that only read, and the one whose answer *)
(* is a stream.  The handler's: what they need besides a user, and which   *)
(* operation of the client they ask.  Only POST and PUT are deduplicated.  *)
Operation(writes, streamed) == [writes |-> writes, streamed |-> streamed]
Transcribe == Operation(TRUE, TRUE)
GenerateNotes == Operation(TRUE, FALSE)
AnalyzeDocument == Operation(TRUE, FALSE)
GenerateFlashcards == Operation(TRUE, FALSE)
GenerateQuiz == Operation(TRUE, FALSE)
GetSession == Operation(FALSE, FALSE)
GetStudyHistory == Operation(FALSE, FALSE)
GetNotesHistory == Operation(FALSE, FALSE)

Handler(needs, asks) == [needs |-> needs, asks |-> asks]
PostTranscription == Handler("file", Transcribe)
PostNotes == Handler("body", GenerateNotes)
PostDocument == Handler("file", AnalyzeDocument)
PostFlashcards == Handler("file", GenerateFlashcards)
PostQuiz == Handler("file", GenerateQuiz)
GetNotesSession == Handler("id", GetSession)
GetReadingSession == Handler("id", GetSession)
GetFlashcardSession == Handler("id", GetSession)
GetQuizSession == Handler("id", GetSession)
FetchStudyHistory == Handler("nothing", GetStudyHistory)
FetchNotesHistory == Handler("nothing", GetNotesHistory)

ASSUME OperationsAssumption ==
    Operations \subseteq
        {PostTranscription, PostNotes, PostDocument, PostFlashcards, PostQuiz, GetNotesSession,
         GetReadingSession, GetFlashcardSession, GetQuizSession, FetchStudyHistory, FetchNotesHistory}

Assist(r, u, b, h) ==
    /\ \E complete \in {TRUE, h.needs = "nothing"} :
         Begin(r, [todo |-> IF h.asks.writes THEN <<"ai_quota", "dedup", "ask">> ELSE <<"ai_quota", "ask">>,
                   user |-> u, body |-> b, asks |-> h.asks, complete |-> complete,
                   tries |-> 0, live |-> TRUE, ok |-> FALSE])
    /\ UNCHANGED <<now, faults, limitVars, assistVars>>

(* A statement fails by itself, or because the caller has gone.            *)
NoAnswer(r) == IF req[r].live THEN Fault ELSE Works

-----------------------------------------------------------------------------
(* AIDailyQuotaMiddleware: the counter has no date in its key; it ends 24  *)
(* hours after the first request of it, by an EXPIRE of its own, whose     *)
(* failure is only logged.                                                 *)
Current(u) == IF until[u] # Nil /\ until[u] <= now THEN 0 ELSE count[u]

ExpiresOn(n) == n = 1

CountAI(r) ==
    LET u == req[r].user  n == Current(u) + 1  q == Rest(req[r]) IN
    /\ Doing(r, "ai_quota")
    /\ count' = [count EXCEPT ![u] = n]
    /\ until' = [until EXCEPT ![u] = IF n = 1 THEN Nil ELSE @]
    /\ CASE ExpiresOn(n) -> Then(r, Continue(q, <<"expire">> \o q.todo))
         [] ~ ExpiresOn(n) /\ n > AIQuota -> Refuse(r)
         [] OTHER -> Then(r, q)
    /\ Works /\ UNCHANGED <<limitVars, marker, works, raced, lapses>>

SetEnd(r) ==
    /\ Doing(r, "expire")
    /\ until' = [until EXCEPT ![req[r].user] = now + Day]
    /\ Then(r, Rest(req[r]))
    /\ Works /\ UNCHANGED <<limitVars, count, marker, works, raced, lapses>>

AIQuotaFails(r) ==
    /\ Doing(r, "ai_quota") \/ Doing(r, "expire")
    /\ Fault
    /\ Then(r, Rest(req[r]))
    /\ UNCHANGED <<limitVars, assistVars>>

-----------------------------------------------------------------------------
(* AIDedupMiddleware: the key is the hash of the body (of the files and    *)
(* fields of a form), not of the path nor of the user.                     *)
RequestHash(r) == req[r].body
Captured(r) == "settle" \in {req[r].todo[i] : i \in DOMAIN req[r].todo}
AtWork(b) == {s \in Slots : req[s] # Idle /\ "body" \in DOMAIN req[s] /\ req[s].body = b /\ Captured(s)}

Lookup(r) ==
    LET b == RequestHash(r) IN
    /\ Doing(r, "dedup")
    /\ IF marker[b] = "none" THEN Then(r, Continue(req[r], <<"mark", "ask", "settle">>)) ELSE Refuse(r)
    /\ Works /\ UNCHANGED <<limitVars, assistVars>>

LookupFails(r) ==
    /\ Doing(r, "dedup") /\ Fault
    /\ Then(r, Rest(req[r]))
    /\ UNCHANGED <<limitVars, assistVars>>

Mark(r) ==
    LET b == RequestHash(r) IN
    /\ Doing(r, "mark")
    /\ marker' = [marker EXCEPT ![b] = "processing"]
    /\ raced' = [raced EXCEPT ![b] = @ + IF marker[b] = "none" THEN 0 ELSE 1]
    /\ Then(r, Rest(req[r]))
    /\ Works /\ UNCHANGED <<limitVars, count, until, works, lapses>>

MarkFails(r) ==
    /\ Doing(r, "mark") /\ Fault
    /\ Then(r, Rest(req[r]))
    /\ UNCHANGED <<limitVars, assistVars>>

(* Mutant: an answer frees the body like a failure.                        *)
SettleForgets(r) ==
    /\ Doing(r, "settle") /\ req[r].live
    /\ marker' = [marker EXCEPT ![RequestHash(r)] = "none"]
    /\ Then(r, Rest(req[r]))
    /\ Works /\ UNCHANGED <<limitVars, count, until, works, raced, lapses>>

(* An answer is kept for a day, a failure frees the body for a retry.      *)
Settle(r) ==
    LET q == req[r] IN
    /\ Doing(r, "settle") /\ q.live
    /\ marker' = [marker EXCEPT ![RequestHash(r)] = IF q.ok THEN "answer" ELSE "none"]
    /\ Then(r, Rest(q))
    /\ Works /\ UNCHANGED <<limitVars, count, until, works, raced, lapses>>

SettleFails(r) ==
    /\ Doing(r, "settle") /\ NoAnswer(r)
    /\ Then(r, Rest(req[r]))
    /\ UNCHANGED <<limitVars, assistVars>>

-----------------------------------------------------------------------------
(* The handler refuses a request that lacks its file, its body or the id,  *)
(* and the client a context that has ended.                                *)
BadRequest(r) ==
    /\ Doing(r, "ask") /\ ~ (req[r].complete /\ req[r].live)
    /\ Then(r, Rest(req[r]))
    /\ Works /\ UNCHANGED <<limitVars, assistVars>>

Asks(r) == Doing(r, "ask") /\ req[r].complete /\ req[r].live
Worked(r) == works' = [works EXCEPT ![req[r].body] = @ + IF req[r].asks.writes THEN 1 ELSE 0]

(* A stream cannot be written through the recorder of the deduplication,   *)
(* which is no Flusher: its request fails after the work is done.          *)
Unwritable(r) == req[r].asks.streamed /\ Captured(r)

Answered(r) ==
    /\ Asks(r) /\ Works
    /\ Worked(r)
    /\ raced' = [raced EXCEPT ![req[r].body] = @ + IF Unwritable(r) THEN 1 ELSE 0]
    /\ Then(r, [Rest(req[r]) EXCEPT !.ok = ~ Unwritable(r)])
    /\ UNCHANGED <<limitVars, count, until, marker, lapses>>

(* A status below 500 that is no success: told as a failure (mapped to 404 *)
(* where a session is not found).                                          *)
Declined(r) ==
    /\ Asks(r) /\ Works
    /\ Then(r, Rest(req[r]))
    /\ UNCHANGED <<limitVars, assistVars>>

(* doRequest tries again on errors of the network and of the server.       *)
TryAgain(r) ==
    LET q == [req[r] EXCEPT !.tries = @ + 1] IN Then(r, IF q.tries < Tries THEN q ELSE Rest(q))

ServerError(r) ==
    /\ Asks(r) /\ Works
    /\ TryAgain(r)
    /\ UNCHANGED <<limitVars, assistVars>>

AnswerLost(r) ==
    /\ Asks(r) /\ Fault
    /\ Worked(r)
    /\ TryAgain(r)
    /\ UNCHANGED <<limitVars, count, until, marker, raced, lapses>>

-----------------------------------------------------------------------------
Leave(r) ==
    /\ Doing(r, "ask") \/ Doing(r, "settle")
    /\ req[r].live /\ Fault
    /\ req' = [req EXCEPT ![r].live = FALSE]
    /\ UNCHANGED <<limitVars, assistVars>>

(* The gateway dies: every request under way fails, what is in Redis stays.*)
Crash ==
    LET lost == {r \in Slots : req[r] # Idle} IN
    /\ lost # {} /\ faults < MaxFaults
    /\ faults' = faults + Cardinality(lost)
    /\ req' = [r \in Slots |-> Idle]
    /\ UNCHANGED <<now, begun, limitVars, assistVars>>

(* A marker lives five minutes, less than four tries of up to two minutes; *)
(* an answer a day.                                                        *)
Lapse(b) ==
    /\ marker[b] # "none" /\ lapses < MaxFaults
    /\ marker' = [marker EXCEPT ![b] = "none"] /\ lapses' = lapses + 1
    /\ UNCHANGED <<admissionVars, count, until, works, raced>>

AssistNext(r) ==
    \/ CountAI(r) \/ SetEnd(r) \/ AIQuotaFails(r)
    \/ Lookup(r) \/ LookupFails(r) \/ Mark(r) \/ MarkFails(r) \/ Settle(r) \/ SettleFails(r)
    \/ BadRequest(r) \/ Answered(r) \/ Declined(r) \/ ServerError(r) \/ AnswerLost(r) \/ Leave(r)

Next ==
    \/ \E r \in Slots :
         \/ AdmissionNext(r) /\ UNCHANGED assistVars
         \/ \E u \in Users, b \in Bodies, h \in Operations : Assist(r, u, b, h)
         \/ AssistNext(r)
    \/ \E u \in Users : Revoke(u) /\ UNCHANGED assistVars
    \/ \E b \in Bodies : Lapse(b)
    \/ Crash
    \/ Tick /\ UNCHANGED assistVars

Spec == Init /\ [][Next]_vars

-----------------------------------------------------------------------------
(* A counter of the quota without an end locks its user out for good: it   *)
(* stands for an EXPIRE that failed or a gateway that died before it.      *)
Endless == {u \in Users : count[u] > 0 /\ until[u] = Nil
                           /\ ~ \E r \in Slots : Doing(r, "expire") /\ req[r].user = u}
QuotaExpires == Cardinality(Endless) <= faults

(* A body is worked on once, but for marks written over, answers that      *)
(* could not be kept, lookups and answers lost, and markers whose time was *)
(* over before the work was.                                               *)
OneWorkPerBody == \A b \in Bodies : works[b] <= 1 + raced[b] + lapses + faults

(* "Remove processing marker on error or non-2xx to allow retry"           *)
(* (ai_dedup.go:102): a marker nobody works under stands for a statement    *)
(* that failed, a caller gone, or a crash.                                 *)
Abandoned == {b \in Bodies : marker[b] = "processing" /\ AtWork(b) = {}}
MarkerFreed == Cardinality(Abandoned) <= faults

(* All four: who gets past the gateway's limits, and who stays locked out. *)
LimitsHold == RevokedRefused /\ SecondsLimited /\ QuotaHolds /\ QuotaExpires

(* Both: a repeated body is neither worked on twice nor refused for good.  *)
RepeatsHandled == OneWorkPerBody /\ MarkerFreed
=============================================================================
