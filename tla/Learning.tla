------------------------------- MODULE Learning -------------------------------
(***************************************************************************)
(* The content and the analytics service on their common database.  They   *)
(* meet in the foreign keys: quiz_answers are removed with the question    *)
(* they answer, and an answer cannot be written once its question is gone. *)
(***************************************************************************)
EXTENDS Analytics

VARIABLE stale \* history: per slot the rows others have changed since it read its own

vars == <<requestVars, contentVars, analyticsVars, stale>>

Rows == ContentIds \cup Attempts \cup Goals
RowOf(x) ==
    CASE x \in Courses -> course[x] [] x \in Materials -> material[x] [] x \in Sets -> set[x]
      [] x \in Items -> item[x] [] x \in Attempts -> attempt[x] [] x \in Goals -> goal[x]
Changed == {x \in Rows : RowOf(x)' # RowOf(x)}

Acts(r) == req'[r] # req[r]
Reads(r) ==
    req'[r] # Idle /\ req[r] # Idle
    /\ (req'[r].copy # req[r].copy \/ req'[r].kids # req[r].kids)
Track ==
    stale' = [r \in Slots |->
      CASE req'[r] = Idle \/ Reads(r) -> {} [] ~ Acts(r) -> stale[r] \cup Changed [] OTHER -> stale[r]]

Init ==
    /\ RequestsInit
    /\ \E u \in Users : ContentInit(u) /\ AnalyticsInit(u)
    /\ stale = [r \in Slots |-> {}]

Next ==
    /\ \/ ContentNext /\ Cascade
       \/ AnalyticsNext
       \/ \E r \in Slots : Return(r) /\ UNCHANGED <<contentVars, analyticsVars>>
    /\ Track

Spec == Init /\ [][Next]_vars

-----------------------------------------------------------------------------
(* What was deleted comes back only through a request that had read it     *)
(* before it was deleted: no other statement revives a row (soft_delete of *)
(* GORM, Save of the repositories, the processing callback).               *)
Gone(x) ==
    IF x \in Items THEN born[x] # Nil /\ item[x] = Nil
    ELSE x \notin Attempts /\ RowOf(x).st = "deleted"
DeletedStays ==
    [][\A x \in Rows : Gone(x) /\ ~ Gone(x)' => \E r \in Slots : Acts(r) /\ x \in stale[r]]_vars

(* A request changes no row but the one it names and new ones, and of that *)
(* one neither the owner nor the processing status, nor does it take back  *)
(* the completion of a goal: except where a row was changed by others      *)
(* since the request read it, whose columns it writes over.                *)
KeepsItsOwn(x, old, new) ==
    /\ x \notin Items => new.owner = old.owner
    /\ x \in Materials => new.status = old.status
    /\ x \in Goals => (old.done => new.done)
SavesOnlyItsOwn ==
    [][\A r \in Slots : Acts(r) => \A x \in Changed \ stale[r] :
         \/ RowOf(x) = NoRow \/ (x \in Items /\ born[x] = Nil)
         \/ x = req[r].id /\ KeepsItsOwn(x, RowOf(x), RowOf(x)')]_vars

(* Both: the only changes nobody asked for are those of a racing save.     *)
UndoesOnlyByRace == DeletedStays /\ SavesOnlyItsOwn

(* What a reader is shown along with a course, quiz or deck, or in a       *)
(* listing of a course, is the reader's own: the listings filter by course *)
(* only, and rely on every write having checked the course.                *)
OwnerOf(x) == IF x \in Items THEN set[born[x]].owner ELSE RowOf(x).owner
Shows == {"GetCourse", "GetQuiz", "GetFlashcardDeck", "GetCourseMaterials", "GetCourseQuizzes"}
ShowsOnlyOwn ==
    \A r \in Slots : Doing(r, "answer") /\ Op(r) \in Shows /\ req[r].err = "ok" =>
        \A x \in req[r].kids : OwnerOf(x) = req[r].user

(* A quiz or deck that lacks items it was created with stands for a        *)
(* statement that failed: CreateQuiz and CreateFlashcardDeck insert row by *)
(* row, with no transaction.                                               *)
BeingMade(s) ==
    \E r \in Slots : Op(r) \in {"CreateQuiz", "CreateFlashcardDeck"} /\ Doing(r, "child") /\ req[r].id = s
HalfMade == {s \in Sets : ~ BeingMade(s) /\ Cardinality({i \in Items : born[i] = s}) < promised[s]}
HalfMadePaidFor == Cardinality(HalfMade) <= faults

(* A completed attempt is counted in the study session of the day, up to   *)
(* requests still at it, statements that failed, whose error is dropped,   *)
(* and counts overwritten by a racing CreateOrUpdate.                      *)
Number(n) == IF n = Nil THEN 0 ELSE n
Counting(u) ==
    {r \in Slots : /\ Op(r) = "CompleteQuizAttempt" /\ req[r].user = u
                   /\ Doing(r, "session") \/ Doing(r, "count")}
CompletionsCounted ==
    \A u \in Users : Completed(u) <= Number(today[u]) + lost[u] + faults + Cardinality(Counting(u))

(* The answers of a completed attempt change only by a SubmitAnswer that   *)
(* saw it in progress, with the removal of their question, or as another   *)
(* completion writes back answers it had read.                             *)
CompletedIsFinal ==
    [][\A a \in Attempts : RowOf(a) # NoRow /\ attempt[a].status = "completed" =>
         \/ AnswersOf(a)' = AnswersOf(a)
         \/ \E r \in Slots : Acts(r) /\ Op(r) = "SubmitAnswer" /\ req[r].id = a /\ a \in stale[r]
         \/ \E r \in Slots :
              /\ Acts(r) /\ Op(r) = "CompleteQuizAttempt" /\ req[r].id = a
              /\ AnswersOf(a) \subseteq AnswersOf(a)'
              /\ AnswersOf(a)' \ AnswersOf(a) \subseteq {k[1] : k \in req[r].kids}
         \/ /\ AnswersOf(a)' \subseteq AnswersOf(a)
            /\ \A x \in AnswersOf(a) \ AnswersOf(a)' : item'[answer[x].question] = Nil]_vars

(* Both: what is incomplete or uncounted stands for a failure or a race.   *)
LossesPaidFor == HalfMadePaidFor /\ CompletionsCounted
=============================================================================
