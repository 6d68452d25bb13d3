------------------------------ MODULE Analytics ------------------------------
(***************************************************************************)
(* The analytics service: attempts at quizzes and their answers, the study *)
(* session of the day and learning goals, after analytics_service.go, its  *)
(* repositories and handlers.  Its tables point to those of the content    *)
(* service and live in the same database.                                  *)
(*                                                                         *)
(* The study session of the day keeps the quizzes completed, and stands    *)
(* for its other counters, which are added to alike.  A goal is of type    *)
(* course_completion: its progress is the number of completed attempts.    *)
(* The other types read the study sessions or the best percentage instead. *)
(***************************************************************************)
EXTENDS ContentStore

CONSTANTS
    Attempts, Answers, Goals,
    Target   \* target_score of the goals

ASSUME AnalyticsAssumption ==
    /\ Target \in Nat /\ Nil \notin Nat
    /\ IsFiniteSet(Attempts) /\ Attempts \cap (ContentIds \cup {Nil}) = {}
    /\ Goals \cap (ContentIds \cup Attempts \cup {Nil}) = {}

VARIABLES
    attempt,  \* quiz_attempts
    answer,   \* quiz_answers: the attempt and the question, or NoRow
    today,    \* study_sessions of the day: per user the quizzes completed, or Nil
    goal,     \* learning_goals
    lost      \* history: per user, quizzes overwritten in or kept out of today

analyticsVars == <<attempt, answer, today, goal, lost>>

AttemptRow(u) == [st |-> "live", owner |-> u, status |-> "in_progress"]
GoalRow(u) == [st |-> "live", owner |-> u, done |-> FALSE]

AnalyticsInit(u) ==
    /\ attempt = [a \in Attempts |-> IF a \in Given THEN AttemptRow(u) ELSE NoRow]
    /\ goal = [g \in Goals |-> IF g \in Given THEN GoalRow(u) ELSE NoRow]
    /\ \E a \in Attempts \cap Given, i \in Questions \cap Given :
          answer = [x \in Answers |->
            IF x \in Given THEN [attempt |-> a, question |-> i] ELSE NoRow]
    /\ today = [v \in Users |-> IF v = u THEN 0 ELSE Nil]
    /\ lost = [v \in Users |-> 0]

AnswersOf(a) == {x \in Answers : answer[x] # NoRow /\ answer[x].attempt = a}
GetAttempt(u, a) == Owned(attempt[a], u, "no attempt")
GetGoal(u, g) == Owned(goal[g], u, "no goal")
Completed(u) ==
    Cardinality({a \in Attempts : /\ Live(attempt[a]) /\ attempt[a].owner = u
                                  /\ attempt[a].status = "completed"})

(* Removing a question removes the answers to it, wherever they are: the   *)
(* foreign key cascades.                                                   *)
Cascade ==
    /\ answer' = [x \in Answers |->
         IF answer[x] # NoRow /\ item'[answer[x].question] = Nil THEN NoRow ELSE answer[x]]
    /\ UNCHANGED <<attempt, today, goal, lost>>

(* A statement that fails changes nothing.                                 *)
SaveFails(r) ==
    /\ \/ Doing(r, "save") /\ Fails(r, "sql")
       \/ Doing(r, "attempt") /\ Fails(r, "no attempt")
       \/ Doing(r, "goal") /\ Fails(r, "no goal")
       \/ (Doing(r, "grade") \/ Doing(r, "goals")) /\ Fails(r, "sql")
    /\ UNCHANGED <<contentVars, analyticsVars>>

-----------------------------------------------------------------------------
(* Mutant: nothing looks at the status.                                    *)
ReadAnyAttempt(r) ==
    LET a == req[r].id  e == GetAttempt(req[r].user, a) IN
    /\ Doing(r, "attempt") /\ Works
    /\ IF e # "ok" THEN Refuse(r, e)
       ELSE Pass(r, [req[r] EXCEPT !.copy = [row |-> attempt[a]],
                                   !.kids = {<<x, answer[x].question>> : x \in AnswersOf(a)}])
    /\ UNCHANGED <<contentVars, analyticsVars>>

(* Attempts.  Only SubmitAnswer looks at the status.  The answers are read *)
(* along with the attempt.                                                 *)
ReadAttempt(r) ==
    LET a == req[r].id  e == GetAttempt(req[r].user, a) IN
    /\ Doing(r, "attempt") /\ Works
    /\ IF e # "ok" THEN Refuse(r, e)
       ELSE IF Op(r) = "SubmitAnswer" /\ attempt[a].status # "in_progress"
       THEN Refuse(r, "not in progress")
       ELSE Pass(r, [req[r] EXCEPT !.copy = [row |-> attempt[a]],
                                   !.kids = {<<x, answer[x].question>> : x \in AnswersOf(a)}])
    /\ UNCHANGED <<contentVars, analyticsVars>>

(* An attempt may be at a quiz that is deleted, or of someone else.        *)
StartQuizAttempt(r) ==
    /\ Doing(r, "save") /\ Op(r) = "StartQuizAttempt"
    /\ IF set[req[r].id] = NoRow THEN Refuse(r, "sql") /\ Works /\ UNCHANGED attempt
       ELSE /\ \E a \in Attempts :
                 /\ attempt[a] = NoRow
                 /\ attempt' = [attempt EXCEPT ![a] = AttemptRow(req[r].user)]
            /\ Done(r)
    /\ UNCHANGED <<contentVars, answer, today, goal, lost>>

(* The question need not be one of the quiz, and may have an answer.       *)
SubmitAnswer(r) ==
    LET i == req[r].n IN
    /\ Doing(r, "save") /\ Op(r) = "SubmitAnswer"
    /\ IF item[i] = Nil THEN Refuse(r, "sql") /\ Works /\ UNCHANGED answer
       ELSE /\ \E x \in Answers :
                 /\ answer[x] = NoRow
                 /\ answer' = [answer EXCEPT ![x] = [attempt |-> req[r].id, question |-> i]]
            /\ Done(r)
    /\ UNCHANGED <<contentVars, attempt, today, goal, lost>>

(* Every answer is given its point: reading them again for it changes      *)
(* nothing that is kept here.                                              *)
Grade(r) ==
    /\ Doing(r, "grade") /\ Done(r)
    /\ UNCHANGED <<contentVars, analyticsVars>>

(* The attempt is saved with the answers that were read with it: one that  *)
(* is gone is inserted again, and the whole fails if its question is gone. *)
CompleteQuizAttempt(r) ==
    LET a == req[r].id
        back == {k \in req[r].kids : answer[k[1]] = NoRow} IN
    /\ Doing(r, "save") /\ Op(r) = "CompleteQuizAttempt"
    /\ IF \E k \in back : item[k[2]] = Nil
       THEN Refuse(r, "sql") /\ Works /\ UNCHANGED <<attempt, answer>>
       ELSE /\ attempt' = [attempt EXCEPT ![a] = [req[r].copy.row EXCEPT !.status = "completed"]]
            /\ answer' = [x \in Answers |->
                 IF \E k \in back : k[1] = x
                 THEN [attempt |-> a, question |-> (CHOOSE k \in back : k[1] = x)[2]]
                 ELSE answer[x]]
            /\ Done(r)
    /\ UNCHANGED <<contentVars, today, goal, lost>>

-----------------------------------------------------------------------------
(* The study session of the day: CreateOrUpdate reads the row and saves it *)
(* with what there is to add, or creates it.  A lookup that fails is taken *)
(* for a row that is not there.  Only RecordStudySession reports an error. *)
FindSession(r) ==
    /\ Doing(r, "session")
    /\ \/ Pass(r, [req[r] EXCEPT !.copy = [today |-> today[req[r].user]]]) /\ Works
       \/ /\ faults < MaxFaults /\ faults' = faults + 1
          /\ Pass(r, [req[r] EXCEPT !.copy = [today |-> Nil]])
          /\ UNCHANGED served
    /\ UNCHANGED <<contentVars, analyticsVars>>

SessionError(r) == IF Op(r) = "RecordStudySession" THEN "sql" ELSE "ok"

(* Mutant: the row is saved with the new counts instead of their sum.      *)
ReplaceSession(r) ==
    LET u == req[r].user  n == req[r].n  read == req[r].copy.today IN
    /\ Doing(r, "count")
    /\ today' = [today EXCEPT ![u] = n]
    /\ lost' = [lost EXCEPT ![u] = @ + (IF read # Nil THEN today[u] - read ELSE 0)]
    /\ Done(r)
    /\ UNCHANGED <<contentVars, attempt, answer, goal>>

SaveSession(r) ==
    LET u == req[r].user  n == req[r].n  read == req[r].copy.today IN
    /\ Doing(r, "count")
    /\ \/ /\ read # Nil
          /\ today' = [today EXCEPT ![u] = read + n]
          /\ lost' = [lost EXCEPT ![u] = @ + (today[u] - read)]
          /\ Done(r)
       \/ /\ read = Nil /\ today[u] = Nil
          /\ today' = [today EXCEPT ![u] = n]
          /\ Done(r) /\ UNCHANGED lost
       \/ /\ read = Nil /\ today[u] # Nil   \* one row per user and day
          /\ lost' = [lost EXCEPT ![u] = @ + n]
          /\ Judge(r, SessionError(r)) /\ Works /\ UNCHANGED today
       \/ Fails(r, SessionError(r)) /\ UNCHANGED <<today, lost>>
    /\ UNCHANGED <<contentVars, attempt, answer, goal>>

-----------------------------------------------------------------------------
(* Learning goals, whose rows are removed: "deleted" is no row here.       *)
ReadGoal(r) ==
    LET e == GetGoal(req[r].user, req[r].id) IN
    /\ Doing(r, "goal") /\ Works
    /\ IF e = "ok" THEN Pass(r, [req[r] EXCEPT !.copy = [row |-> goal[req[r].id]]]) ELSE Refuse(r, e)
    /\ UNCHANGED <<contentVars, analyticsVars>>

CreateLearningGoal(r) ==
    /\ Doing(r, "save") /\ Op(r) = "CreateLearningGoal"
    /\ \E g \in Goals : goal[g] = NoRow /\ goal' = [goal EXCEPT ![g] = GoalRow(req[r].user)]
    /\ Done(r)
    /\ UNCHANGED <<contentVars, attempt, answer, today, lost>>

UpdateLearningGoal(r) ==
    /\ Doing(r, "save") /\ Op(r) = "UpdateLearningGoal"
    /\ goal' = [goal EXCEPT ![req[r].id] = req[r].copy.row]
    /\ Done(r)
    /\ UNCHANGED <<contentVars, attempt, answer, today, lost>>

DeleteLearningGoal(r) ==
    /\ Doing(r, "save") /\ Op(r) = "DeleteLearningGoal"
    /\ goal' = [goal EXCEPT ![req[r].id] = Deleted(@)]
    /\ Done(r)
    /\ UNCHANGED <<contentVars, attempt, answer, today, lost>>

(* One UPDATE, which finds no row where the goal is gone; GetLearningGoals *)
(* ignores its error.                                                      *)
MarkComplete(r) ==
    /\ Doing(r, "mark")
    /\ \/ /\ goal' = [goal EXCEPT ![req[r].id] = IF Live(@) THEN [@ EXCEPT !.done = TRUE] ELSE @]
          /\ Done(r)
       \/ /\ faults < MaxFaults /\ faults' = faults + 1
          /\ Judge(r, IF Op(r) = "GetLearningGoals" THEN "ok" ELSE "sql")
          /\ UNCHANGED <<goal, served>>
    /\ UNCHANGED <<contentVars, attempt, answer, today, lost>>

(* The goals not completed are listed and their progress computed one by   *)
(* one; a goal whose progress cannot be read is passed over.               *)
GetLearningGoals(r) ==
    LET u == req[r].user IN
    /\ Doing(r, "goals") /\ Works
    /\ Pass(r, [req[r] EXCEPT !.kids = {g \in Goals : /\ Live(goal[g]) /\ goal[g].owner = u
                                                      /\ ~ goal[g].done}])
    /\ UNCHANGED <<contentVars, analyticsVars>>

ComputeProgress(r) ==
    /\ Doing(r, "progress")
    /\ \/ req[r].kids = {} /\ Done(r)
       \/ \E g \in req[r].kids :
            LET rest == [req[r] EXCEPT !.id = g, !.kids = @ \ {g}] IN
            \/ /\ req' = [req EXCEPT ![r] =
                    IF Completed(req[r].user) >= Target
                    THEN [rest EXCEPT !.todo = <<"mark">> \o @] ELSE rest]
               /\ Works
            \/ /\ faults < MaxFaults /\ faults' = faults + 1
               /\ req' = [req EXCEPT ![r] = rest]
               /\ UNCHANGED served
    /\ UNCHANGED <<contentVars, analyticsVars>>

-----------------------------------------------------------------------------
(* The handlers.                                                           *)
OnAttempt(r, u, op, n, rest) ==
    \E a \in Attempts : Begin(r, u, Call(op, a, Nil, Nil, n), <<"attempt">> \o rest)
OnGoal(r, u, op, rest) ==
    \E g \in Goals : Begin(r, u, Call(op, g, Nil, Nil, 0), <<"goal">> \o rest)

PostAttempt(r, u) ==
    \E q \in Quizzes : Begin(r, u, Call("StartQuizAttempt", q, Nil, Nil, 0),
                            <<"save", "session", "count">>)
PostAnswer(r, u) == \E i \in Questions : OnAttempt(r, u, "SubmitAnswer", i, <<"save">>)
PostCompletion(r, u) ==
    OnAttempt(r, u, "CompleteQuizAttempt", 1, <<"grade", "save", "session", "count">>)
PostStudySession(r, u) ==
    \E n \in 0..1 : Begin(r, u, Call("RecordStudySession", Nil, Nil, Nil, n), <<"session", "count">>)
PostGoal(r, u) == Begin(r, u, Call("CreateLearningGoal", Nil, Nil, Nil, 0), <<"save">>)
FetchGoals(r, u) == Begin(r, u, Call("GetLearningGoals", Nil, Nil, Nil, 0), <<"goals", "progress">>)
PutGoal(r, u) == OnGoal(r, u, "UpdateLearningGoal", <<"save">>)
RemoveGoal(r, u) == OnGoal(r, u, "DeleteLearningGoal", <<"save">>)
PostGoalCompletion(r, u) == OnGoal(r, u, "CompleteLearningGoal", <<"mark">>)

AnalyticsRequest(r, u) ==
    /\ \/ PostAttempt(r, u) \/ PostAnswer(r, u) \/ PostCompletion(r, u)
       \/ PostStudySession(r, u) \/ PostGoal(r, u) \/ FetchGoals(r, u)
       \/ PutGoal(r, u) \/ RemoveGoal(r, u) \/ PostGoalCompletion(r, u)
    /\ UNCHANGED <<contentVars, analyticsVars>>

AnalyticsStatement(r) ==
    \/ ReadAttempt(r) \/ StartQuizAttempt(r) \/ SubmitAnswer(r) \/ Grade(r)
    \/ CompleteQuizAttempt(r) \/ FindSession(r) \/ SaveSession(r)
    \/ ReadGoal(r) \/ CreateLearningGoal(r) \/ UpdateLearningGoal(r) \/ DeleteLearningGoal(r)
    \/ MarkComplete(r) \/ GetLearningGoals(r) \/ ComputeProgress(r) \/ SaveFails(r)

AnalyticsNext ==
    \/ \E r \in Slots, u \in Users : AnalyticsRequest(r, u)
    \/ \E r \in Slots : Turn(r) /\ AnalyticsStatement(r)
=============================================================================
