--------------------------- MODULE LearningProofs ---------------------------
(***************************************************************************)
(* The theorems about the content and analytics services and their proofs, *)
(* for any number of requests, users and rows.  The invariant says what    *)
(* the tables hold (rows, and that what a course contains has the owner of *)
(* the course) and, for every request under way, which statements it has   *)
(* ahead and what its copies still tell: a copy differs from its row only  *)
(* where a race is on record in "stale".                                   *)
(***************************************************************************)
EXTENDS Learning, Integers, FiniteSetTheorems, SequenceTheorems, TLAPS

(* What the tables hold.                                                   *)
Kept == {"live", "deleted"}
CourseRows == [st : Kept, owner : Users]
MaterialRows == [st : Kept, owner : Users, course : Courses \cup {Nil}, status : Statuses]
SetRows == [st : Kept, owner : Users, course : Courses \cup {Nil}, material : Materials \cup {Nil}]
AttemptRows == [st : {"live"}, owner : Users, status : {"in_progress", "completed"}]
GoalRows == [st : Kept, owner : Users, done : BOOLEAN]
AnswerRows == [attempt : Attempts, question : Questions]

Of(row, u) == row.st # "none" /\ row.owner = u
Place(c, u) == c # Nil => Of(course[c], u)
PlacesInv ==
    /\ \A m \in Materials : material[m] # NoRow => Place(material[m].course, material[m].owner)
    /\ \A s \in Sets : set[s] # NoRow => Place(set[s].course, set[s].owner)
ItemsInv ==
    \A i \in Items : /\ item[i] # Nil => born[i] = item[i]
                     /\ born[i] # Nil => set[born[i]] # NoRow

Statements ==
    {"row", "item", "attempt", "goal", "goals", "course", "material", "parent", "grade",
     "write", "list", "save", "mark", "child", "session", "reload", "count", "progress", "answer"}
Rank(s) ==
    CASE s \in {"row", "item", "attempt", "goal", "goals"} -> 0
      [] s = "course" -> 1
      [] s \in {"material", "parent", "grade"} -> 2
      [] s \in {"write", "list", "save", "mark"} -> 3
      [] s \in {"child", "session"} -> 4
      [] s \in {"reload", "count", "progress"} -> 5
      [] OTHER -> 6
Ahead(t, s) == \E j \in 1..Len(t) : t[j] = s
Ordered(t) ==
    /\ t \in Seq(Statements) /\ t # <<>> /\ t[Len(t)] = "answer"
    /\ \A i, j \in 1..Len(t) : i < j => Rank(t[i]) < Rank(t[j]) \/ (t[i] = "child" /\ t[j] = "child")

CourseOps == {"GetCourse", "UpdateCourse", "DeleteCourse"}
MaterialOps == {"GetMaterial", "UpdateMaterial", "DeleteMaterial"}
QuizOps == {"GetQuiz", "UpdateQuiz", "DeleteQuiz", "AddQuizQuestion"}
DeckOps == {"GetFlashcardDeck", "UpdateFlashcardDeck", "DeleteFlashcardDeck", "AddFlashcard"}
QuestionOps == {"UpdateQuizQuestion", "DeleteQuizQuestion"}
CardOps == {"UpdateFlashcard", "DeleteFlashcard"}
NewOps == {"CreateQuiz", "CreateFlashcardDeck"}
ListOps == {"GetCourseMaterials", "GetCourseQuizzes"}
AttemptOps == {"SubmitAnswer", "CompleteQuizAttempt"}
SavedGoalOps == {"UpdateLearningGoal", "DeleteLearningGoal"}
GoalOps == SavedGoalOps \cup {"CompleteLearningGoal"}
SessionOps == {"StartQuizAttempt", "CompleteQuizAttempt", "RecordStudySession"}

IdsOf(op) ==
    CASE op \in CourseOps -> Courses [] op \in MaterialOps -> Materials
      [] op \in QuizOps \cup {"StartQuizAttempt"} -> Quizzes [] op \in DeckOps -> Decks
      [] op \in QuestionOps -> Questions [] op \in CardOps -> Cards
      [] op \in AttemptOps -> Attempts [] op \in GoalOps -> Goals
      [] op = "CreateQuiz" -> Quizzes \cup {Nil} [] op = "CreateFlashcardDeck" -> Decks \cup {Nil}
      [] op = "GetLearningGoals" -> Goals \cup {Nil} [] OTHER -> {Nil}

OpsOf(s) ==
    CASE s = "row" -> CourseOps \cup MaterialOps \cup QuizOps \cup DeckOps
      [] s \in {"item", "parent"} -> QuestionOps \cup CardOps
      [] s = "course" -> {"CreateMaterial", "UpdateMaterial", "UpdateQuiz", "UpdateFlashcardDeck"} \cup NewOps \cup ListOps
      [] s = "material" -> {"UpdateQuiz", "UpdateFlashcardDeck"} \cup NewOps
      [] s = "list" -> ListOps
      [] s = "write" -> {"CreateCourse", "CreateMaterial"} \cup NewOps \cup CourseOps \cup MaterialOps
                        \cup QuizOps \cup DeckOps \cup QuestionOps \cup CardOps
      [] s \in {"child", "reload"} -> NewOps
      [] s = "attempt" -> AttemptOps
      [] s = "goal" -> GoalOps
      [] s \in {"goals", "progress"} -> {"GetLearningGoals"}
      [] s = "grade" -> {"CompleteQuizAttempt"}
      [] s = "save" -> {"StartQuizAttempt", "CreateLearningGoal"} \cup AttemptOps \cup SavedGoalOps
      [] s = "mark" -> {"CompleteLearningGoal", "GetLearningGoals"}
      [] s \in {"session", "count"} -> SessionOps
      [] OTHER -> {}

Operations ==
    CourseOps \cup MaterialOps \cup QuizOps \cup DeckOps \cup QuestionOps \cup CardOps \cup NewOps
      \cup ListOps \cup AttemptOps \cup GoalOps \cup SessionOps
      \cup {"CreateCourse", "CreateMaterial", "CreateLearningGoal", "GetLearningGoals"}
Errors ==
    {"ok", "denied", "no course", "no material", "no quiz", "no question", "no flashcard", "no attempt",
     "no goal", "not in progress", "gone", "sql"}

Copies ==
    {Nil} \cup [row : CourseRows \cup AttemptRows \cup GoalRows \cup Sets \cup {Nil}]
          \cup [row : MaterialRows, course : Courses \cup {Nil}]
          \cup [row : SetRows, course : Courses \cup {Nil}, material : Materials \cup {Nil}]
          \cup [today : Nat \cup {Nil}]
Request ==
    [op : Operations, user : Users, id : Rows \cup {Nil}, course : Courses \cup {Nil},
     material : Materials \cup {Nil}, n : Nat \cup Questions, todo : Seq(Statements),
     copy : Copies, kids : SUBSET (Rows \cup (Answers \X Questions)), err : Errors, begun : BOOLEAN]

RowsInv ==
    /\ course \in [Courses -> CourseRows \cup {NoRow}]
    /\ material \in [Materials -> MaterialRows \cup {NoRow}]
    /\ set \in [Sets -> SetRows \cup {NoRow}]
    /\ item \in [Items -> Sets \cup {Nil}]
    /\ born \in [Items -> Sets \cup {Nil}]
    /\ promised \in [Sets -> Nat]
    /\ attempt \in [Attempts -> AttemptRows \cup {NoRow}]
    /\ answer \in [Answers -> AnswerRows \cup {NoRow}]
    /\ today \in [Users -> Nat \cup {Nil}]
    /\ goal \in [Goals -> GoalRows \cup {NoRow}]
    /\ lost \in [Users -> Int]
    /\ served \in Nat /\ faults \in Nat /\ callbacks \in Nat
    /\ stale \in [Slots -> SUBSET Rows]
    /\ req \in [Slots -> Request \cup {Idle}]

Trailing(t) ==
    /\ Ahead(t, "save") => Ahead(t, "session")
    /\ Ahead(t, "session") => Ahead(t, "count")
Shape(q) ==
    /\ q \in Request /\ Ordered(q.todo)
    /\ \A j \in 1..Len(q.todo) : q.todo[j] # "answer" => q.op \in OpsOf(q.todo[j])
    /\ q.id \in IdsOf(q.op)
    /\ q.op = "SubmitAnswer" => q.n \in Questions
    /\ q.op # "SubmitAnswer" => q.n \in Nat
    /\ q.op = "CompleteQuizAttempt" => q.n = 1 /\ Trailing(q.todo)
    /\ q.op \in ListOps => q.course \in Courses
    /\ q.op \in NewOps => \A j \in 1..Len(q.todo) :
         /\ q.todo[j] = "write" <=> Len(q.todo) - j = q.n + 2
         /\ q.todo[j] = "child" <=> Len(q.todo) - j \in 2..(q.n + 1)

Checked(q) ==
    Ahead(q.todo, "write") \/ Ahead(q.todo, "list") => Ahead(q.todo, "course") \/ Place(q.course, q.user)

Past(q, s, t) == ~ Ahead(q.todo, s) /\ Ahead(q.todo, t)
CourseRead(q) ==
    /\ q.copy = [row |-> CourseRow(q.user)] /\ Of(course[q.id], q.user)
    /\ \A x \in q.kids : \/ x \in Materials /\ Of(material[x], q.user)
                         \/ x \in Sets /\ Of(set[x], q.user)
MaterialRead(q) ==
    /\ q.copy \in [row : MaterialRows, course : Courses \cup {Nil}]
    /\ q.copy.row.st = "live" /\ q.copy.row.owner = q.user /\ Of(material[q.id], q.user)
    /\ q.kids = {}
    /\ Place(q.copy.row.course, q.user) /\ Place(q.copy.course, q.user)
SetRead(q) ==
    /\ q.copy \in [row : SetRows, course : Courses \cup {Nil}, material : Materials \cup {Nil}]
    /\ q.copy.row.st = "live" /\ q.copy.row.owner = q.user /\ Of(set[q.id], q.user)
    /\ Place(q.copy.row.course, q.user) /\ Place(q.copy.course, q.user)
    /\ \A i \in q.kids : i \in Items /\ born[i] = q.id
ItemRead(q) == q.copy \in [row : Sets] /\ born[q.id] = q.copy.row
AttemptRead(q) ==
    /\ q.copy \in [row : AttemptRows] /\ q.copy.row.owner = q.user /\ Of(attempt[q.id], q.user)
    /\ q.kids \subseteq Answers \X Questions
    /\ q.op = "SubmitAnswer" => q.copy.row.status = "in_progress"
GoalRead(q) ==
    q.copy \in [row : GoalRows] /\ q.copy.row.st = "live" /\ q.copy.row.owner = q.user /\ Of(goal[q.id], q.user)
SessionRead(q) ==
    q.copy \in [today : Nat \cup {Nil}] /\ (q.copy.today # Nil => today[q.user] # Nil)

ReadInv(q) ==
    /\ Past(q, "row", "write") =>
         /\ q.op \in CourseOps => CourseRead(q)
         /\ q.op \in MaterialOps => MaterialRead(q)
         /\ q.op \in QuizOps \cup DeckOps => SetRead(q)
    /\ Past(q, "item", "write") /\ q.op \in QuestionOps \cup CardOps => ItemRead(q)
    /\ Ahead(q.todo, "parent") => Ahead(q.todo, "write")
    /\ Ahead(q.todo, "count") => Ahead(q.todo, "session") \/ Head(q.todo) = "count"
    /\ Past(q, "attempt", "save") /\ q.op \in AttemptOps => AttemptRead(q)
    /\ Past(q, "goal", "save") /\ q.op \in SavedGoalOps => GoalRead(q)
    /\ Past(q, "session", "count") => SessionRead(q)
    /\ q.op = "GetLearningGoals" => q.kids \subseteq Goals
    /\ Ahead(q.todo, "mark") => q.id \in Goals
ShownInv(q) ==
    q.op \in Shows => \A x \in q.kids :
       IF x \in Items THEN born[x] # Nil /\ Of(set[born[x]], q.user)
       ELSE x \in Materials \cup Sets /\ Of(RowOf(x), q.user)
BornIn(s) == {i \in Items : born[i] = s}
NewInv(q) ==
    q.op \in NewOps /\ Past(q, "write", "reload") =>
       /\ q.id # Nil /\ set[q.id] # NoRow
       /\ Head(q.todo) = "child" => Cardinality(BornIn(q.id)) + Len(q.todo) - 2 >= promised[q.id]
Same(r, x, old) == RowOf(x) = old \/ x \in stale[r]
FreshInv(r) == LET q == req[r] IN
    /\ Past(q, "row", "write") /\ q.op \in {"UpdateCourse", "UpdateMaterial", "UpdateQuiz", "UpdateFlashcardDeck"} =>
         /\ Same(r, q.id, q.copy.row)
         /\ \A x \in q.kids : /\ x \in Items => Same(r, x, q.id)
                              /\ x \notin Items => RowOf(x).course = q.id \/ x \in stale[r]
    /\ Past(q, "item", "write") /\ q.op \in QuestionOps \cup CardOps => Same(r, q.id, q.copy.row)
    /\ Past(q, "attempt", "save") /\ q.op \in AttemptOps => Same(r, q.id, q.copy.row)
    /\ Past(q, "goal", "save") /\ q.op \in SavedGoalOps => Same(r, q.id, q.copy.row)

ReqInv(r) ==
    /\ Shape(req[r]) /\ Checked(req[r]) /\ ReadInv(req[r]) /\ ShownInv(req[r])
    /\ NewInv(req[r]) /\ FreshInv(r)
ReqsInv == \A r \in Slots : req[r] # Idle => ReqInv(r)
Inv == RowsInv /\ PlacesInv /\ ItemsInv /\ ReqsInv
-----------------------------------------------------------------------------
(* Ids of one kind are not ids of another.                                 *)
LEMMA Kinds ==
    /\ \A x \in Courses : x \notin Materials /\ x \notin Sets /\ x \notin Items /\ x \notin Attempts /\ x \notin Goals /\ x # Nil
    /\ \A x \in Materials : x \notin Courses /\ x \notin Sets /\ x \notin Items /\ x \notin Attempts /\ x \notin Goals /\ x # Nil
    /\ \A x \in Sets : x \notin Courses /\ x \notin Materials /\ x \notin Items /\ x \notin Attempts /\ x \notin Goals /\ x # Nil
    /\ \A x \in Items : x \notin Courses /\ x \notin Materials /\ x \notin Sets /\ x \notin Attempts /\ x \notin Goals /\ x # Nil
    /\ \A x \in Attempts : x \notin Courses /\ x \notin Materials /\ x \notin Sets /\ x \notin Items /\ x \notin Goals /\ x # Nil
    /\ \A x \in Goals : x \notin Courses /\ x \notin Materials /\ x \notin Sets /\ x \notin Items /\ x \notin Attempts /\ x # Nil
    /\ \A x \in Quizzes : x \in Sets /\ x \notin Decks
    /\ \A x \in Decks : x \in Sets /\ x \notin Quizzes
    /\ \A x \in Questions : x \in Items /\ x \notin Cards
    /\ \A x \in Cards : x \in Items /\ x \notin Questions
BY ContentAssumption, AnalyticsAssumption DEF ContentIds, Sets, Items

LEMMA RowOfIs ==
    /\ \A x \in Courses : RowOf(x) = course[x]
    /\ \A x \in Materials : RowOf(x) = material[x]
    /\ \A x \in Sets : RowOf(x) = set[x]
    /\ \A x \in Items : RowOf(x) = item[x]
    /\ \A x \in Attempts : RowOf(x) = attempt[x]
    /\ \A x \in Goals : RowOf(x) = goal[x]
BY Kinds DEF RowOf
LEMMA RowOfAfter ==
    /\ \A x \in Courses : RowOf(x)' = course'[x]
    /\ \A x \in Materials : RowOf(x)' = material'[x]
    /\ \A x \in Sets : RowOf(x)' = set'[x]
    /\ \A x \in Items : RowOf(x)' = item'[x]
    /\ \A x \in Attempts : RowOf(x)' = attempt'[x]
    /\ \A x \in Goals : RowOf(x)' = goal'[x]
BY Kinds DEF RowOf

-----------------------------------------------------------------------------
(* Lists of statements.                                                    *)
LEMMA Ranks == \A s \in Statements : Rank(s) \in 0..6 /\ (Rank(s) = 6 <=> s = "answer")
BY DEF Statements, Rank

LEMMA OrderedHead ==
    ASSUME NEW t, Ordered(t)
    PROVE  /\ t # <<>> /\ Len(t) \in Nat /\ Len(t) >= 1 /\ Head(t) = t[1] /\ Head(t) \in Statements /\ Ahead(t, Head(t))
           /\ Head(t) = "answer" <=> Len(t) = 1
           /\ \A s : Ahead(t, s) => s \in Statements /\ Rank(Head(t)) <= Rank(s)
           /\ \A s : Ahead(t, s) /\ s # Head(t) => Rank(Head(t)) < Rank(s)
           /\ Ahead(t, "answer")
<1> USE DEF Ordered
<1>1. t \in Seq(Statements) /\ t # <<>> /\ Len(t) \in Nat /\ Len(t) >= 1 /\ Head(t) = t[1] /\ t[1] \in Statements
      /\ \A j \in 1..Len(t) : t[j] \in Statements
  OBVIOUS
<1>2. \A j \in 1..Len(t) : Rank(t[j]) \in 0..6 /\ (Rank(t[j]) = 6 <=> t[j] = "answer")
  BY <1>1, Ranks
<1>3. \A j \in 2..Len(t) : Rank(t[1]) < Rank(t[j]) \/ (t[1] = "child" /\ t[j] = "child")
  BY <1>1
<1>4. Head(t) = "answer" <=> Len(t) = 1
  <2>1. ASSUME Head(t) = "answer", Len(t) # 1 PROVE FALSE
    <3>1. t[1] = "answer" /\ 1 \in 1..Len(t) /\ 2 \in 1..Len(t) /\ 2 \in 2..Len(t)
      BY <1>1, <2>1, SMTT(30)
    <3>2. Rank(t[1]) = 6 /\ Rank(t[2]) \in 0..6
      BY <1>2, <3>1
    <3> QED
      BY <1>3, <3>1, <3>2
  <2> QED
    BY <1>1, <2>1, SMTT(30)
<1>5. \A s : Ahead(t, s) => s \in Statements /\ Rank(Head(t)) <= Rank(s) /\ (s # Head(t) => Rank(Head(t)) < Rank(s))
  <2> SUFFICES ASSUME NEW j \in 1..Len(t)
               PROVE  t[j] \in Statements /\ Rank(t[1]) <= Rank(t[j]) /\ (t[j] # t[1] => Rank(t[1]) < Rank(t[j]))
    BY <1>1 DEF Ahead
  <2>1. CASE j = 1
    BY <1>1, <1>2, <2>1
  <2>2. CASE j # 1
    BY <1>1, <1>2, <1>3, <2>2
  <2> QED
    BY <2>1, <2>2
<1>6. Ahead(t, Head(t)) /\ Ahead(t, "answer")
  BY <1>1 DEF Ahead
<1> QED
  BY <1>1, <1>4, <1>5, <1>6

LEMMA OrderedTail ==
    ASSUME NEW t, Ordered(t), Head(t) # "answer"
    PROVE  /\ Ordered(Tail(t)) /\ Len(Tail(t)) = Len(t) - 1 /\ Tail(t) # t
           /\ \A j \in 1..(Len(t) - 1) : Tail(t)[j] = t[j + 1]
           /\ \A s : s # Head(t) => (Ahead(Tail(t), s) <=> Ahead(t, s))
           /\ Head(t) # "child" => ~ Ahead(Tail(t), Head(t))
           /\ \A s : Ahead(Tail(t), s) => Ahead(t, s)
<1>1. t \in Seq(Statements) /\ Len(t) \in Nat /\ Len(t) > 1 /\ Head(t) = t[1]
  BY OrderedHead DEF Ordered
<1>2. /\ Tail(t) \in Seq(Statements) /\ Len(Tail(t)) = Len(t) - 1
      /\ \A j \in 1..(Len(t) - 1) : Tail(t)[j] = t[j + 1]
  BY <1>1
<1>3. Ordered(Tail(t))
  <2>1. Tail(t) # <<>> /\ Tail(t)[Len(Tail(t))] = "answer"
    <3>1. Len(t) - 1 \in 1..(Len(t) - 1) /\ (Len(t) - 1) + 1 = Len(t)
      BY <1>1
    <3>2. Tail(t)[Len(t) - 1] = t[Len(t)]
      BY <1>2, <3>1
    <3> QED
      BY <1>1, <1>2, <3>2 DEF Ordered
  <2>2. ASSUME NEW i \in 1..Len(Tail(t)), NEW j \in 1..Len(Tail(t)), i < j
        PROVE  Rank(Tail(t)[i]) < Rank(Tail(t)[j]) \/ (Tail(t)[i] = "child" /\ Tail(t)[j] = "child")
    <3>1. i + 1 \in 1..Len(t) /\ j + 1 \in 1..Len(t) /\ i + 1 < j + 1
      BY <1>1, <1>2, <2>2
    <3>2. Rank(t[i + 1]) < Rank(t[j + 1]) \/ (t[i + 1] = "child" /\ t[j + 1] = "child")
      BY <3>1 DEF Ordered
    <3> QED
      BY <1>1, <1>2, <3>2
  <2> QED
    BY <1>2, <2>1, <2>2 DEF Ordered
<1>4. \A s : s # Head(t) => (Ahead(Tail(t), s) <=> Ahead(t, s))
  <2> SUFFICES ASSUME NEW s, s # Head(t) PROVE Ahead(Tail(t), s) <=> Ahead(t, s)
    OBVIOUS
  <2>1. ASSUME Ahead(t, s) PROVE Ahead(Tail(t), s)
    <3>1. PICK j \in 1..Len(t) : t[j] = s
      BY <2>1 DEF Ahead
    <3>2. j # 1 /\ j - 1 \in 1..(Len(t) - 1) /\ (j - 1) + 1 = j
      BY <1>1, <3>1
    <3> QED
      BY <1>2, <3>1, <3>2 DEF Ahead
  <2>2. ASSUME Ahead(Tail(t), s) PROVE Ahead(t, s)
    <3>1. PICK j \in 1..(Len(t) - 1) : Tail(t)[j] = s
      BY <1>2, <2>2 DEF Ahead
    <3>2. j + 1 \in 1..Len(t)
      BY <1>1
    <3> QED
      BY <1>2, <3>1, <3>2 DEF Ahead
  <2> QED
    BY <2>1, <2>2
<1>5. ASSUME Head(t) # "child", Ahead(Tail(t), Head(t)) PROVE FALSE
  <2>1. PICK j \in 1..(Len(t) - 1) : Tail(t)[j] = Head(t)
    BY <1>2, <1>5 DEF Ahead
  <2>2. j + 1 \in 1..Len(t) /\ 1 \in 1..Len(t) /\ 1 < j + 1 /\ t[j + 1] = t[1]
    BY <1>1, <1>2, <2>1
  <2>3. Rank(t[1]) < Rank(t[j + 1])
    BY <1>1, <1>5, <2>2 DEF Ordered
  <2>4. Rank(t[1]) \in 0..6
    BY <1>1, OrderedHead, Ranks
  <2> QED
    BY <2>2, <2>3, <2>4
<1>6. Ahead(t, Head(t)) /\ Tail(t) # t
  <2>1. Len(t) - 1 # Len(t)
    BY <1>1
  <2>2. Len(Tail(t)) = Len(t) - 1
    BY <1>2
  <2> QED
    BY <2>1, <2>2, OrderedHead, Zenon
<1> QED
  BY <1>2, <1>3, <1>4, <1>5, <1>6

(* A list is one of these or begins with a statement of lower rank.        *)
LEMMA OrderedLast == Ordered(<<"answer">>) /\ \A s : Ahead(<<"answer">>, s) <=> s = "answer"
<1>1. Len(<<"answer">>) = 1 /\ <<"answer">>[1] = "answer" /\ <<"answer">> \in Seq(Statements)
  BY DEF Statements
<1> QED
  BY <1>1 DEF Ordered, Ahead

LEMMA OrderedCons ==
    ASSUME NEW t, Ordered(t), NEW a \in Statements, Rank(a) < Rank(Head(t))
    PROVE  /\ Ordered(<<a>> \o t) /\ Len(<<a>> \o t) = Len(t) + 1 /\ Head(<<a>> \o t) = a
           /\ (<<a>> \o t)[1] = a /\ \A j \in 1..Len(t) : (<<a>> \o t)[j + 1] = t[j]
           /\ \A s : Ahead(<<a>> \o t, s) <=> (s = a \/ Ahead(t, s))
<1> DEFINE l == <<a>> \o t
<1>1. t \in Seq(Statements) /\ Len(t) \in Nat /\ Len(t) >= 1 /\ Head(t) = t[1]
  BY OrderedHead DEF Ordered
<1>2. /\ l \in Seq(Statements) /\ Len(l) = Len(t) + 1 /\ l[1] = a
      /\ \A j \in 1..Len(t) : l[j + 1] = t[j]
  BY <1>1
<1>3. \A i \in 2..Len(l) : i - 1 \in 1..Len(t) /\ l[i] = t[i - 1]
  BY <1>1, <1>2
<1>4. Head(l) = a /\ l # <<>> /\ l[Len(l)] = "answer"
  BY <1>1, <1>2, <1>3 DEF Ordered
<1> HIDE DEF l
<1>5. \A j \in 1..Len(t) : Rank(a) < Rank(t[j])
  <2> SUFFICES ASSUME NEW j \in 1..Len(t) PROVE Rank(a) < Rank(t[j])
    OBVIOUS
  <2>1. Ahead(t, t[j])
    BY DEF Ahead
  <2>2. Rank(Head(t)) <= Rank(t[j]) /\ t[j] \in Statements /\ Head(t) \in Statements
    BY <2>1, OrderedHead
  <2>3. Rank(a) \in 0..6 /\ Rank(Head(t)) \in 0..6 /\ Rank(t[j]) \in 0..6
    BY <2>2, Ranks
  <2> QED
    BY <2>2, <2>3
<1>6. Ordered(l)
  <2>1. ASSUME NEW i \in 1..Len(l), NEW j \in 1..Len(l), i < j
        PROVE  Rank(l[i]) < Rank(l[j]) \/ (l[i] = "child" /\ l[j] = "child")
    <3>1. j \in 2..Len(l) /\ j - 1 \in 1..Len(t) /\ l[j] = t[j - 1]
      BY <1>1, <1>2, <1>3, <2>1
    <3>2. CASE i = 1
      BY <1>2, <1>5, <3>1, <3>2
    <3>3. CASE i # 1
      <4>1. i - 1 \in 1..Len(t) /\ l[i] = t[i - 1] /\ i - 1 < j - 1
        BY <1>1, <1>2, <1>3, <2>1, <3>3
      <4> QED
        BY <3>1, <4>1 DEF Ordered
    <3> QED
      BY <3>2, <3>3
  <2> QED
    BY <1>2, <1>4, <2>1 DEF Ordered
<1>7. \A s : Ahead(l, s) <=> (s = a \/ Ahead(t, s))
  <2> SUFFICES ASSUME NEW s PROVE Ahead(l, s) <=> (s = a \/ Ahead(t, s))
    OBVIOUS
  <2>1. ASSUME Ahead(l, s) PROVE s = a \/ Ahead(t, s)
    <3>1. PICK j \in 1..Len(l) : l[j] = s
      BY <2>1 DEF Ahead
    <3>2. CASE j = 1
      BY <1>2, <3>1, <3>2
    <3>3. CASE j # 1
      <4>1. j - 1 \in 1..Len(t) /\ t[j - 1] = s
        BY <1>1, <1>2, <1>3, <3>1, <3>3
      <4> QED
        BY <4>1 DEF Ahead
    <3> QED
      BY <3>2, <3>3
  <2>2. ASSUME s = a \/ Ahead(t, s) PROVE Ahead(l, s)
    <3>1. CASE s = a
      BY <1>1, <1>2, <3>1 DEF Ahead
    <3>2. CASE Ahead(t, s)
      <4>1. PICK j \in 1..Len(t) : t[j] = s
        BY <3>2 DEF Ahead
      <4>2. j + 1 \in 1..Len(l)
        BY <1>1, <1>2
      <4> QED
        BY <1>2, <4>1, <4>2 DEF Ahead
    <3> QED
      BY <2>2, <3>1, <3>2
  <2> QED
    BY <2>1, <2>2
<1> QED
  BY <1>2, <1>4, <1>6, <1>7 DEF l

-----------------------------------------------------------------------------
(* What a step does to requests.                                           *)
Alike(q, p) ==
    /\ p.op = q.op /\ p.user = q.user /\ p.course = q.course
    /\ p.material = q.material /\ p.n = q.n

LEMMA DoingIs ==
    ASSUME Inv, NEW r \in Slots, NEW s, Doing(r, s)
    PROVE  /\ req[r] # Idle /\ req[r] \in Request /\ ReqInv(r) /\ Shape(req[r])
           /\ Ordered(req[r].todo) /\ Head(req[r].todo) = s /\ Ahead(req[r].todo, s)
<1>1. req[r] # Idle
  BY DEF Doing, Idle
<1>2. ReqInv(r) /\ Shape(req[r]) /\ req[r] \in Request /\ Ordered(req[r].todo)
  BY <1>1 DEF Inv, ReqsInv, ReqInv, Shape
<1>3. Head(req[r].todo) = s /\ Ahead(req[r].todo, s)
  BY <1>2, OrderedHead DEF Doing
<1> QED
  BY <1>1, <1>2, <1>3

LEMMA PassIs ==
    ASSUME Inv, NEW r \in Slots, NEW q \in Request, Ordered(q.todo), Head(q.todo) # "answer",
           Pass(r, q)
    PROVE  /\ req'[r] \in Request /\ req'[r] # Idle
           /\ req'[r].todo = Tail(q.todo) /\ Alike(q, req'[r])
           /\ req'[r].id = q.id /\ req'[r].copy = q.copy /\ req'[r].kids = q.kids
           /\ \A s \in Slots \ {r} : req'[s] = req[s]
           /\ req' \in [Slots -> Request \cup {Idle}]
<1> DEFINE p == [q EXCEPT !.todo = Tail(@), !.begun = TRUE]
<1>1. Tail(q.todo) \in Seq(Statements)
  BY OrderedTail DEF Ordered
<1>2. p \in Request /\ p.todo = Tail(q.todo) /\ Alike(q, p) /\ p.id = q.id /\ p.copy = q.copy /\ p.kids = q.kids
  BY <1>1 DEF Request, Alike
<1>3. p # Idle
  <2>1. Tail(q.todo) # <<>>
    BY OrderedTail DEF Ordered
  <2> QED
    BY <1>2, <2>1 DEF Idle
<1>4. req \in [Slots -> Request \cup {Idle}] /\ req' = [req EXCEPT ![r] = p]
  BY DEF Inv, RowsInv, Pass
<1> HIDE DEF p
<1> QED
  BY <1>2, <1>3, <1>4

LEMMA RefuseIs ==
    ASSUME Inv, NEW r \in Slots, req[r] # Idle, NEW e \in Errors, Refuse(r, e)
    PROVE  /\ req'[r] \in Request /\ req'[r] # Idle
           /\ req'[r].todo = <<"answer">> /\ Alike(req[r], req'[r])
           /\ req'[r].id = req[r].id /\ req'[r].copy = req[r].copy /\ req'[r].kids = req[r].kids
           /\ \A s \in Slots \ {r} : req'[s] = req[s]
           /\ req' \in [Slots -> Request \cup {Idle}]
<1>1. req \in [Slots -> Request \cup {Idle}] /\ req[r] \in Request
  BY DEF Inv, RowsInv
<1> DEFINE p == [[req[r] EXCEPT !.todo = <<"answer">>] EXCEPT !.err = e]
<1>2. <<"answer">> \in Seq(Statements)
  BY OrderedLast DEF Ordered
<1>3. /\ p \in Request /\ p.todo = <<"answer">> /\ Alike(req[r], p) /\ p.id = req[r].id
      /\ p.copy = req[r].copy /\ p.kids = req[r].kids
  BY <1>1, <1>2 DEF Request, Alike
<1>4. p # Idle
  BY <1>3 DEF Idle
<1>5. req' = [req EXCEPT ![r] = p]
  BY <1>1 DEF Refuse
<1> HIDE DEF p
<1> QED
  BY <1>1, <1>3, <1>4, <1>5

LEMMA TrailingTail ==
    ASSUME NEW t, Ordered(t), Head(t) # "answer", Trailing(t)
    PROVE  Trailing(Tail(t))
<1>1. \A s : s # Head(t) => (Ahead(Tail(t), s) <=> Ahead(t, s))
  BY OrderedTail
<1>2. /\ Head(t) # "child" => ~ Ahead(Tail(t), Head(t))
      /\ \A s : Ahead(Tail(t), s) => Ahead(t, s)
  BY OrderedTail
<1>3. \A s : Ahead(t, s) /\ s # Head(t) => Rank(Head(t)) < Rank(s)
  BY OrderedHead
<1>4. Rank("save") = 3 /\ Rank("session") = 4 /\ Rank("count") = 5
  BY DEF Rank
<1>5. Head(t) = "session" => ~ Ahead(t, "save")
  BY <1>3, <1>4
<1>6. Head(t) = "count" => ~ Ahead(t, "session")
  BY <1>3, <1>4
<1> QED
  BY <1>1, <1>2, <1>5, <1>6 DEF Trailing

(* A list keeps its shape when its first statement is made, and when it is *)
(* given up.                                                               *)
LEMMA ShapePasses ==
    ASSUME NEW q, Shape(q), Head(q.todo) # "answer", NEW p \in Request, p.todo = Tail(q.todo),
           Alike(q, p), p.id \in IdsOf(q.op)
    PROVE  Shape(p)
<1>0. q \in Request /\ Ordered(q.todo)
  BY DEF Shape
<1>1. q \in Request /\ Ordered(q.todo) /\ Len(q.todo) \in Nat /\ Len(q.todo) > 1
  <2> DEFINE n == Len(q.todo)
  <2>1. n \in Nat /\ n >= 1 /\ n # 1
    BY <1>0, OrderedHead
  <2> HIDE DEF n
  <2>2. n > 1
    BY <2>1
  <2> QED
    BY <1>0, <2>1, <2>2 DEF n
<1>2. /\ Ordered(p.todo) /\ Len(p.todo) = Len(q.todo) - 1
      /\ \A j \in 1..(Len(q.todo) - 1) : p.todo[j] = q.todo[j + 1]
  BY <1>1, OrderedTail
<1>3. \A j \in 1..Len(p.todo) : j + 1 \in 1..Len(q.todo) /\ p.todo[j] = q.todo[j + 1]
                                /\ Len(q.todo) - (j + 1) = Len(p.todo) - j
  BY <1>1, <1>2
<1>4. \A j \in 1..Len(p.todo) : p.todo[j] # "answer" => p.op \in OpsOf(p.todo[j])
  BY <1>3 DEF Shape, Alike
<1>5. p.op \in NewOps => \A j \in 1..Len(p.todo) :
        /\ p.todo[j] = "write" <=> Len(p.todo) - j = p.n + 2
        /\ p.todo[j] = "child" <=> Len(p.todo) - j \in 2..(p.n + 1)
  <2> SUFFICES ASSUME p.op \in NewOps, NEW j \in 1..Len(p.todo)
               PROVE  /\ p.todo[j] = "write" <=> Len(p.todo) - j = p.n + 2
                      /\ p.todo[j] = "child" <=> Len(p.todo) - j \in 2..(p.n + 1)
    OBVIOUS
  <2> DEFINE k == j + 1
  <2>1. k \in 1..Len(q.todo) /\ p.todo[j] = q.todo[k] /\ Len(q.todo) - k = Len(p.todo) - j /\ p.n = q.n /\ q.op \in NewOps
    BY <1>3 DEF Alike
  <2> HIDE DEF k
  <2>2. /\ q.todo[k] = "write" <=> Len(q.todo) - k = q.n + 2
        /\ q.todo[k] = "child" <=> Len(q.todo) - k \in 2..(q.n + 1)
    BY <2>1 DEF Shape
  <2> QED
    BY <2>1, <2>2
<1>6. q.op = "CompleteQuizAttempt" => Trailing(p.todo)
  <2>1. q.op = "CompleteQuizAttempt" => Trailing(q.todo)
    BY DEF Shape
  <2> QED
    BY <1>0, <2>1, TrailingTail
<1> QED
  BY <1>2, <1>4, <1>5, <1>6 DEF Shape, Alike

LEMMA ShapeGivesUp ==
    ASSUME NEW q, Shape(q), NEW p \in Request, p.todo = <<"answer">>, Alike(q, p), p.id = q.id
    PROVE  Shape(p)
<1>1. Ordered(p.todo) /\ Len(p.todo) = 1 /\ p.todo[1] = "answer"
  BY OrderedLast
<1>2. p.n \in Nat => ~ (0 \in 2..(p.n + 1))
  OBVIOUS
<1>3. p.op \in NewOps => p.n \in Nat
  BY DEF Shape, Alike, NewOps
<1>4. Trailing(p.todo)
  BY OrderedLast DEF Trailing
<1> QED
  BY <1>1, <1>2, <1>3, <1>4 DEF Shape, Alike

-----------------------------------------------------------------------------
(* What no step takes away.                                                *)
Grows ==
    /\ \A c \in Courses, u \in Users : Of(course[c], u) => Of(course'[c], u)
    /\ \A m \in Materials, u \in Users : Of(material[m], u) => Of(material'[m], u)
    /\ \A s \in Sets, u \in Users : Of(set[s], u) => Of(set'[s], u)
    /\ \A a \in Attempts, u \in Users : Of(attempt[a], u) => Of(attempt'[a], u)
    /\ \A g \in Goals, u \in Users : Of(goal[g], u) => Of(goal'[g], u)
    /\ \A i \in Items : born[i] # Nil => born'[i] = born[i]
    /\ \A s \in Sets : set[s] # NoRow => set'[s] # NoRow /\ promised'[s] = promised[s]
    /\ \A u \in Users : today[u] # Nil => today'[u] # Nil

LEMMA IdsAre ==
    ASSUME NEW op, NEW x \in IdsOf(op)
    PROVE  /\ op \in CourseOps => x \in Courses
           /\ op \in MaterialOps => x \in Materials
           /\ op \in QuizOps \cup DeckOps => x \in Sets
           /\ op \in QuizOps \cup {"StartQuizAttempt"} => x \in Quizzes
           /\ op \in DeckOps => x \in Decks
           /\ op \in QuestionOps \cup CardOps => x \in Items
           /\ op \in QuestionOps => x \in Questions
           /\ op \in CardOps => x \in Cards
           /\ op \in AttemptOps => x \in Attempts
           /\ op \in SavedGoalOps \cup GoalOps => x \in Goals
           /\ op = "CreateQuiz" => x \in Quizzes \cup {Nil}
           /\ op = "CreateFlashcardDeck" => x \in Decks \cup {Nil}
           /\ op = "GetLearningGoals" => x \in Goals \cup {Nil}
<1> USE DEF CourseOps, MaterialOps, QuizOps, DeckOps, QuestionOps, CardOps, AttemptOps, SavedGoalOps, GoalOps
<1>1. op \in CourseOps => IdsOf(op) = Courses
  BY DEF IdsOf
<1>2. op \in MaterialOps => IdsOf(op) = Materials
  BY DEF IdsOf
<1>3. op \in QuizOps \cup {"StartQuizAttempt"} => IdsOf(op) = Quizzes
  BY DEF IdsOf
<1>4. op \in DeckOps => IdsOf(op) = Decks
  BY DEF IdsOf
<1>5. op \in QuestionOps => IdsOf(op) = Questions
  BY DEF IdsOf
<1>6. op \in CardOps => IdsOf(op) = Cards
  BY DEF IdsOf
<1>7. op \in AttemptOps => IdsOf(op) = Attempts
  BY DEF IdsOf
<1>8. op \in GoalOps => IdsOf(op) = Goals
  BY DEF IdsOf
<1>9. /\ op = "CreateQuiz" => IdsOf(op) = Quizzes \cup {Nil}
      /\ op = "CreateFlashcardDeck" => IdsOf(op) = Decks \cup {Nil}
      /\ op = "GetLearningGoals" => IdsOf(op) = Goals \cup {Nil}
  BY DEF IdsOf
<1> HIDE DEF CourseOps, MaterialOps, QuizOps, DeckOps, QuestionOps, CardOps, AttemptOps, GoalOps
<1>10. op \in SavedGoalOps => op \in GoalOps
  BY DEF GoalOps
<1> QED
  BY <1>1, <1>2, <1>3, <1>4, <1>5, <1>6, <1>7, <1>8, <1>9, <1>10 DEF Sets, Items


LEMMA PlacesStay ==
    ASSUME Inv, Grows, NEW c \in Courses \cup {Nil}, NEW u \in Users, Place(c, u)
    PROVE  Place(c, u)'
BY DEF Grows, Place

(* The rows a request has read, and those it will show, stay those of its  *)
(* user.                                                                   *)
LEMMA ReadsStay ==
    ASSUME Inv, Grows, NEW r \in Slots, req[r] # Idle, Alike(req[r], req'[r]),
           req'[r].id = req[r].id, req'[r].copy = req[r].copy, req'[r].kids = req[r].kids
    PROVE  /\ req[r].op \in CourseOps /\ CourseRead(req[r]) => CourseRead(req[r])'
           /\ req[r].op \in MaterialOps /\ MaterialRead(req[r]) => MaterialRead(req[r])'
           /\ req[r].op \in QuizOps \cup DeckOps /\ SetRead(req[r]) => SetRead(req[r])'
           /\ req[r].op \in QuestionOps \cup CardOps /\ ItemRead(req[r]) => ItemRead(req[r])'
           /\ req[r].op \in AttemptOps /\ AttemptRead(req[r]) => AttemptRead(req[r])'
           /\ req[r].op \in SavedGoalOps /\ GoalRead(req[r]) => GoalRead(req[r])'
           /\ SessionRead(req[r]) => SessionRead(req[r])'
<1> DEFINE q == req[r]
<1>1. ReqInv(r) /\ q \in Request /\ q.user \in Users /\ q.id \in IdsOf(q.op)
  BY DEF Inv, ReqsInv, ReqInv, Shape, Request
<1>2. /\ q'.op = q.op /\ q'.user = q.user /\ q'.id = q.id /\ q'.copy = q.copy /\ q'.kids = q.kids
  BY DEF Alike
<1>3. /\ q.op \in CourseOps => q.id \in Courses
      /\ q.op \in MaterialOps => q.id \in Materials
      /\ q.op \in QuizOps \cup DeckOps => q.id \in Sets
      /\ q.op \in QuestionOps \cup CardOps => q.id \in Items
      /\ q.op \in AttemptOps => q.id \in Attempts
      /\ q.op \in SavedGoalOps => q.id \in Goals
  BY <1>1, IdsAre
<1> HIDE DEF q
<1>9. ASSUME q.op \in CourseOps, CourseRead(q) PROVE CourseRead(q)'
  BY <1>1, <1>2, <1>3, <1>9 DEF CourseRead, Grows, CourseRow
<1>10. ASSUME q.op \in MaterialOps, MaterialRead(q) PROVE MaterialRead(q)'
  <2>1. q.copy.course \in Courses \cup {Nil} /\ q.copy.row.course \in Courses \cup {Nil}
    BY <1>10 DEF MaterialRead, MaterialRows
  <2>2. Place(q.copy.course, q.user)' /\ Place(q.copy.row.course, q.user)'
    BY <1>1, <1>2, <1>10, <2>1 DEF MaterialRead, Place, Grows
  <2> QED
    BY <1>1, <1>2, <1>3, <1>10, <2>2 DEF MaterialRead, Grows
<1>11. ASSUME q.op \in QuizOps \cup DeckOps, SetRead(q) PROVE SetRead(q)'
  <2>1. q.copy.course \in Courses \cup {Nil} /\ q.copy.row.course \in Courses \cup {Nil}
    BY <1>11 DEF SetRead, SetRows
  <2>2. Place(q.copy.course, q.user)' /\ Place(q.copy.row.course, q.user)'
    BY <1>1, <1>2, <1>11, <2>1 DEF SetRead, Place, Grows
  <2>3. \A i \in q.kids : i \in Items /\ born'[i] = q.id
    BY <1>2, <1>3, <1>11, Kinds DEF SetRead, Grows
  <2> QED
    BY <1>1, <1>2, <1>3, <1>11, <2>2, <2>3 DEF SetRead, Grows
<1>12. ASSUME q.op \in QuestionOps \cup CardOps, ItemRead(q) PROVE ItemRead(q)'
  <2>1. q.copy.row # Nil
    BY <1>12, Kinds DEF ItemRead
  <2> QED
    BY <1>2, <1>3, <1>12, <2>1 DEF ItemRead, Grows
<1>13. ASSUME q.op \in AttemptOps, AttemptRead(q) PROVE AttemptRead(q)'
  BY <1>1, <1>2, <1>3, <1>13 DEF AttemptRead, Grows
<1>14. ASSUME q.op \in SavedGoalOps, GoalRead(q) PROVE GoalRead(q)'
  BY <1>1, <1>2, <1>3, <1>14 DEF GoalRead, Grows
<1>15. ASSUME SessionRead(q) PROVE SessionRead(q)'
  BY <1>1, <1>2, <1>15 DEF SessionRead, Grows
<1> QED
  BY <1>9, <1>10, <1>11, <1>12, <1>13, <1>14, <1>15 DEF q

LEMMA ReadStays ==
    ASSUME Inv, Grows, NEW r \in Slots, req[r] # Idle, req'[r] = req[r]
    PROVE  ReadInv(req[r])'
<1>1. ReadInv(req[r])
  BY DEF Inv, ReqsInv, ReqInv
<1>2. Alike(req[r], req'[r])
  BY DEF Alike
<1>3. \A s, t : Past(req[r], s, t)' <=> Past(req[r], s, t)
  BY DEF Past
<1> QED
  BY <1>1, <1>2, <1>3, ReadsStay DEF ReadInv

LEMMA ShownStays ==
    ASSUME Inv, Grows, NEW r \in Slots, req[r] # Idle, Alike(req[r], req'[r]), req'[r].kids = req[r].kids
    PROVE  ShownInv(req[r])'
<1>1. ShownInv(req[r]) /\ req[r].user \in Users
  BY DEF Inv, ReqsInv, ReqInv, RowsInv, Request
<1>2. ASSUME NEW x \in Items, born[x] # Nil, NEW u \in Users, Of(set[born[x]], u)
      PROVE  born'[x] # Nil /\ Of(set'[born'[x]], u)
  <2>1. born[x] \in Sets
    BY <1>2 DEF Inv, RowsInv
  <2> QED
    BY <1>2, <2>1 DEF Grows
<1>3. ASSUME NEW x \in Materials \cup Sets, NEW u \in Users, Of(RowOf(x), u)
      PROVE  Of(RowOf(x)', u)
  <2>1. CASE x \in Materials
    <3>1. RowOf(x) = material[x] /\ RowOf(x)' = material'[x]
      BY <2>1, RowOfIs, RowOfAfter
    <3> QED
      BY <1>3, <2>1, <3>1 DEF Grows
  <2>2. CASE x \in Sets
    <3>1. RowOf(x) = set[x] /\ RowOf(x)' = set'[x]
      BY <2>2, RowOfIs, RowOfAfter
    <3> QED
      BY <1>3, <2>2, <3>1 DEF Grows
  <2> QED
    BY <2>1, <2>2
<1> QED
  BY <1>1, <1>2, <1>3 DEF ShownInv, Alike

LEMMA CheckedStays ==
    ASSUME Inv, Grows, NEW r \in Slots, req[r] # Idle, req'[r] = req[r]
    PROVE  Checked(req[r])'
<1>1. Checked(req[r]) /\ req[r].user \in Users /\ req[r].course \in Courses \cup {Nil}
  BY DEF Inv, ReqsInv, ReqInv, Shape, Request
<1>2. Place(req[r].course, req[r].user) => Place(req[r].course, req[r].user)'
  BY <1>1, PlacesStay
<1> QED
  BY <1>1, <1>2 DEF Checked

LEMMA BornStays ==
    ASSUME Inv, Grows, NEW s \in Sets
    PROVE  /\ IsFiniteSet(BornIn(s)) /\ IsFiniteSet(BornIn(s)')
           /\ BornIn(s) \subseteq BornIn(s)'
           /\ Cardinality(BornIn(s)) \in Nat /\ Cardinality(BornIn(s)') \in Nat
           /\ Cardinality(BornIn(s)) <= Cardinality(BornIn(s)')
<1>1. BornIn(s) \subseteq Items /\ BornIn(s)' \subseteq Items
  BY DEF BornIn
<1>2. IsFiniteSet(BornIn(s)) /\ IsFiniteSet(BornIn(s)')
  BY <1>1, ContentAssumption, FS_Subset
<1>3. BornIn(s) \subseteq BornIn(s)'
  BY Kinds DEF BornIn, Grows
<1> QED
  BY <1>2, <1>3, FS_Subset, FS_CardinalityType

LEMMA NewStays ==
    ASSUME Inv, Grows, NEW r \in Slots, req[r] # Idle, req'[r] = req[r]
    PROVE  NewInv(req[r])'
<1> DEFINE q == req[r]
<1>1. NewInv(q) /\ Shape(q) /\ q.id \in IdsOf(q.op) /\ Ordered(q.todo)
  BY DEF Inv, ReqsInv, ReqInv, Shape
<1> SUFFICES ASSUME q.op \in NewOps, Past(q, "write", "reload")
             PROVE  /\ q.id # Nil /\ set'[q.id] # NoRow
                    /\ Head(q.todo) = "child" =>
                         Cardinality(BornIn(q.id)') + Len(q.todo) - 2 >= promised'[q.id]
  BY DEF NewInv, BornIn, Past
<1>2. q.id \in Sets /\ set[q.id] # NoRow
  BY <1>1, IdsAre, Kinds DEF NewInv, NewOps
<1> DEFINE n == Len(q.todo)
           b == Cardinality(BornIn(q.id))
           bb == Cardinality(BornIn(q.id)')
           p == promised[q.id]
<1>3. set'[q.id] # NoRow /\ promised'[q.id] = p
  BY <1>2 DEF Grows
<1>4. n \in Nat /\ b \in Nat /\ bb \in Nat /\ b <= bb /\ p \in Nat
  BY <1>1, <1>2, OrderedHead, BornStays DEF Inv, RowsInv
<1>5. Head(q.todo) = "child" => b + n - 2 >= p
  BY <1>1 DEF NewInv
<1> HIDE DEF n, b, bb, p, q
<1>6. Head(q.todo) = "child" => bb + n - 2 >= p
  BY <1>4, <1>5
<1>7. q.id # Nil
  BY <1>2, Kinds
<1> QED
  BY <1>3, <1>6, <1>7 DEF n, bb

LEMMA SameStays ==
    ASSUME NEW r \in Slots, NEW x \in Rows, NEW old, Same(r, x, old), stale'[r] = stale[r] \cup Changed
    PROVE  Same(r, x, old)'
BY DEF Same, Changed

LEMMA StaleGrows ==
    ASSUME Track, NEW r \in Slots, req[r] # Idle, req'[r] = req[r]
    PROVE  stale'[r] = stale[r] \cup Changed
<1>1. ~ Reads(r) /\ ~ Acts(r) /\ req'[r] # Idle
  BY DEF Reads, Acts
<1> QED
  BY <1>1 DEF Track

LEMMA FreshStays ==
    ASSUME Inv, Track, NEW r \in Slots, req[r] # Idle, req'[r] = req[r]
    PROVE  FreshInv(r)'
<1> DEFINE q == req[r]
<1>1. ReqInv(r) /\ Shape(q) /\ q.id \in IdsOf(q.op) /\ FreshInv(r) /\ ReadInv(q)
  BY DEF Inv, ReqsInv, ReqInv, Shape
<1>2. stale'[r] = stale[r] \cup Changed
  BY StaleGrows
<1>3. \A s, t : Past(q, s, t)' <=> Past(q, s, t)
  BY DEF Past
<1>4. q.op \in CourseOps \cup MaterialOps \cup QuizOps \cup DeckOps \cup QuestionOps \cup CardOps
              \cup AttemptOps \cup SavedGoalOps => q.id \in Rows
  BY <1>1, IdsAre DEF Rows, ContentIds
<1>5. {"UpdateCourse", "UpdateMaterial", "UpdateQuiz", "UpdateFlashcardDeck"}
        \subseteq CourseOps \cup MaterialOps \cup QuizOps \cup DeckOps
  BY DEF CourseOps, MaterialOps, QuizOps, DeckOps
<1>6. \A x \in q.kids : x \in Items => (Same(r, x, q.id) => Same(r, x, q.id)')
  BY <1>2, SameStays DEF Rows, ContentIds
<1>7. \A x \in Rows : RowOf(x).course = q.id \/ x \in stale[r] => RowOf(x)'.course = q.id \/ x \in stale'[r]
  BY <1>2 DEF Changed
<1> HIDE DEF q
<1>8. Past(q, "row", "write") /\ q.op \in {"UpdateCourse", "UpdateMaterial", "UpdateQuiz", "UpdateFlashcardDeck"} =>
        /\ Same(r, q.id, q.copy.row)'
        /\ \A x \in q.kids : /\ x \in Items => Same(r, x, q.id)'
                             /\ x \notin Items => RowOf(x)'.course = q.id \/ x \in stale'[r]
  <2> SUFFICES ASSUME Past(q, "row", "write"),
                      q.op \in {"UpdateCourse", "UpdateMaterial", "UpdateQuiz", "UpdateFlashcardDeck"}
               PROVE  /\ Same(r, q.id, q.copy.row)'
                      /\ \A x \in q.kids : /\ x \in Items => Same(r, x, q.id)'
                                           /\ x \notin Items => RowOf(x)'.course = q.id \/ x \in stale'[r]
    OBVIOUS
  <2>1. Same(r, q.id, q.copy.row) /\ q.id \in Rows
    BY <1>1, <1>4, <1>5 DEF FreshInv, q
  <2>2. Same(r, q.id, q.copy.row)'
    BY <1>2, <2>1, SameStays DEF q
  <2>3. \A x \in q.kids : x \in Rows
    BY <1>1 DEF ReadInv, CourseRead, MaterialRead, SetRead, CourseOps, MaterialOps, QuizOps, DeckOps,
                Rows, ContentIds
  <2>4. \A x \in q.kids : /\ x \in Items => Same(r, x, q.id)
                          /\ x \notin Items => RowOf(x).course = q.id \/ x \in stale[r]
    BY <1>1 DEF FreshInv, q
  <2> QED
    BY <1>6, <1>7, <2>2, <2>3, <2>4
<1> QED
  BY <1>1, <1>2, <1>3, <1>4, <1>8, SameStays DEF FreshInv, q

(* Whoever does not take part in a step keeps the invariant.               *)
LEMMA OthersKeep ==
    ASSUME Inv, Grows, Track, NEW r \in Slots, req[r] # Idle, req'[r] = req[r]
    PROVE  ReqInv(r)'
<1>1. Shape(req[r])'
  BY DEF Inv, ReqsInv, ReqInv, Shape
<1>2. Alike(req[r], req'[r]) /\ req'[r].kids = req[r].kids
  BY DEF Alike
<1> QED
  BY <1>1, <1>2, CheckedStays, ReadStays, ShownStays, NewStays, FreshStays DEF ReqInv

-----------------------------------------------------------------------------
(* The request that takes the step.                                        *)
LEMMA NothingAhead == \A s : s # "answer" => ~ Ahead(<<"answer">>, s)
BY OrderedLast

LEMMA RefusedKeeps ==
    ASSUME Inv, Grows, NEW r \in Slots, req[r] # Idle, NEW e \in Errors, Refuse(r, e)
    PROVE  ReqInv(r)'
<1>1. /\ req'[r] \in Request /\ req'[r].todo = <<"answer">> /\ Alike(req[r], req'[r])
      /\ req'[r].id = req[r].id /\ req'[r].copy = req[r].copy /\ req'[r].kids = req[r].kids
  BY RefuseIs
<1>2. ReqInv(r) /\ Shape(req[r])
  BY DEF Inv, ReqsInv, ReqInv
<1>3. Shape(req[r])'
  BY <1>1, <1>2, ShapeGivesUp
<1>4. Checked(req[r])'
  BY <1>1, NothingAhead DEF Checked
<1>5. ReadInv(req[r])'
  BY <1>1, <1>2, NothingAhead DEF ReadInv, ReqInv, Past, Alike
<1>6. ShownInv(req[r])'
  BY <1>1, ShownStays
<1>7. NewInv(req[r])'
  BY <1>1, NothingAhead DEF NewInv, Past
<1>8. FreshInv(r)'
  BY <1>1, NothingAhead DEF FreshInv, Past
<1> QED
  BY <1>3, <1>4, <1>5, <1>6, <1>7, <1>8 DEF ReqInv

(* A statement is made and the request goes on.                            *)
LEMMA CheckedPasses ==
    ASSUME Inv, Grows, NEW r \in Slots, req[r] # Idle, Head(req[r].todo) # "answer",
           req'[r].todo = Tail(req[r].todo), Alike(req[r], req'[r]),
           Head(req[r].todo) = "course" => Place(req[r].course, req[r].user)
    PROVE  Checked(req[r])'
<1>1. ReqInv(r) /\ Shape(req[r]) /\ Checked(req[r]) /\ Ordered(req[r].todo)
      /\ req[r].user \in Users /\ req[r].course \in Courses \cup {Nil}
  BY DEF Inv, ReqsInv, ReqInv, Shape, Request
<1>2. Place(req[r].course, req[r].user) => Place(req[r].course, req[r].user)'
  BY <1>1, PlacesStay DEF Alike
<1>3. \A s : Ahead(Tail(req[r].todo), s) => Ahead(req[r].todo, s)
  BY <1>1, OrderedTail
<1>4. Ahead(req[r].todo, "course") /\ Head(req[r].todo) # "course" => Ahead(Tail(req[r].todo), "course")
  BY <1>1, OrderedTail
<1> QED
  BY <1>1, <1>2, <1>3, <1>4 DEF Checked, Alike

Reading == {"row", "item", "attempt", "goal", "session"}

LEMMA ReadPasses ==
    ASSUME Inv, Grows, NEW r \in Slots, req[r] # Idle, Head(req[r].todo) \notin {"answer"} \cup Reading,
           req'[r].todo = Tail(req[r].todo), Alike(req[r], req'[r]),
           req'[r].id = req[r].id, req'[r].copy = req[r].copy, req'[r].kids = req[r].kids
    PROVE  ReadInv(req[r])'
<1>1. ReqInv(r) /\ Shape(req[r]) /\ ReadInv(req[r]) /\ Ordered(req[r].todo)
  BY DEF Inv, ReqsInv, ReqInv, Shape
<1>2. \A s : Ahead(Tail(req[r].todo), s) => Ahead(req[r].todo, s)
  BY <1>1, OrderedTail
<1>3. \A s \in Reading : Ahead(req[r].todo, s) => Ahead(Tail(req[r].todo), s)
  BY <1>1, OrderedTail
<1>4. \A s \in Reading : \A t : Past(req[r], s, t)' => Past(req[r], s, t)
  BY <1>2, <1>3 DEF Past
<1>5. Ahead(req[r].todo, "parent")' => Ahead(req[r].todo, "write")'
  <2>1. ASSUME Ahead(Tail(req[r].todo), "parent") PROVE Ahead(Tail(req[r].todo), "write")
    <3>1. Ahead(req[r].todo, "parent") /\ Ahead(req[r].todo, "write")
      BY <1>1, <1>2, <2>1 DEF ReadInv
    <3>2. Head(req[r].todo) # "write"
      BY <1>1, <3>1, OrderedHead DEF Rank
    <3> QED
      BY <1>1, <3>1, <3>2, OrderedTail
  <2> QED
    BY <2>1
<1>6. Ahead(req[r].todo, "mark")' => (req[r].id \in Goals)'
  BY <1>1, <1>2 DEF ReadInv
<1>7. (req[r].op = "GetLearningGoals" => req[r].kids \subseteq Goals)'
  BY <1>1 DEF ReadInv, Alike
<1>8. /\ (Past(req[r], "row", "write") =>
            /\ req[r].op \in CourseOps => CourseRead(req[r])
            /\ req[r].op \in MaterialOps => MaterialRead(req[r])
            /\ req[r].op \in QuizOps \cup DeckOps => SetRead(req[r]))'
      /\ (Past(req[r], "item", "write") /\ req[r].op \in QuestionOps \cup CardOps => ItemRead(req[r]))'
      /\ (Past(req[r], "attempt", "save") /\ req[r].op \in AttemptOps => AttemptRead(req[r]))'
      /\ (Past(req[r], "goal", "save") /\ req[r].op \in SavedGoalOps => GoalRead(req[r]))'
      /\ (Past(req[r], "session", "count") => SessionRead(req[r]))'
  BY <1>1, <1>4, ReadsStay DEF ReadInv, Reading, Alike
<1>9. Ahead(req[r].todo, "count")' => Ahead(req[r].todo, "session")' \/ (Head(req[r].todo) = "count")'
  <2>1. ASSUME Ahead(Tail(req[r].todo), "count") PROVE Ahead(Tail(req[r].todo), "session")
    <3>1. Ahead(req[r].todo, "count") /\ Head(req[r].todo) # "count"
      BY <1>1, <1>2, <2>1, OrderedTail
    <3>2. Ahead(req[r].todo, "session")
      BY <1>1, <3>1 DEF ReadInv
    <3> QED
      BY <1>3, <3>2 DEF Reading
  <2> QED
    BY <2>1
<1> QED
  BY <1>5, <1>6, <1>7, <1>8, <1>9 DEF ReadInv

LEMMA StaleKeeps ==
    ASSUME Track, NEW r \in Slots, req[r] # Idle, req'[r] # Idle, req'[r].todo # req[r].todo,
           req'[r].copy = req[r].copy, req'[r].kids = req[r].kids
    PROVE  stale'[r] = stale[r]
<1>1. ~ Reads(r) /\ Acts(r)
  BY DEF Reads, Acts
<1> QED
  BY <1>1 DEF Track

LEMMA FreshPasses ==
    ASSUME Inv, Track, NEW r \in Slots, req[r] # Idle, req'[r] # Idle,
           Head(req[r].todo) \notin {"answer"} \cup Reading,
           req'[r].todo = Tail(req[r].todo), Alike(req[r], req'[r]),
           req'[r].id = req[r].id, req'[r].copy = req[r].copy, req'[r].kids = req[r].kids,
           Head(req[r].todo) \in {"write", "save"} \/ \A x : RowOf(x)' = RowOf(x)
    PROVE  FreshInv(r)'
<1>1. ReqInv(r) /\ Shape(req[r]) /\ FreshInv(r) /\ Ordered(req[r].todo)
  BY DEF Inv, ReqsInv, ReqInv, Shape
<1>2. \A s : Ahead(Tail(req[r].todo), s) => Ahead(req[r].todo, s)
  BY <1>1, OrderedTail
<1>3. \A s \in Reading : Ahead(req[r].todo, s) => Ahead(Tail(req[r].todo), s)
  BY <1>1, OrderedTail
<1>4. \A s \in Reading : \A t : Past(req[r], s, t)' => Past(req[r], s, t)
  BY <1>2, <1>3 DEF Past
<1>5. CASE Head(req[r].todo) \in {"write", "save"}
  <2>1. ~ Ahead(Tail(req[r].todo), "write") /\ ~ Ahead(Tail(req[r].todo), "save")
    <3>1. Rank("write") = 3 /\ Rank("save") = 3
      BY DEF Rank
    <3>2. \A s \in {"write", "save"} : Ahead(req[r].todo, s) => s = Head(req[r].todo)
      BY <1>1, <1>5, <3>1, OrderedHead
    <3> QED
      BY <1>1, <1>2, <1>5, <3>2, OrderedTail
  <2> QED
    BY <2>1 DEF FreshInv, Past
<1>6. CASE \A x : RowOf(x)' = RowOf(x)
  <2>1. stale'[r] = stale[r]
    BY <1>1, OrderedTail, StaleKeeps
  <2>2. \A x, old : Same(r, x, old) => Same(r, x, old)'
    BY <1>6, <2>1 DEF Same
  <2> QED
    BY <1>1, <1>4, <1>6, <2>1, <2>2 DEF FreshInv, Reading, Alike, Same
<1> QED
  BY <1>5, <1>6

LEMMA PassedKeeps ==
    ASSUME Inv, Grows, Track, NEW r \in Slots, req[r] # Idle, Pass(r, req[r]),
           Head(req[r].todo) \notin {"answer"} \cup Reading,
           Head(req[r].todo) = "course" => Place(req[r].course, req[r].user),
           Head(req[r].todo) \in {"write", "save"} \/ \A x : RowOf(x)' = RowOf(x),
           req[r].op \in NewOps => NewInv(req[r])'
    PROVE  ReqInv(r)'
<1>1. ReqInv(r) /\ Shape(req[r]) /\ req[r] \in Request /\ Ordered(req[r].todo) /\ req[r].id \in IdsOf(req[r].op)
  BY DEF Inv, ReqsInv, ReqInv, Shape
<1>2. /\ req'[r] \in Request /\ req'[r] # Idle /\ req'[r].todo = Tail(req[r].todo) /\ Alike(req[r], req'[r])
      /\ req'[r].id = req[r].id /\ req'[r].copy = req[r].copy /\ req'[r].kids = req[r].kids
  BY <1>1, PassIs
<1>3. Shape(req[r])'
  BY <1>1, <1>2, ShapePasses
<1>4. Checked(req[r])' /\ ReadInv(req[r])' /\ ShownInv(req[r])' /\ FreshInv(r)'
  BY <1>2, CheckedPasses, ReadPasses, ShownStays, FreshPasses
<1>5. NewInv(req[r])'
  BY <1>2 DEF NewInv, Alike
<1> QED
  BY <1>3, <1>4, <1>5 DEF ReqInv

-----------------------------------------------------------------------------
(* Statements that change no row.                                          *)
Calm == UNCHANGED <<course, material, set, item, born, promised, attempt, goal, today>>

LEMMA CalmGrows == ASSUME Inv, Calm PROVE Grows /\ \A x : RowOf(x)' = RowOf(x)
<1>1. \A x : RowOf(x)' = RowOf(x)
  BY DEF Calm, RowOf
<1>2. Grows
  BY DEF Calm, Grows
<1> QED
  BY <1>1, <1>2

LEMMA OpsAre ==
    ASSUME NEW q, Shape(q), NEW s, s # "answer", Ahead(q.todo, s)
    PROVE  q.op \in OpsOf(s)
BY DEF Shape, Ahead

LEMMA OpsOfAre ==
    /\ OpsOf("row") = CourseOps \cup MaterialOps \cup QuizOps \cup DeckOps
    /\ OpsOf("item") = QuestionOps \cup CardOps /\ OpsOf("parent") = QuestionOps \cup CardOps
    /\ OpsOf("attempt") = AttemptOps /\ OpsOf("goal") = GoalOps
    /\ OpsOf("goals") = {"GetLearningGoals"} /\ OpsOf("progress") = {"GetLearningGoals"}
    /\ OpsOf("list") = ListOps /\ OpsOf("session") = SessionOps /\ OpsOf("count") = SessionOps
    /\ OpsOf("child") = NewOps /\ OpsOf("reload") = NewOps
    /\ OpsOf("mark") = {"CompleteLearningGoal", "GetLearningGoals"}
    /\ OpsOf("save") = {"StartQuizAttempt", "CreateLearningGoal"} \cup AttemptOps \cup SavedGoalOps
    /\ OpsOf("write") = {"CreateCourse", "CreateMaterial"} \cup NewOps \cup CourseOps \cup MaterialOps
                        \cup QuizOps \cup DeckOps \cup QuestionOps \cup CardOps
BY DEF OpsOf

(* An operation of one kind is none of another.                            *)
LEMMA OpsApart ==
    /\ \A op \in CourseOps \cup MaterialOps \cup QuizOps \cup DeckOps \cup QuestionOps \cup CardOps :
         op \notin AttemptOps \cup GoalOps \cup SessionOps \cup NewOps \cup ListOps
                   \cup {"GetLearningGoals", "StartQuizAttempt", "CreateLearningGoal", "CreateCourse", "CreateMaterial"}
    /\ \A op \in CourseOps \cup MaterialOps \cup QuizOps \cup DeckOps : op \notin QuestionOps \cup CardOps
    /\ \A op \in CourseOps : op \notin MaterialOps \cup QuizOps \cup DeckOps
    /\ \A op \in MaterialOps : op \notin QuizOps \cup DeckOps
    /\ \A op \in AttemptOps : op \notin GoalOps \cup NewOps \cup ListOps \cup {"GetLearningGoals"}
    /\ \A op \in SessionOps : op \notin GoalOps \cup NewOps \cup ListOps \cup {"GetLearningGoals"}
    /\ \A op \in GoalOps : op \notin NewOps \cup ListOps \cup {"GetLearningGoals"}
    /\ \A op \in NewOps \cup ListOps : op \notin {"GetLearningGoals", "StartQuizAttempt", "CreateLearningGoal"}
    /\ \A op \in ListOps : op \notin NewOps
    /\ \A op \in Shows : op \in CourseOps \cup QuizOps \cup DeckOps \cup ListOps
    /\ SavedGoalOps \subseteq GoalOps /\ AttemptOps \cap {"StartQuizAttempt"} = {}
BY DEF CourseOps, MaterialOps, QuizOps, DeckOps, QuestionOps, CardOps, AttemptOps, GoalOps, SavedGoalOps,
       SessionOps, NewOps, ListOps, Shows

(* What a read leaves of a request.                                        *)
HasRead(r, c, k) ==
    /\ Shape(req[r])' /\ Checked(req[r])' /\ NewInv(req[r])' /\ Alike(req[r], req'[r])
    /\ req'[r].id = req[r].id /\ req'[r].copy = c /\ req'[r].kids = k
    /\ req'[r].todo = Tail(req[r].todo)
    /\ \A s \in Slots \ {r} : req'[s] = req[s]
    /\ req' \in [Slots -> Request \cup {Idle}]
    /\ Ordered(req[r].todo) /\ req[r].id \in IdsOf(req[r].op)
    /\ req[r].op \in OpsOf(Head(req[r].todo)) /\ req[r].op \notin NewOps
    /\ \A s : Ahead(req'[r].todo, s) => Ahead(req[r].todo, s)
    /\ \A s : s # "answer" /\ Ahead(req[r].todo, s) => req[r].op \in OpsOf(s)
    /\ Ahead(req'[r].todo, "parent") => Ahead(req'[r].todo, "write")
    /\ Ahead(req'[r].todo, "count") => Ahead(req[r].todo, "session")

LEMMA ReadingIs ==
    ASSUME Inv, Calm, Track, NEW r \in Slots, req[r] # Idle, Head(req[r].todo) \in Reading \cup {"list", "goals"},
           NEW c \in Copies, NEW k \in SUBSET (Rows \cup (Answers \X Questions)),
           Pass(r, [req[r] EXCEPT !.copy = c, !.kids = k])
    PROVE  HasRead(r, c, k)
<1>1. ReqInv(r) /\ Shape(req[r]) /\ req[r] \in Request /\ Ordered(req[r].todo) /\ req[r].id \in IdsOf(req[r].op)
  BY DEF Inv, ReqsInv, ReqInv, Shape
<1> DEFINE q == [req[r] EXCEPT !.copy = c, !.kids = k]
<1>2. /\ q \in Request /\ q.todo = req[r].todo /\ Alike(req[r], q) /\ q.id = req[r].id
      /\ q.copy = c /\ q.kids = k
  BY <1>1 DEF Request, Alike
<1>3. Head(req[r].todo) # "answer" /\ Head(req[r].todo) # "course" /\ Head(req[r].todo) # "write"
  BY DEF Reading
<1> HIDE DEF q
<1>4. /\ req'[r] \in Request /\ req'[r].todo = Tail(q.todo) /\ Alike(q, req'[r])
      /\ req'[r].id = q.id /\ req'[r].copy = q.copy /\ req'[r].kids = q.kids
      /\ \A s \in Slots \ {r} : req'[s] = req[s]
      /\ req' \in [Slots -> Request \cup {Idle}]
  BY <1>1, <1>2, <1>3, PassIs DEF q
<1>5. Alike(req[r], req'[r]) /\ req'[r].todo = Tail(req[r].todo) /\ req'[r].id = req[r].id
  BY <1>2, <1>4 DEF Alike
<1>6. Shape(req[r])'
  BY <1>1, <1>3, <1>4, <1>5, ShapePasses
<1>7. Checked(req[r])'
  BY <1>3, <1>5, CalmGrows, CheckedPasses
<1>8. \A s : s # "answer" /\ Ahead(req[r].todo, s) => req[r].op \in OpsOf(s)
  BY <1>1, OpsAre
<1>9. req[r].op \in OpsOf(Head(req[r].todo))
  BY <1>1, <1>3, <1>8, OrderedHead
<1>10. req[r].op \notin NewOps
  BY <1>9, OpsOfAre, OpsApart DEF Reading
<1>11. NewInv(req[r])'
  BY <1>5, <1>10 DEF NewInv, Alike
<1>12. \A s : Ahead(req'[r].todo, s) => Ahead(req[r].todo, s)
  BY <1>1, <1>3, <1>5, OrderedTail
<1>13. Ahead(req'[r].todo, "parent") => Ahead(req'[r].todo, "write")
  <2>1. Ahead(req[r].todo, "parent") => Ahead(req[r].todo, "write")
    BY <1>1 DEF ReqInv, ReadInv
  <2> QED
    BY <1>1, <1>3, <1>5, <1>12, <2>1, OrderedTail
<1>14. Ahead(req'[r].todo, "count") => Ahead(req[r].todo, "session")
  <2>1. Ahead(req[r].todo, "count") => Ahead(req[r].todo, "session") \/ Head(req[r].todo) = "count"
    BY <1>1 DEF ReqInv, ReadInv
  <2>2. Head(req[r].todo) # "count"
    BY DEF Reading
  <2> QED
    BY <1>12, <2>1, <2>2
<1> QED
  BY <1>1, <1>2, <1>4, <1>5, <1>6, <1>7, <1>8, <1>9, <1>10, <1>11, <1>12, <1>13, <1>14 DEF HasRead

-----------------------------------------------------------------------------
(* One request takes the step.                                             *)
OneActs(r) ==
    /\ \A s \in Slots \ {r} : req'[s] = req[s]
    /\ req' \in [Slots -> Request \cup {Idle}]
    /\ served' \in Nat /\ faults' \in Nat
    /\ req'[r] # Idle => ReqInv(r)'

LEMMA WorksIs == ASSUME Inv, Works PROVE served' \in Nat /\ faults' \in Nat
BY DEF Inv, RowsInv, Works

LEMMA RefuseActs ==
    ASSUME Inv, Grows, NEW r \in Slots, req[r] # Idle, NEW e \in Errors, Refuse(r, e),
           served' \in Nat, faults' \in Nat
    PROVE  OneActs(r)
BY RefuseIs, RefusedKeeps DEF OneActs

LEMMA FailsActs ==
    ASSUME Inv, Grows, NEW r \in Slots, req[r] # Idle, NEW e \in Errors, Fails(r, e)
    PROVE  OneActs(r)
<1>1. served' \in Nat /\ faults' \in Nat /\ Refuse(r, e)
  BY DEF Fails, Inv, RowsInv
<1> QED
  BY <1>1, RefuseActs

LEMMA PassActs ==
    ASSUME Inv, Grows, Track, NEW r \in Slots, req[r] # Idle, Pass(r, req[r]),
           served' \in Nat, faults' \in Nat,
           Head(req[r].todo) \notin {"answer"} \cup Reading,
           Head(req[r].todo) = "course" => Place(req[r].course, req[r].user),
           Head(req[r].todo) \in {"write", "save"} \/ \A x : RowOf(x)' = RowOf(x),
           req[r].op \in NewOps => NewInv(req[r])'
    PROVE  OneActs(r)
<1>1. req[r] \in Request /\ Ordered(req[r].todo)
  BY DEF Inv, ReqsInv, ReqInv, Shape
<1> QED
  BY <1>1, PassIs, PassedKeeps DEF OneActs

(* Reads that keep the row: what the rows of each kind look like.          *)
LEMMA OwnedIs ==
    ASSUME NEW row, NEW u, NEW e, e # "ok", Owned(row, u, e) = "ok"
    PROVE  row.st = "live" /\ row.owner = u /\ Live(row) /\ Of(row, u)
BY DEF Owned, Live, Of

LEMMA RowsAre ==
    ASSUME Inv
    PROVE  /\ \A c \in Courses : course[c] # NoRow => course[c] \in CourseRows
           /\ \A m \in Materials : material[m] # NoRow => material[m] \in MaterialRows
           /\ \A s \in Sets : set[s] # NoRow => set[s] \in SetRows
           /\ \A a \in Attempts : attempt[a] # NoRow => attempt[a] \in AttemptRows
           /\ \A g \in Goals : goal[g] # NoRow => goal[g] \in GoalRows
           /\ \A i \in Items : item[i] # Nil => item[i] \in Sets /\ born[i] = item[i]
           /\ \A i \in Items : born[i] # Nil => born[i] \in Sets /\ set[born[i]] # NoRow
           /\ \A row : Live(row) => row # NoRow
           /\ \A row : \A u : Of(row, u) => row # NoRow
BY DEF Inv, RowsInv, ItemsInv, Live, Of, NoRow

(* A row points to a course of its owner.                                  *)
LEMMA PointsHome ==
    ASSUME Inv
    PROVE  /\ \A m \in Materials, c \in Courses : \A u :
                Live(material[m]) /\ material[m].course = c /\ Of(course[c], u) => Of(material[m], u)
           /\ \A s \in Sets, c \in Courses : \A u :
                Live(set[s]) /\ set[s].course = c /\ Of(course[c], u) => Of(set[s], u)
<1>1. ASSUME NEW m \in Materials, NEW c \in Courses, NEW u,
             Live(material[m]), material[m].course = c, Of(course[c], u)
      PROVE  Of(material[m], u)
  <2>1. c # Nil /\ material[m] # NoRow
    BY <1>1, Kinds, RowsAre
  <2>2. Of(course[c], material[m].owner)
    BY <1>1, <2>1 DEF Inv, PlacesInv, Place
  <2> QED
    BY <1>1, <2>2 DEF Of, Live
<1>2. ASSUME NEW s \in Sets, NEW c \in Courses, NEW u,
             Live(set[s]), set[s].course = c, Of(course[c], u)
      PROVE  Of(set[s], u)
  <2>1. c # Nil /\ set[s] # NoRow
    BY <1>2, Kinds, RowsAre
  <2>2. Of(course[c], set[s].owner)
    BY <1>2, <2>1 DEF Inv, PlacesInv, Place
  <2> QED
    BY <1>2, <2>2 DEF Of, Live
<1> QED
  BY <1>1, <1>2

LEMMA CourseRowIs ==
    ASSUME NEW row \in CourseRows, NEW u, row.st = "live", row.owner = u
    PROVE  row = CourseRow(u)
BY DEF CourseRows, CourseRow

(* A request that has read its row has not read anything else.             *)
LEMMA RowReads ==
    ASSUME NEW r, NEW op, NEW t, req'[r].op = op, req'[r].todo = t,
           op \in CourseOps \cup MaterialOps \cup QuizOps \cup DeckOps,
           \A s : s # "answer" /\ Ahead(t, s) => op \in OpsOf(s),
           Ahead(t, "parent") => Ahead(t, "write"),
           op \in CourseOps => CourseRead(req[r])', op \in MaterialOps => MaterialRead(req[r])',
           op \in QuizOps \cup DeckOps => SetRead(req[r])'
    PROVE  ReadInv(req[r])'
<1>1. op \notin QuestionOps \cup CardOps \cup AttemptOps \cup SavedGoalOps \cup {"GetLearningGoals"}
  BY OpsApart
<1>2. ~ Ahead(t, "count") /\ ~ Ahead(t, "mark")
  <2>1. op \notin OpsOf("count") /\ op \notin OpsOf("mark")
    BY OpsOfAre, OpsApart DEF GoalOps
  <2> QED
    BY <2>1
<1> HIDE DEF CourseOps, MaterialOps, QuizOps, DeckOps
<1> QED
  BY <1>1, <1>2 DEF ReadInv, Past

LEMMA ReadCourseKeeps ==
    ASSUME Inv, Calm, Track, NEW r \in Slots, Doing(r, "row"), req[r].op \in CourseOps,
           Get(req[r].user, req[r].id) = "ok",
           Pass(r, [req[r] EXCEPT !.copy = Copy(req[r].id), !.kids = Kids(req[r].id)])
    PROVE  ReqInv(r)'
<1> PICK x, u, c, k : x = req[r].id /\ u = req[r].user /\ c = Copy(req[r].id) /\ k = Kids(req[r].id)
  OBVIOUS
<1>1. /\ req[r] # Idle /\ Head(req[r].todo) = "row" /\ x \in IdsOf(req[r].op) /\ u \in Users
      /\ Ordered(req[r].todo)
  BY DoingIs DEF Shape, Request
<1>2. x \in Courses
  BY <1>1, IdsAre
<1>3. Get(u, x) = GetCourse(u, x) /\ c = [row |-> course[x]] /\ k = CourseKids(x)
  BY <1>2, Kinds DEF Get, Copy, Kids
<1>4. Live(course[x]) /\ Of(course[x], u) /\ course[x].st = "live" /\ course[x].owner = u
  BY <1>3 DEF GetCourse, Owned, Live, Of
<1>5. course[x] \in CourseRows /\ course[x] = CourseRow(u)
  BY <1>2, <1>4, RowsAre, CourseRowIs
<1>6. c \in Copies
  BY <1>3, <1>5 DEF Copies
<1>7. \A y \in k : \/ y \in Materials /\ Of(material[y], u) /\ material[y].course = x
                   \/ y \in Sets /\ Of(set[y], u) /\ set[y].course = x
  BY <1>2, <1>3, <1>4, PointsHome DEF CourseKids
<1>8. k \in SUBSET (Rows \cup (Answers \X Questions))
  BY <1>7 DEF Rows, ContentIds
<1>9. /\ Shape(req[r])' /\ Checked(req[r])' /\ NewInv(req[r])' /\ Alike(req[r], req'[r])
      /\ req'[r].id = x /\ req'[r].copy = c /\ req'[r].kids = k /\ req'[r].todo = Tail(req[r].todo)
      /\ \A s : Ahead(req'[r].todo, s) => Ahead(req[r].todo, s)
      /\ \A s : s # "answer" /\ Ahead(req[r].todo, s) => req[r].op \in OpsOf(s)
      /\ Ahead(req'[r].todo, "parent") => Ahead(req'[r].todo, "write")
  <2>1. HasRead(r, c, k)
    BY <1>1, <1>6, <1>8, ReadingIs DEF Reading
  <2> QED
    BY <2>1, Zenon DEF HasRead
<1>10. req'[r].user = u /\ req'[r].op = req[r].op
  BY <1>9 DEF Alike
<1>11. CourseRead(req[r])'
  BY <1>3, <1>4, <1>5, <1>7, <1>9, <1>10 DEF CourseRead, Calm
<1>12. ReadInv(req[r])'
  <2>1. req'[r].op \notin MaterialOps \cup QuizOps \cup DeckOps
    BY <1>10, OpsApart
  <2> QED
    BY <1>9, <1>10, <1>11, <2>1, RowReads
<1>13. \A y \in k : y \notin Items /\ Of(RowOf(y)', u) /\ y \in Materials \cup Sets /\ RowOf(y)'.course = x
  BY <1>7, RowOfAfter, Kinds DEF Calm
<1>14. ShownInv(req[r])'
  BY <1>9, <1>10, <1>13 DEF ShownInv
<1>15. RowOf(x)' = course[x]
  BY <1>2, RowOfAfter DEF Calm
<1>16. FreshInv(r)'
  BY <1>3, <1>9, <1>10, <1>13, <1>15, OpsApart DEF FreshInv, Same
<1> QED
  BY <1>9, <1>12, <1>14, <1>16 DEF ReqInv

LEMMA LiveOrNilIs ==
    ASSUME Inv, NEW d \in Courses \cup {Nil}, NEW u, Place(d, u)
    PROVE  LiveOrNil(d, course) \in Courses \cup {Nil} /\ Place(LiveOrNil(d, course), u)
BY DEF LiveOrNil, Place

LEMMA ReadMaterialKeeps ==
    ASSUME Inv, Calm, Track, NEW r \in Slots, Doing(r, "row"), req[r].op \in MaterialOps,
           Get(req[r].user, req[r].id) = "ok",
           Pass(r, [req[r] EXCEPT !.copy = Copy(req[r].id), !.kids = Kids(req[r].id)])
    PROVE  ReqInv(r)'
<1> PICK x, u, c, k : x = req[r].id /\ u = req[r].user /\ c = Copy(req[r].id) /\ k = Kids(req[r].id)
  OBVIOUS
<1>1. /\ req[r] # Idle /\ Head(req[r].todo) = "row" /\ x \in IdsOf(req[r].op) /\ u \in Users
      /\ Ordered(req[r].todo)
  BY DoingIs DEF Shape, Request
<1>2. x \in Materials
  BY <1>1, IdsAre
<1>3. Get(u, x) = GetMaterial(u, x) /\ c = MaterialCopy(x) /\ k = {}
  BY <1>2, Kinds DEF Get, Copy, Kids
<1>4. Live(material[x]) /\ Of(material[x], u) /\ material[x].st = "live" /\ material[x].owner = u
  BY <1>3 DEF GetMaterial, Owned, Live, Of
<1>5. material[x] \in MaterialRows /\ Place(material[x].course, u) /\ material[x].course \in Courses \cup {Nil}
  BY <1>2, <1>4, RowsAre DEF Inv, PlacesInv, MaterialRows
<1>6. /\ c \in [row : MaterialRows, course : Courses \cup {Nil}] /\ c.row = material[x]
      /\ Place(c.course, u) /\ Place(c.row.course, u)
  BY <1>3, <1>5, LiveOrNilIs DEF MaterialCopy
<1>7. c \in Copies
  BY <1>6 DEF Copies
<1>81. Head(req[r].todo) \in Reading \cup {"list", "goals"} /\ k \in SUBSET (Rows \cup (Answers \X Questions))
      /\ Pass(r, [req[r] EXCEPT !.copy = c, !.kids = k])
  BY <1>1, <1>3 DEF Reading
<1>9. /\ Shape(req[r])' /\ Checked(req[r])' /\ NewInv(req[r])' /\ Alike(req[r], req'[r])
      /\ req'[r].id = x /\ req'[r].copy = c /\ req'[r].kids = k /\ req'[r].todo = Tail(req[r].todo)
      /\ \A s : Ahead(req'[r].todo, s) => Ahead(req[r].todo, s)
      /\ \A s : s # "answer" /\ Ahead(req[r].todo, s) => req[r].op \in OpsOf(s)
      /\ Ahead(req'[r].todo, "parent") => Ahead(req'[r].todo, "write")
  <2>1. HasRead(r, c, k)
    BY <1>1, <1>7, <1>81, ReadingIs
  <2> QED
    BY <2>1, Zenon DEF HasRead
<1>10. req'[r].user = u /\ req'[r].op = req[r].op
  BY <1>9 DEF Alike
<1>11. MaterialRead(req[r])'
  BY <1>3, <1>4, <1>5, <1>6, <1>9, <1>10 DEF MaterialRead, Calm, Place
<1>12. ReadInv(req[r])'
  <2>1. req'[r].op \notin CourseOps \cup QuizOps \cup DeckOps
    BY <1>10, OpsApart
  <2> QED
    BY <1>9, <1>10, <1>11, <2>1, RowReads
<1>14. ShownInv(req[r])'
  BY <1>3, <1>9 DEF ShownInv
<1>15. RowOf(x)' = material[x]
  BY <1>2, RowOfAfter DEF Calm
<1>16. FreshInv(r)'
  BY <1>3, <1>6, <1>9, <1>10, <1>15, OpsApart DEF FreshInv, Same
<1> QED
  BY <1>9, <1>12, <1>14, <1>16 DEF ReqInv

LEMMA ReadSetKeeps ==
    ASSUME Inv, Calm, Track, NEW r \in Slots, Doing(r, "row"), req[r].op \in QuizOps \cup DeckOps,
           Get(req[r].user, req[r].id) = "ok",
           Pass(r, [req[r] EXCEPT !.copy = Copy(req[r].id), !.kids = Kids(req[r].id)])
    PROVE  ReqInv(r)'
<1> PICK x, u, c, k : x = req[r].id /\ u = req[r].user /\ c = Copy(req[r].id) /\ k = Kids(req[r].id)
  OBVIOUS
<1>1. /\ req[r] # Idle /\ Head(req[r].todo) = "row" /\ x \in IdsOf(req[r].op) /\ u \in Users
      /\ Ordered(req[r].todo)
  BY DoingIs DEF Shape, Request
<1>2. x \in Sets /\ (x \in Quizzes \/ x \in Decks)
  BY <1>1, IdsAre
<1>3. c = SetCopy(x) /\ k = SetKids(x)
  BY <1>2, Kinds DEF Copy, Kids
<1>4. Live(set[x]) /\ Of(set[x], u) /\ set[x].st = "live" /\ set[x].owner = u
  <2>1. Get(u, x) = GetQuiz(u, x) \/ Get(u, x) = GetFlashcardDeck(u, x)
    BY <1>2, Kinds DEF Get
  <2> QED
    BY <2>1 DEF GetQuiz, GetFlashcardDeck, Owned, Live, Of
<1>5. /\ set[x] \in SetRows /\ Place(set[x].course, u) /\ set[x].course \in Courses \cup {Nil}
      /\ set[x].material \in Materials \cup {Nil}
  BY <1>2, <1>4, RowsAre DEF Inv, PlacesInv, SetRows
<1>6. /\ c \in [row : SetRows, course : Courses \cup {Nil}, material : Materials \cup {Nil}] /\ c.row = set[x]
      /\ Place(c.course, u) /\ Place(c.row.course, u)
  <2>1. LiveOrNil(set[x].material, material) \in Materials \cup {Nil}
    BY <1>5 DEF LiveOrNil
  <2> QED
    BY <1>3, <1>5, <2>1, LiveOrNilIs DEF SetCopy
<1>7. c \in Copies
  BY <1>6 DEF Copies
<1>8. /\ \A i \in k : i \in Items /\ item[i] = x /\ born[i] = x /\ born[i] # Nil
      /\ k \in SUBSET (Rows \cup (Answers \X Questions))
  BY <1>2, <1>3, RowsAre, Kinds DEF SetKids, Rows, ContentIds
<1>81. Head(req[r].todo) \in Reading \cup {"list", "goals"} /\ k \in SUBSET (Rows \cup (Answers \X Questions))
      /\ Pass(r, [req[r] EXCEPT !.copy = c, !.kids = k])
  BY <1>1, <1>3, <1>8 DEF Reading
<1>9. /\ Shape(req[r])' /\ Checked(req[r])' /\ NewInv(req[r])' /\ Alike(req[r], req'[r])
      /\ req'[r].id = x /\ req'[r].copy = c /\ req'[r].kids = k /\ req'[r].todo = Tail(req[r].todo)
      /\ \A s : Ahead(req'[r].todo, s) => Ahead(req[r].todo, s)
      /\ \A s : s # "answer" /\ Ahead(req[r].todo, s) => req[r].op \in OpsOf(s)
      /\ Ahead(req'[r].todo, "parent") => Ahead(req'[r].todo, "write")
  <2>1. HasRead(r, c, k)
    BY <1>1, <1>7, <1>81, ReadingIs
  <2> QED
    BY <2>1, Zenon DEF HasRead
<1>10. req'[r].user = u /\ req'[r].op = req[r].op
  BY <1>9 DEF Alike
<1>11. SetRead(req[r])'
  BY <1>4, <1>5, <1>6, <1>8, <1>9, <1>10 DEF SetRead, Calm, Place
<1>12. ReadInv(req[r])'
  <2>1. req'[r].op \notin CourseOps \cup MaterialOps
    BY <1>10, OpsApart
  <2> QED
    BY <1>9, <1>10, <1>11, <2>1, RowReads
<1>14. ShownInv(req[r])'
  BY <1>4, <1>8, <1>9, <1>10 DEF ShownInv, Calm
<1>15. RowOf(x)' = set[x] /\ \A i \in k : RowOf(i)' = x
  BY <1>2, <1>8, RowOfAfter DEF Calm
<1>16. FreshInv(r)'
  BY <1>6, <1>8, <1>9, <1>10, <1>15, OpsApart DEF FreshInv, Same
<1> QED
  BY <1>9, <1>12, <1>14, <1>16 DEF ReqInv

LEMMA PassReads ==
    ASSUME Inv, NEW r \in Slots, NEW s, Doing(r, s), s # "answer", NEW c \in Copies,
           NEW k \in SUBSET (Rows \cup (Answers \X Questions)),
           Pass(r, [req[r] EXCEPT !.copy = c, !.kids = k])
    PROVE  /\ \A z \in Slots \ {r} : req'[z] = req[z]
           /\ req' \in [Slots -> Request \cup {Idle}]
<1> DEFINE q == [req[r] EXCEPT !.copy = c, !.kids = k]
<1>1. req[r] \in Request /\ Ordered(req[r].todo) /\ Head(req[r].todo) = s
  BY DoingIs
<1>2. q \in Request /\ q.todo = req[r].todo
  BY <1>1 DEF Request
<1> HIDE DEF q
<1>3. Pass(r, q)
  BY DEF q
<1> QED
  BY <1>1, <1>2, <1>3, PassIs

LEMMA CopyIs ==
    ASSUME Inv, NEW u, NEW x \in Courses \cup Materials \cup Sets, Get(u, x) = "ok"
    PROVE  Copy(x) \in Copies /\ Kids(x) \in SUBSET (Rows \cup (Answers \X Questions))
<1>1. CASE x \in Courses
  <2>1. Get(u, x) = GetCourse(u, x) /\ Copy(x) = [row |-> course[x]] /\ Kids(x) = CourseKids(x)
    BY <1>1, Kinds DEF Get, Copy, Kids
  <2>2. course[x] \in CourseRows
    BY <1>1, <2>1, RowsAre DEF GetCourse, Owned, Live, Of
  <2> QED
    BY <2>1, <2>2 DEF Copies, CourseKids, Rows, ContentIds
<1>2. CASE x \in Materials
  <2>1. Get(u, x) = GetMaterial(u, x) /\ Copy(x) = MaterialCopy(x) /\ Kids(x) = {}
    BY <1>2, Kinds DEF Get, Copy, Kids
  <2>2. material[x] \in MaterialRows
    BY <1>2, <2>1, RowsAre DEF GetMaterial, Owned, Live, Of
  <2>3. LiveOrNil(material[x].course, course) \in Courses \cup {Nil}
    BY <2>2 DEF LiveOrNil, MaterialRows
  <2> QED
    BY <2>1, <2>2, <2>3 DEF Copies, MaterialCopy
<1>3. CASE x \in Sets
  <2>1. Get(u, x) = GetQuiz(u, x) \/ Get(u, x) = GetFlashcardDeck(u, x)
    BY <1>3, Kinds DEF Get, Sets
  <2>2. Copy(x) = SetCopy(x) /\ Kids(x) = SetKids(x)
    BY <1>3, Kinds DEF Copy, Kids
  <2>3. set[x] \in SetRows
    BY <1>3, <2>1, RowsAre DEF GetQuiz, GetFlashcardDeck, Owned, Live, Of
  <2>4. LiveOrNil(set[x].course, course) \in Courses \cup {Nil} /\ LiveOrNil(set[x].material, material) \in Materials \cup {Nil}
    BY <2>3 DEF LiveOrNil, SetRows
  <2> QED
    BY <2>2, <2>3, <2>4 DEF Copies, SetCopy, SetKids, Rows, ContentIds
<1> QED
  BY <1>1, <1>2, <1>3

LEMMA OwnedSays == ASSUME NEW row, NEW u, NEW e \in Errors PROVE Owned(row, u, e) \in Errors
BY DEF Owned, Errors

LEMMA GetIs ==
    ASSUME NEW u, NEW x \in Courses \cup Materials \cup Sets
    PROVE  Get(u, x) \in Errors
<1>1. "no course" \in Errors /\ "no material" \in Errors /\ "no quiz" \in Errors /\ "no flashcard" \in Errors
  BY DEF Errors
<1>2. CASE x \in Courses
  <2>1. Get(u, x) = GetCourse(u, x)
    BY <1>2, Kinds DEF Get
  <2> QED
    BY <1>1, <2>1, OwnedSays DEF GetCourse
<1>3. CASE x \in Materials
  <2>1. Get(u, x) = GetMaterial(u, x)
    BY <1>3, Kinds DEF Get
  <2> QED
    BY <1>1, <2>1, OwnedSays DEF GetMaterial
<1>4. CASE x \in Sets
  <2>1. Get(u, x) = GetQuiz(u, x) \/ Get(u, x) = GetFlashcardDeck(u, x)
    BY <1>4, Kinds DEF Get, Sets
  <2> QED
    BY <1>1, <2>1, OwnedSays DEF GetQuiz, GetFlashcardDeck
<1> QED
  BY <1>2, <1>3, <1>4

LEMMA MissingIs == \A x : Missing(x) \in Errors
BY DEF Missing, Errors

LEMMA ReadRowActs ==
    ASSUME Inv, Calm, Track, NEW r \in Slots, ReadRow(r)
    PROVE  OneActs(r)
<1>1. /\ req[r] # Idle /\ Doing(r, "row") /\ req[r].id \in IdsOf(req[r].op)
      /\ req[r].op \in CourseOps \cup MaterialOps \cup QuizOps \cup DeckOps
  BY DoingIs, OpsAre, OpsOfAre DEF ReadRow, Shape
<1>2. req[r].id \in Courses \cup Materials \cup Sets
  BY <1>1, IdsAre
<1>3. Get(req[r].user, req[r].id) \in Errors /\ Missing(req[r].id) \in Errors
  BY <1>2, GetIs, MissingIs
<1>4. Grows
  BY CalmGrows
<1>5. CASE Fails(r, Missing(req[r].id))
  BY <1>1, <1>3, <1>4, <1>5, FailsActs
<1>6. CASE Works /\ Get(req[r].user, req[r].id) # "ok" /\ Refuse(r, Get(req[r].user, req[r].id))
  BY <1>1, <1>3, <1>4, <1>6, RefuseActs, WorksIs
<1>7. CASE /\ Works /\ Get(req[r].user, req[r].id) = "ok"
           /\ Pass(r, [req[r] EXCEPT !.copy = Copy(req[r].id), !.kids = Kids(req[r].id)])
  <2>1. ReqInv(r)'
    BY <1>1, <1>7, ReadCourseKeeps, ReadMaterialKeeps, ReadSetKeeps
  <2>2. Copy(req[r].id) \in Copies /\ Kids(req[r].id) \in SUBSET (Rows \cup (Answers \X Questions))
    BY <1>2, <1>7, CopyIs
  <2>3. /\ \A z \in Slots \ {r} : req'[z] = req[z]
        /\ req' \in [Slots -> Request \cup {Idle}]
    BY <1>1, <1>7, <2>2, PassReads
  <2> QED
    BY <1>7, <2>1, <2>3, WorksIs DEF OneActs
<1> QED
  BY <1>5, <1>6, <1>7 DEF ReadRow

LEMMA OtherReads ==
    ASSUME NEW r, NEW op, NEW t, req'[r].op = op, req'[r].todo = t,
           op \notin CourseOps \cup MaterialOps \cup QuizOps \cup DeckOps,
           Ahead(t, "parent") => Ahead(t, "write"),
           Ahead(t, "count") => Ahead(t, "session") \/ Head(t) = "count",
           Ahead(t, "write") /\ op \in QuestionOps \cup CardOps => ItemRead(req[r])',
           Ahead(t, "save") /\ op \in AttemptOps => AttemptRead(req[r])',
           Ahead(t, "save") /\ op \in SavedGoalOps => GoalRead(req[r])',
           Head(t) = "count" => SessionRead(req[r])',
           op = "GetLearningGoals" => req'[r].kids \subseteq Goals,
           Ahead(t, "mark") => req'[r].id \in Goals
    PROVE  ReadInv(req[r])'
<1> HIDE DEF CourseOps, MaterialOps, QuizOps, DeckOps, QuestionOps, CardOps, AttemptOps, SavedGoalOps
<1> QED
  BY DEF ReadInv, Past

LEMMA ReadCopyOnly ==
    ASSUME NEW q \in Request, NEW c
    PROVE  [q EXCEPT !.copy = c] = [q EXCEPT !.copy = c, !.kids = q.kids]
BY DEF Request

LEMMA ReadKidsOnly ==
    ASSUME NEW q \in Request, NEW k
    PROVE  [q EXCEPT !.kids = k] = [q EXCEPT !.copy = q.copy, !.kids = k]
BY DEF Request

LEMMA ReadItemActs ==
    ASSUME Inv, Calm, Track, NEW r \in Slots, ReadItem(r)
    PROVE  OneActs(r)
<1> PICK x, u, c, k : x = req[r].id /\ u = req[r].user /\ c = [row |-> item[x]] /\ k = req[r].kids
  OBVIOUS
<1>1. /\ req[r] # Idle /\ Doing(r, "item") /\ Head(req[r].todo) = "item" /\ x \in IdsOf(req[r].op)
      /\ req[r].op \in QuestionOps \cup CardOps /\ Ordered(req[r].todo) /\ req[r] \in Request
      /\ ReqInv(r)
  BY DoingIs, OpsAre, OpsOfAre DEF ReadItem, Shape
<1>2. x \in Items /\ Copy(x) = c
  <2>1. x \in Items
    BY <1>1, IdsAre
  <2> QED
    BY <2>1, Kinds DEF Copy
<1>3. Missing(x) \in Errors /\ Grows
  BY MissingIs, CalmGrows
<1>4. CASE Fails(r, Missing(x))
  BY <1>1, <1>3, <1>4, FailsActs
<1>5. CASE Works /\ Refuse(r, Missing(x))
  BY <1>1, <1>3, <1>5, RefuseActs, WorksIs
<1>6. CASE Works /\ item[x] # Nil /\ Pass(r, [req[r] EXCEPT !.copy = c])
  <2>1. Pass(r, [req[r] EXCEPT !.copy = c, !.kids = k])
    BY <1>1, <1>6, ReadCopyOnly
  <2>2. item[x] \in Sets /\ born[x] = item[x]
    BY <1>2, <1>6, RowsAre
  <2>3. c \in Copies /\ k \in SUBSET (Rows \cup (Answers \X Questions))
    BY <1>1, <2>2 DEF Copies, Request
  <2>4. Head(req[r].todo) \in Reading \cup {"list", "goals"} /\ req[r] # Idle
    BY <1>1 DEF Reading
  <2>5. /\ Shape(req[r])' /\ Checked(req[r])' /\ NewInv(req[r])' /\ Alike(req[r], req'[r])
        /\ req'[r].id = x /\ req'[r].copy = c /\ req'[r].kids = k
        /\ \A s : Ahead(req'[r].todo, s) => Ahead(req[r].todo, s)
        /\ \A s : s # "answer" /\ Ahead(req[r].todo, s) => req[r].op \in OpsOf(s)
        /\ Ahead(req'[r].todo, "parent") => Ahead(req'[r].todo, "write")
    <3>1. HasRead(r, c, k)
      BY <2>1, <2>3, <2>4, ReadingIs
    <3> QED
      BY <3>1, Zenon DEF HasRead
  <2>6. req'[r].user = u /\ req'[r].op = req[r].op
    BY <2>5 DEF Alike
  <2>7. ItemRead(req[r])'
    BY <2>2, <2>5 DEF ItemRead, Calm
  <2>8. /\ req[r].op \notin CourseOps \cup MaterialOps \cup QuizOps \cup DeckOps \cup AttemptOps \cup GoalOps
                            \cup SessionOps \cup ListOps \cup NewOps \cup {"GetLearningGoals"}
        /\ req[r].op \notin Shows /\ req[r].op \notin SavedGoalOps
    BY <1>1, OpsApart
  <2>9. ~ Ahead(req'[r].todo, "count") /\ ~ Ahead(req'[r].todo, "mark")
    BY <2>5, <2>8, OpsOfAre DEF GoalOps
  <2>10. Head(req'[r].todo) # "count"
    <3>1. Ordered(req'[r].todo)
      BY <2>5 DEF Shape
    <3> QED
      BY <2>9, <3>1, OrderedHead
  <2>11. ReadInv(req[r])'
    BY <2>5, <2>6, <2>7, <2>8, <2>9, <2>10, OtherReads
  <2>12. ShownInv(req[r])'
    BY <2>6, <2>8 DEF ShownInv
  <2>13. RowOf(x)' = item[x]
    BY <1>2, RowOfAfter DEF Calm
  <2>14. FreshInv(r)'
    <3>1. req[r].op \notin {"UpdateCourse", "UpdateMaterial", "UpdateQuiz", "UpdateFlashcardDeck"}
      BY <2>8 DEF CourseOps, MaterialOps, QuizOps, DeckOps
    <3> QED
      BY <2>5, <2>6, <2>8, <2>13, <3>1 DEF FreshInv, Same
  <2>15. /\ \A z \in Slots \ {r} : req'[z] = req[z]
         /\ req' \in [Slots -> Request \cup {Idle}]
    BY <1>1, <2>1, <2>3, PassReads
  <2> QED
    BY <1>6, <2>5, <2>11, <2>12, <2>14, <2>15, WorksIs DEF OneActs, ReqInv
<1> QED
  BY <1>2, <1>4, <1>5, <1>6 DEF ReadItem

LEMMA ReadAttemptActs ==
    ASSUME Inv, Calm, Track, NEW r \in Slots, ReadAttempt(r)
    PROVE  OneActs(r)
<1> PICK x, u, c, k : /\ x = req[r].id /\ u = req[r].user /\ c = [row |-> attempt[x]]
                      /\ k = {<<y, answer[y].question>> : y \in AnswersOf(x)}
  OBVIOUS
<1>1. /\ req[r] # Idle /\ Doing(r, "attempt") /\ Head(req[r].todo) = "attempt" /\ x \in IdsOf(req[r].op)
      /\ req[r].op \in AttemptOps /\ Ordered(req[r].todo) /\ req[r] \in Request
      /\ ReqInv(r)
  BY DoingIs, OpsAre, OpsOfAre DEF ReadAttempt, Shape
<1>2. x \in Attempts
  BY <1>1, IdsAre
<1>3. "no attempt" \in Errors /\ "not in progress" \in Errors /\ Grows /\ served' \in Nat /\ faults' \in Nat
  BY CalmGrows, WorksIs DEF Errors, ReadAttempt
<1>4. GetAttempt(u, x) \in Errors
  BY <1>3, OwnedSays DEF GetAttempt
<1>5. CASE GetAttempt(u, x) # "ok" /\ Refuse(r, GetAttempt(u, x))
  BY <1>1, <1>3, <1>4, <1>5, RefuseActs
<1>6. CASE Refuse(r, "not in progress")
  BY <1>1, <1>3, <1>6, RefuseActs
<1>7. CASE /\ GetAttempt(u, x) = "ok" /\ ~ (Op(r) = "SubmitAnswer" /\ attempt[x].status # "in_progress")
           /\ Pass(r, [req[r] EXCEPT !.copy = c, !.kids = k])
  <2>1. attempt[x] \in AttemptRows /\ Of(attempt[x], u) /\ attempt[x].owner = u
    BY <1>2, <1>7, RowsAre DEF GetAttempt, Owned, Live, Of
  <2>2. c \in Copies
    BY <2>1 DEF Copies
  <2>3. k \subseteq Answers \X Questions /\ k \in SUBSET (Rows \cup (Answers \X Questions))
    <3>1. \A y \in AnswersOf(x) : y \in Answers /\ answer[y].question \in Questions
      BY DEF AnswersOf, Inv, RowsInv, AnswerRows
    <3> QED
      BY <3>1
  <2>4. Head(req[r].todo) \in Reading \cup {"list", "goals"} /\ req[r] # Idle
    BY <1>1 DEF Reading
  <2>5. /\ Shape(req[r])' /\ Checked(req[r])' /\ NewInv(req[r])' /\ Alike(req[r], req'[r])
        /\ req'[r].id = x /\ req'[r].copy = c /\ req'[r].kids = k /\ req'[r].todo = Tail(req[r].todo)
        /\ \A s : Ahead(req'[r].todo, s) => Ahead(req[r].todo, s)
        /\ \A s : s # "answer" /\ Ahead(req[r].todo, s) => req[r].op \in OpsOf(s)
        /\ Ahead(req'[r].todo, "parent") => Ahead(req'[r].todo, "write")
        /\ Ahead(req'[r].todo, "count") => Ahead(req[r].todo, "session")
    <3>1. HasRead(r, c, k)
      BY <1>7, <2>2, <2>3, <2>4, ReadingIs
    <3> QED
      BY <3>1, Zenon DEF HasRead
  <2>6. req'[r].user = u /\ req'[r].op = req[r].op
    BY <2>5 DEF Alike
  <2>7. AttemptRead(req[r])'
    BY <1>7, <2>1, <2>3, <2>5, <2>6 DEF AttemptRead, Calm, Op
  <2>8. /\ req[r].op \notin CourseOps \cup MaterialOps \cup QuizOps \cup DeckOps \cup QuestionOps \cup CardOps
                            \cup GoalOps \cup ListOps \cup NewOps \cup {"GetLearningGoals"}
        /\ req[r].op \notin Shows /\ req[r].op \notin SavedGoalOps
    BY <1>1, OpsApart
  <2>9. /\ ~ Ahead(req'[r].todo, "mark")
        /\ Ahead(req'[r].todo, "count") => Ahead(req'[r].todo, "session")
    <3>1. ~ Ahead(req'[r].todo, "mark")
      BY <2>5, <2>8, OpsOfAre DEF GoalOps
    <3>2. Head(req[r].todo) # "session"
      BY <1>1
    <3>3. Ahead(req[r].todo, "session") => Ahead(req'[r].todo, "session")
      BY <1>1, <2>5, <3>2, OrderedTail
    <3> QED
      BY <2>5, <3>1, <3>3
  <2>10. Head(req'[r].todo) # "count"
    <3>1. Ordered(req'[r].todo) /\ Rank("session") < Rank("count")
      BY <2>5 DEF Shape, Rank
    <3> QED
      BY <2>9, <3>1, OrderedHead, Ranks
  <2>11. ReadInv(req[r])'
    BY <2>5, <2>6, <2>7, <2>8, <2>9, <2>10, OtherReads
  <2>12. ShownInv(req[r])'
    BY <2>6, <2>8 DEF ShownInv
  <2>13. RowOf(x)' = attempt[x]
    BY <1>2, RowOfAfter DEF Calm
  <2>14. FreshInv(r)'
    <3>1. req[r].op \notin {"UpdateCourse", "UpdateMaterial", "UpdateQuiz", "UpdateFlashcardDeck"}
      BY <2>8 DEF CourseOps, MaterialOps, QuizOps, DeckOps
    <3> QED
      BY <2>5, <2>6, <2>8, <2>13, <3>1 DEF FreshInv, Same
  <2>15. /\ \A z \in Slots \ {r} : req'[z] = req[z]
         /\ req' \in [Slots -> Request \cup {Idle}]
    BY <1>1, <1>7, <2>2, <2>3, PassReads
  <2> QED
    BY <1>3, <2>5, <2>11, <2>12, <2>14, <2>15 DEF OneActs, ReqInv
<1> QED
  BY <1>5, <1>6, <1>7 DEF ReadAttempt

LEMMA ReadGoalActs ==
    ASSUME Inv, Calm, Track, NEW r \in Slots, ReadGoal(r)
    PROVE  OneActs(r)
<1> PICK x, u, c, k : x = req[r].id /\ u = req[r].user /\ c = [row |-> goal[x]] /\ k = req[r].kids
  OBVIOUS
<1>1. /\ req[r] # Idle /\ Doing(r, "goal") /\ Head(req[r].todo) = "goal" /\ x \in IdsOf(req[r].op)
      /\ req[r].op \in GoalOps /\ Ordered(req[r].todo) /\ req[r] \in Request
      /\ ReqInv(r)
  BY DoingIs, OpsAre, OpsOfAre DEF ReadGoal, Shape
<1>2. x \in Goals
  BY <1>1, IdsAre
<1>3. "no goal" \in Errors /\ Grows /\ served' \in Nat /\ faults' \in Nat
  BY CalmGrows, WorksIs DEF Errors, ReadGoal
<1>4. GetGoal(u, x) \in Errors
  BY <1>3, OwnedSays DEF GetGoal
<1>5. CASE GetGoal(u, x) # "ok" /\ Refuse(r, GetGoal(u, x))
  BY <1>1, <1>3, <1>4, <1>5, RefuseActs
<1>7. CASE /\ GetGoal(u, x) = "ok" /\ Pass(r, [req[r] EXCEPT !.copy = c])
  <2>1. goal[x] \in GoalRows /\ Of(goal[x], u) /\ goal[x].owner = u /\ goal[x].st = "live"
    BY <1>2, <1>7, RowsAre DEF GetGoal, Owned, Live, Of
  <2>2. c \in Copies /\ Pass(r, [req[r] EXCEPT !.copy = c, !.kids = k])
    BY <1>1, <1>7, <2>1, ReadCopyOnly DEF Copies
  <2>3. k \in SUBSET (Rows \cup (Answers \X Questions))
    BY <1>1 DEF Request
  <2>4. Head(req[r].todo) \in Reading \cup {"list", "goals"} /\ req[r] # Idle
    BY <1>1 DEF Reading
  <2>5. /\ Shape(req[r])' /\ Checked(req[r])' /\ NewInv(req[r])' /\ Alike(req[r], req'[r])
        /\ req'[r].id = x /\ req'[r].copy = c /\ req'[r].kids = k /\ req'[r].todo = Tail(req[r].todo)
        /\ \A s : Ahead(req'[r].todo, s) => Ahead(req[r].todo, s)
        /\ \A s : s # "answer" /\ Ahead(req[r].todo, s) => req[r].op \in OpsOf(s)
        /\ Ahead(req'[r].todo, "parent") => Ahead(req'[r].todo, "write")
    <3>1. HasRead(r, c, k)
      BY <2>2, <2>3, <2>4, ReadingIs
    <3> QED
      BY <3>1, Zenon DEF HasRead
  <2>6. req'[r].user = u /\ req'[r].op = req[r].op
    BY <2>5 DEF Alike
  <2>7. GoalRead(req[r])'
    BY <2>1, <2>5, <2>6 DEF GoalRead, Calm
  <2>8. /\ req[r].op \notin CourseOps \cup MaterialOps \cup QuizOps \cup DeckOps \cup QuestionOps \cup CardOps
                            \cup AttemptOps \cup ListOps \cup NewOps \cup SessionOps \cup {"GetLearningGoals"}
        /\ req[r].op \notin Shows
    BY <1>1, OpsApart
  <2>9. ~ Ahead(req'[r].todo, "count")
    BY <2>5, <2>8, OpsOfAre
  <2>10. Head(req'[r].todo) # "count"
    <3>1. Ordered(req'[r].todo)
      BY <2>5 DEF Shape
    <3> QED
      BY <2>9, <3>1, OrderedHead
  <2>11. ReadInv(req[r])'
    BY <1>2, <2>5, <2>6, <2>7, <2>8, <2>9, <2>10, OtherReads
  <2>12. ShownInv(req[r])'
    BY <2>6, <2>8 DEF ShownInv
  <2>13. RowOf(x)' = goal[x]
    BY <1>2, RowOfAfter DEF Calm
  <2>14. FreshInv(r)'
    <3>1. req[r].op \notin {"UpdateCourse", "UpdateMaterial", "UpdateQuiz", "UpdateFlashcardDeck"}
      BY <2>8 DEF CourseOps, MaterialOps, QuizOps, DeckOps
    <3> QED
      BY <2>5, <2>6, <2>8, <2>13, <3>1 DEF FreshInv, Same
  <2>15. /\ \A z \in Slots \ {r} : req'[z] = req[z]
         /\ req' \in [Slots -> Request \cup {Idle}]
    BY <1>1, <2>2, <2>3, PassReads
  <2> QED
    BY <1>3, <2>5, <2>11, <2>12, <2>14, <2>15 DEF OneActs, ReqInv
<1> QED
  BY <1>5, <1>7 DEF ReadGoal

LEMMA FindSessionActs ==
    ASSUME Inv, Calm, Track, NEW r \in Slots, FindSession(r)
    PROVE  OneActs(r)
<1> PICK x, u, k : x = req[r].id /\ u = req[r].user /\ k = req[r].kids
  OBVIOUS
<1>1. /\ req[r] # Idle /\ Doing(r, "session") /\ Head(req[r].todo) = "session"
      /\ req[r].op \in SessionOps /\ Ordered(req[r].todo) /\ req[r] \in Request
      /\ ReqInv(r) /\ u \in Users
  BY DoingIs, OpsAre, OpsOfAre DEF FindSession, Request
<1>2. PICK t \in {today[u], Nil} : Pass(r, [req[r] EXCEPT !.copy = [today |-> t]])
  BY DEF FindSession
<1>3. PICK c : c = [today |-> t]
  OBVIOUS
<1>4. served' \in Nat /\ faults' \in Nat
  BY DEF FindSession, Works, Inv, RowsInv
<1>5. c \in [today : Nat \cup {Nil}] /\ (c.today # Nil => today[u] # Nil)
  BY <1>1, <1>2, <1>3 DEF Inv, RowsInv
<1>6. c \in Copies /\ Pass(r, [req[r] EXCEPT !.copy = c, !.kids = k])
  BY <1>1, <1>2, <1>3, <1>5, ReadCopyOnly DEF Copies
<1>7. k \in SUBSET (Rows \cup (Answers \X Questions)) /\ Head(req[r].todo) \in Reading \cup {"list", "goals"}
  BY <1>1 DEF Request, Reading
<1>8. /\ Shape(req[r])' /\ Checked(req[r])' /\ NewInv(req[r])' /\ Alike(req[r], req'[r])
      /\ req'[r].id = x /\ req'[r].copy = c /\ req'[r].kids = k /\ req'[r].todo = Tail(req[r].todo)
      /\ \A s : Ahead(req'[r].todo, s) => Ahead(req[r].todo, s)
      /\ \A s : s # "answer" /\ Ahead(req[r].todo, s) => req[r].op \in OpsOf(s)
      /\ Ahead(req'[r].todo, "parent") => Ahead(req'[r].todo, "write")
  <2>1. HasRead(r, c, k)
    BY <1>1, <1>6, <1>7, ReadingIs
  <2> QED
    BY <2>1, Zenon DEF HasRead
<1>9. req'[r].user = u /\ req'[r].op = req[r].op
  BY <1>8 DEF Alike
<1>10. SessionRead(req[r])'
  BY <1>5, <1>8, <1>9 DEF SessionRead, Calm
<1>11. /\ req[r].op \notin CourseOps \cup MaterialOps \cup QuizOps \cup DeckOps \cup QuestionOps \cup CardOps
                           \cup GoalOps \cup ListOps \cup NewOps \cup {"GetLearningGoals"}
       /\ req[r].op \notin Shows
  BY <1>1, OpsApart
<1>12. \A s \in {"write", "save", "mark"} : ~ Ahead(req'[r].todo, s)
  <2>1. \A s \in {"write", "save", "mark"} : Rank(s) = 3
    BY DEF Rank
  <2>2. Rank("session") = 4
    BY DEF Rank
  <2> QED
    BY <1>1, <1>8, <2>1, <2>2, OrderedHead
<1>13. Ahead(req'[r].todo, "count") => Head(req'[r].todo) = "count"
  <2> DEFINE h == Head(req'[r].todo)
  <2>1. Ordered(req'[r].todo)
    BY <1>8 DEF Shape
  <2>2. h \in Statements /\ Ahead(req'[r].todo, h)
    BY <2>1, OrderedHead
  <2>3. h # "session"
    <3>1. ~ Ahead(Tail(req[r].todo), "session")
      BY <1>1, OrderedTail
    <3> QED
      BY <1>8, <2>2, <3>1
  <2>4. Rank("session") < Rank(h)
    BY <1>1, <1>8, <2>2, <2>3, OrderedHead
  <2>5. Ahead(req'[r].todo, "count") /\ h # "count" => Rank(h) < Rank("count")
    BY <2>1, OrderedHead
  <2>6. Rank("session") = 4 /\ Rank("count") = 5
    BY DEF Rank
  <2> HIDE DEF h
  <2>7. Rank(h) \in Nat
    BY <2>2, Ranks
  <2> QED
    BY <2>4, <2>5, <2>6, <2>7 DEF h
<1>14. ReadInv(req[r])'
  <2>1. req[r].op \notin SavedGoalOps
    BY <1>11 DEF GoalOps
  <2> QED
    BY <1>8, <1>9, <1>10, <1>11, <1>12, <1>13, OtherReads
<1>15. ShownInv(req[r])'
  BY <1>9, <1>11 DEF ShownInv
<1>16. FreshInv(r)'
  BY <1>12 DEF FreshInv, Past
<1>17. /\ \A z \in Slots \ {r} : req'[z] = req[z]
       /\ req' \in [Slots -> Request \cup {Idle}]
  BY <1>1, <1>6, <1>7, PassReads
<1> QED
  BY <1>4, <1>8, <1>14, <1>15, <1>16, <1>17 DEF OneActs, ReqInv

LEMMA ListRowsActs ==
    ASSUME Inv, Calm, Track, NEW r \in Slots, ListRows(r)
    PROVE  OneActs(r)
<1> PICK c, u, k : /\ c = req[r].course /\ u = req[r].user
                   /\ k = IF Op(r) = "GetCourseMaterials" THEN GetCourseMaterials(req[r].course)
                          ELSE GetCourseQuizzes(req[r].course)
  OBVIOUS
<1>1. /\ req[r] # Idle /\ Doing(r, "list") /\ Head(req[r].todo) = "list"
      /\ req[r].op \in ListOps /\ Ordered(req[r].todo) /\ req[r] \in Request
      /\ ReqInv(r) /\ c \in Courses
  BY DoingIs, OpsAre, OpsOfAre DEF ListRows, Shape
<1>2. Grows /\ "sql" \in Errors
  BY CalmGrows DEF Errors
<1>3. CASE Fails(r, "sql")
  BY <1>1, <1>2, <1>3, FailsActs
<1>4. CASE Works /\ Pass(r, [req[r] EXCEPT !.kids = k])
  <2>1. Of(course[c], u)
    <3>1. ~ Ahead(req[r].todo, "course") /\ Ahead(req[r].todo, "list")
      <4>1. Rank("course") = 1 /\ Rank("list") = 3
        BY DEF Rank
      <4> QED
        BY <1>1, <4>1, OrderedHead
    <3>2. Place(c, u)
      BY <1>1, <3>1 DEF ReqInv, Checked
    <3> QED
      BY <1>1, <3>2, Kinds DEF Place
  <2>2. \A y \in k : y \in Materials \cup Sets /\ y \notin Items /\ Of(RowOf(y), u)
    <3>1. \A y \in k : \/ y \in Materials /\ Live(material[y]) /\ material[y].course = c
                       \/ y \in Sets /\ Live(set[y]) /\ set[y].course = c
      BY DEF GetCourseMaterials, GetCourseQuizzes, Sets
    <3>2. ASSUME NEW y \in Materials, Live(material[y]), material[y].course = c
          PROVE  y \in Materials \cup Sets /\ y \notin Items /\ Of(RowOf(y), u)
      BY <1>1, <2>1, <3>2, PointsHome, RowOfIs, Kinds
    <3>3. ASSUME NEW y \in Sets, Live(set[y]), set[y].course = c
          PROVE  y \in Materials \cup Sets /\ y \notin Items /\ Of(RowOf(y), u)
      BY <1>1, <2>1, <3>3, PointsHome, RowOfIs, Kinds
    <3> QED
      BY <3>1, <3>2, <3>3
  <2>3. k \in SUBSET (Rows \cup (Answers \X Questions))
    BY <2>2 DEF Rows, ContentIds
  <2>4. PICK cc : cc = req[r].copy
    OBVIOUS
  <2>5. /\ cc \in Copies /\ Pass(r, [req[r] EXCEPT !.copy = cc, !.kids = k])
        /\ Head(req[r].todo) \in Reading \cup {"list", "goals"} /\ req[r] # Idle
    BY <1>1, <1>4, <2>4, ReadKidsOnly DEF Request
  <2>6. /\ Shape(req[r])' /\ Checked(req[r])' /\ NewInv(req[r])' /\ Alike(req[r], req'[r])
        /\ req'[r].id = req[r].id /\ req'[r].copy = cc /\ req'[r].kids = k /\ req'[r].todo = Tail(req[r].todo)
        /\ \A s : Ahead(req'[r].todo, s) => Ahead(req[r].todo, s)
        /\ \A s : s # "answer" /\ Ahead(req[r].todo, s) => req[r].op \in OpsOf(s)
        /\ Ahead(req'[r].todo, "parent") => Ahead(req'[r].todo, "write")
    <3>1. HasRead(r, cc, k)
      BY ONLY Inv, Calm, Track, r \in Slots, <2>3, <2>5, ReadingIs
    <3> QED
      BY <3>1, Zenon DEF HasRead
  <2>7. req'[r].user = u /\ req'[r].op = req[r].op
    BY <2>6 DEF Alike
  <2>8. req[r].op \notin CourseOps \cup MaterialOps \cup QuizOps \cup DeckOps \cup QuestionOps \cup CardOps
                         \cup GoalOps \cup AttemptOps \cup SessionOps \cup NewOps \cup {"GetLearningGoals"}
    BY <1>1, OpsApart
  <2>9. ~ Ahead(req'[r].todo, "count") /\ ~ Ahead(req'[r].todo, "mark") /\ req[r].op \notin SavedGoalOps
    BY <2>6, <2>8, OpsOfAre DEF GoalOps
  <2>10. Head(req'[r].todo) # "count"
    <3>1. Ordered(req'[r].todo)
      BY <2>6 DEF Shape
    <3> QED
      BY <2>9, <3>1, OrderedHead
  <2>11. ReadInv(req[r])'
    BY <2>6, <2>7, <2>8, <2>9, <2>10, OtherReads
  <2>12. ShownInv(req[r])'
    <3>1. \A y \in k : Of(RowOf(y)', u)
      BY <2>2, CalmGrows
    <3> QED
      BY <2>2, <2>6, <2>7, <3>1 DEF ShownInv
  <2>13. FreshInv(r)'
    <3>1. req[r].op \notin {"UpdateCourse", "UpdateMaterial", "UpdateQuiz", "UpdateFlashcardDeck"}
      BY <2>8 DEF CourseOps, MaterialOps, QuizOps, DeckOps
    <3> QED
      BY <2>7, <2>8, <2>9, <3>1 DEF FreshInv
  <2>14. /\ \A z \in Slots \ {r} : req'[z] = req[z]
         /\ req' \in [Slots -> Request \cup {Idle}]
    BY <1>1, <2>3, <2>5, PassReads
  <2> QED
    BY <1>4, <2>6, <2>11, <2>12, <2>13, <2>14, WorksIs DEF OneActs, ReqInv
<1> QED
  BY <1>3, <1>4 DEF ListRows

LEMMA GetLearningGoalsActs ==
    ASSUME Inv, Calm, Track, NEW r \in Slots, GetLearningGoals(r)
    PROVE  OneActs(r)
<1> PICK x, u, c, k : /\ x = req[r].id /\ u = req[r].user /\ c = req[r].copy
                      /\ k = {g \in Goals : Live(goal[g]) /\ goal[g].owner = u /\ ~ goal[g].done}
  OBVIOUS
<1>1. /\ req[r] # Idle /\ Doing(r, "goals") /\ Head(req[r].todo) = "goals"
      /\ req[r].op = "GetLearningGoals" /\ Ordered(req[r].todo) /\ req[r] \in Request
      /\ ReqInv(r)
  BY DoingIs, OpsAre, OpsOfAre DEF GetLearningGoals
<1>2. Works /\ Pass(r, [req[r] EXCEPT !.kids = k])
  BY DEF GetLearningGoals
<1>3. /\ k \in SUBSET (Rows \cup (Answers \X Questions)) /\ k \subseteq Goals
      /\ Head(req[r].todo) \in Reading \cup {"list", "goals"}
  BY <1>1 DEF Rows
<1>4. c \in Copies /\ Pass(r, [req[r] EXCEPT !.copy = c, !.kids = k])
  BY <1>1, <1>2, ReadKidsOnly DEF Request
<1>5. /\ Shape(req[r])' /\ Checked(req[r])' /\ NewInv(req[r])' /\ Alike(req[r], req'[r])
      /\ req'[r].id = x /\ req'[r].copy = c /\ req'[r].kids = k /\ req'[r].todo = Tail(req[r].todo)
      /\ \A s : Ahead(req'[r].todo, s) => Ahead(req[r].todo, s)
      /\ \A s : s # "answer" /\ Ahead(req[r].todo, s) => req[r].op \in OpsOf(s)
      /\ Ahead(req'[r].todo, "parent") => Ahead(req'[r].todo, "write")
  <2>1. HasRead(r, c, k)
    BY <1>1, <1>3, <1>4, ReadingIs
  <2> QED
    BY <2>1, Zenon DEF HasRead
<1>6. req'[r].user = u /\ req'[r].op = "GetLearningGoals"
  BY <1>1, <1>5 DEF Alike
<1>7. "GetLearningGoals" \notin CourseOps \cup MaterialOps \cup QuizOps \cup DeckOps \cup QuestionOps \cup CardOps
                         \cup SavedGoalOps \cup AttemptOps \cup SessionOps \cup Shows
  BY DEF CourseOps, MaterialOps, QuizOps, DeckOps, QuestionOps, CardOps, SavedGoalOps, AttemptOps, SessionOps,
         Shows
<1>8. ~ Ahead(req'[r].todo, "count") /\ (Ahead(req'[r].todo, "mark") => x \in Goals)
  BY <1>1, <1>5, <1>7, OpsOfAre DEF ReqInv, ReadInv
<1>9. Head(req'[r].todo) # "count"
  <2>1. Ordered(req'[r].todo)
    BY <1>5 DEF Shape
  <2> QED
    BY <1>8, <2>1, OrderedHead
<1>10. ReadInv(req[r])'
  BY <1>3, <1>5, <1>6, <1>7, <1>8, <1>9, OtherReads
<1>11. ShownInv(req[r])'
  BY <1>6, <1>7 DEF ShownInv
<1>12. FreshInv(r)'
  BY <1>6, <1>7 DEF FreshInv
<1>13. /\ \A z \in Slots \ {r} : req'[z] = req[z]
       /\ req' \in [Slots -> Request \cup {Idle}]
  BY <1>1, <1>3, <1>4, PassReads
<1> QED
  BY <1>2, <1>5, <1>10, <1>11, <1>12, <1>13, WorksIs DEF OneActs, ReqInv

(* A goal is taken up: it becomes the id of the request.                   *)
LEMMA TakesUpKeeps ==
    ASSUME Inv, Calm, Track, NEW r \in Slots, Doing(r, "progress"), NEW g \in req[r].kids, NEW t,
           t = req[r].todo \/ t = <<"mark">> \o req[r].todo,
           req' = [req EXCEPT ![r] = [req[r] EXCEPT !.id = g, !.kids = @ \ {g}, !.todo = t]]
    PROVE  /\ ReqInv(r)' /\ \A z \in Slots \ {r} : req'[z] = req[z]
           /\ req' \in [Slots -> Request \cup {Idle}]
<1> PICK q : q = req[r]
  OBVIOUS
<1>1. /\ req[r] # Idle /\ Head(q.todo) = "progress"
      /\ q.op = "GetLearningGoals" /\ Ordered(q.todo) /\ q \in Request
      /\ ReqInv(r) /\ Shape(q) /\ g \in Goals /\ q.kids \subseteq Goals
  BY DoingIs, OpsAre, OpsOfAre DEF ReqInv, ReadInv
<1>2. /\ req'[r] = [q EXCEPT !.id = g, !.kids = @ \ {g}, !.todo = t]
      /\ \A z \in Slots \ {r} : req'[z] = req[z]
  BY DEF Inv, RowsInv
<1>3. /\ Ordered(t) /\ t \in Seq(Statements)
      /\ \A s : Ahead(t, s) => Ahead(q.todo, s) \/ s = "mark"
      /\ Ahead(t, "write") => Ahead(q.todo, "write")
      /\ ~ Ahead(q.todo, "parent") /\ ~ Ahead(q.todo, "count")
  <2>1. Rank("mark") = 3 /\ Rank("progress") = 5 /\ "mark" \in Statements
    BY DEF Rank, Statements
  <2>2. ~ Ahead(q.todo, "parent") /\ ~ Ahead(q.todo, "count")
    <3>1. "GetLearningGoals" \notin OpsOf("parent") /\ "GetLearningGoals" \notin OpsOf("count")
      BY OpsOfAre DEF QuestionOps, CardOps, SessionOps
    <3> QED
      BY <1>1, <3>1, OpsAre
  <2>3. CASE t = q.todo
    BY <1>1, <2>2, <2>3 DEF Ordered
  <2>4. CASE t = <<"mark">> \o q.todo
    <3>1. /\ Ordered(<<"mark">> \o q.todo)
          /\ \A s : Ahead(<<"mark">> \o q.todo, s) <=> (s = "mark" \/ Ahead(q.todo, s))
      BY <1>1, <2>1, OrderedCons
    <3> QED
      BY <2>2, <2>4, <3>1 DEF Ordered
  <2> QED
    BY <2>3, <2>4
<1>4. /\ req'[r] \in Request /\ req'[r].id = g /\ req'[r].todo = t /\ req'[r].op = q.op
      /\ req'[r].kids \subseteq Goals /\ req'[r].n = q.n /\ req'[r].course = q.course /\ req'[r].user = q.user
      /\ req'[r] # Idle
  <2> DEFINE p == [q EXCEPT !.id = g, !.kids = @ \ {g}, !.todo = t]
  <2>1. g \in Rows \cup {Nil} /\ t \in Seq(Statements) /\ q.kids \ {g} \in SUBSET (Rows \cup (Answers \X Questions))
    BY <1>1, <1>3 DEF Rows
  <2>2. /\ p.id = g /\ p.todo = t /\ p.op = q.op /\ p.kids = q.kids \ {g} /\ p.n = q.n
        /\ p.course = q.course /\ p.user = q.user /\ p \in Request
    BY <1>1, <2>1 DEF Request
  <2>3. p.op # Idle.op
    BY <1>1, <2>2 DEF Idle
  <2> HIDE DEF p
  <2>4. req'[r] = p
    BY <1>2 DEF p
  <2> QED
    BY <1>1, <2>2, <2>3, <2>4
<1>5. "GetLearningGoals" \notin CourseOps \cup MaterialOps \cup QuizOps \cup DeckOps \cup QuestionOps \cup CardOps
                         \cup GoalOps \cup SavedGoalOps \cup AttemptOps \cup SessionOps \cup Shows \cup NewOps \cup ListOps
  BY DEF CourseOps, MaterialOps, QuizOps, DeckOps, QuestionOps, CardOps, SavedGoalOps, AttemptOps, SessionOps,
         Shows, NewOps, ListOps, GoalOps
<1>6. Shape(req[r])'
  <2>1. \A j \in 1..Len(t) : t[j] # "answer" => "GetLearningGoals" \in OpsOf(t[j])
    <3>1. "GetLearningGoals" \in OpsOf("mark")
      BY OpsOfAre
    <3>2. \A j \in 1..Len(t) : Ahead(t, t[j])
      BY DEF Ahead
    <3>3. \A s : s # "answer" /\ Ahead(q.todo, s) => "GetLearningGoals" \in OpsOf(s)
      BY <1>1, OpsAre
    <3> QED
      BY <1>3, <3>1, <3>2, <3>3
  <2>2. g \in IdsOf("GetLearningGoals")
    BY <1>1, <1>5 DEF IdsOf
  <2>3. q.n \in Nat
    BY <1>1 DEF Shape
  <2> QED
    BY <1>1, <1>3, <1>4, <1>5, <2>1, <2>2, <2>3 DEF Shape
<1>7. Checked(req[r])'
  <2>1. ~ Ahead(t, "write") /\ ~ Ahead(t, "list")
    <3>1. "GetLearningGoals" \notin OpsOf("write") /\ "GetLearningGoals" \notin OpsOf("list")
      BY <1>5, OpsOfAre
    <3> QED
      BY <1>1, <1>3, <3>1, OpsAre
  <2> QED
    BY <1>4, <2>1 DEF Checked
<1>8. ReadInv(req[r])'
  <2>1. ~ Ahead(t, "parent") /\ ~ Ahead(t, "count") /\ Head(t) # "count"
    BY <1>3, OrderedHead
  <2> QED
    BY <1>1, <1>4, <1>5, <2>1, OtherReads
<1>9. ShownInv(req[r])' /\ NewInv(req[r])' /\ FreshInv(r)'
  <2>1. "GetLearningGoals" \notin {"UpdateCourse", "UpdateMaterial", "UpdateQuiz", "UpdateFlashcardDeck"}
    OBVIOUS
  <2> QED
    BY <1>1, <1>4, <1>5, <2>1 DEF ShownInv, NewInv, FreshInv
<1>10. req' \in [Slots -> Request \cup {Idle}]
  BY <1>4 DEF Inv, RowsInv
<1> QED
  BY <1>2, <1>6, <1>7, <1>8, <1>9, <1>10 DEF ReqInv

LEMMA ComputeProgressActs ==
    ASSUME Inv, Calm, Track, NEW r \in Slots, ComputeProgress(r)
    PROVE  OneActs(r)
<1>1. /\ req[r] # Idle /\ Doing(r, "progress") /\ Head(req[r].todo) = "progress"
      /\ req[r].op = "GetLearningGoals" /\ req[r] \in Request
  BY DoingIs, OpsAre, OpsOfAre DEF ComputeProgress
<1>2. Grows /\ (\A x : RowOf(x)' = RowOf(x)) /\ served' \in Nat /\ faults' \in Nat
  <2>1. served' = served /\ (faults' = faults \/ faults' = faults + 1)
    BY DEF ComputeProgress, Works, Done
  <2>2. served \in Nat /\ faults \in Nat
    BY DEF Inv, RowsInv
  <2> QED
    BY <2>1, <2>2, CalmGrows
<1>3. CASE Done(r)
  BY <1>1, <1>2, <1>3, PassActs DEF Done, Reading, NewOps
<1>4. ASSUME NEW g \in req[r].kids, NEW t, t = req[r].todo \/ t = <<"mark">> \o req[r].todo,
             req' = [req EXCEPT ![r] = [req[r] EXCEPT !.id = g, !.kids = @ \ {g}, !.todo = t]]
      PROVE  OneActs(r)
  BY <1>1, <1>2, <1>4, TakesUpKeeps DEF OneActs
<1>5. ASSUME NEW g \in req[r].kids,
             \/ req' = [req EXCEPT ![r] = [req[r] EXCEPT !.id = g, !.kids = @ \ {g}]]
             \/ req' = [req EXCEPT ![r] = [[req[r] EXCEPT !.id = g, !.kids = @ \ {g}] EXCEPT !.todo = <<"mark">> \o @]]
      PROVE  OneActs(r)
  <2>1. [req[r] EXCEPT !.id = g, !.kids = @ \ {g}] = [req[r] EXCEPT !.id = g, !.kids = @ \ {g}, !.todo = req[r].todo]
    BY <1>1 DEF Request
  <2>2. [[req[r] EXCEPT !.id = g, !.kids = @ \ {g}] EXCEPT !.todo = <<"mark">> \o @]
          = [req[r] EXCEPT !.id = g, !.kids = @ \ {g}, !.todo = <<"mark">> \o req[r].todo]
    BY <1>1 DEF Request
  <2> QED
    BY <1>4, <1>5, <2>1, <2>2
<1>6. CASE req[r].kids = {} /\ Done(r)
  BY <1>3, <1>6
<1>7. CASE \E g \in req[r].kids :
             \/ req' = [req EXCEPT ![r] = [req[r] EXCEPT !.id = g, !.kids = @ \ {g}]]
             \/ req' = [req EXCEPT ![r] = [[req[r] EXCEPT !.id = g, !.kids = @ \ {g}] EXCEPT !.todo = <<"mark">> \o @]]
  BY <1>5, <1>7
<1> QED
  BY <1>6, <1>7 DEF ComputeProgress

-----------------------------------------------------------------------------
(* Checks, and statements that fail.                                       *)

(* A set is not made before its checks, and complete before it is reloaded.*)
LEMMA NewWaits ==
    ASSUME Inv, Calm, NEW r \in Slots, req[r] # Idle, Head(req[r].todo) \in {"course", "material", "reload"},
           Pass(r, req[r])
    PROVE  NewInv(req[r])'
<1> PICK q, p : q = req[r] /\ p = req'[r]
  OBVIOUS
<1>1. /\ Shape(q) /\ Ordered(q.todo) /\ NewInv(q) /\ q \in Request
      /\ p.todo = Tail(q.todo) /\ Alike(q, p) /\ p.id = q.id
  BY PassIs DEF Inv, ReqsInv, ReqInv, Shape
<1> SUFFICES ASSUME p.op \in NewOps, ~ Ahead(p.todo, "write"), Ahead(p.todo, "reload")
             PROVE  p.id # Nil /\ set[p.id] # NoRow /\ Head(p.todo) # "child"
  BY DEF NewInv, Past, Calm
<1>2. q.op \in NewOps /\ q.n \in Nat
  BY <1>1 DEF Alike, Shape, NewOps
<1>3. Head(q.todo) # "reload" /\ Head(q.todo) \in {"course", "material"}
  BY <1>1, OrderedTail
<1>4. ~ Ahead(q.todo, "write") /\ Ahead(q.todo, "reload")
  BY <1>1, <1>3, OrderedTail
<1>5. q.id # Nil /\ set[q.id] # NoRow
  BY <1>1, <1>2, <1>4 DEF NewInv, Past
<1>6. ASSUME Head(p.todo) = "child" PROVE FALSE
  <2> DEFINE n == Len(q.todo)
  <2>1. Ordered(p.todo) /\ Len(p.todo) = n - 1 /\ n \in Nat /\ n >= 1 /\ Head(q.todo) = q.todo[1]
    BY <1>1, <1>3, OrderedHead, OrderedTail
  <2>2. n # 1
    BY <1>1, <1>3, OrderedHead
  <2> HIDE DEF n
  <2>3. 1 \in 1..(n - 1) /\ 2 \in 1..n /\ 1 \in 1..n
    BY <2>1, <2>2
  <2>4. p.todo[1] = q.todo[2] /\ p.todo[1] = "child"
    <3>1. p.todo[1] = Tail(q.todo)[1] /\ Head(p.todo) = p.todo[1]
      BY <1>1, <2>1, OrderedHead
    <3> QED
      BY <1>1, <1>3, <1>6, <2>3, <3>1, OrderedTail DEF n
  <2>5. n - 2 \in 2..(q.n + 1)
    BY <1>1, <1>2, <2>3, <2>4 DEF Shape, n
  <2>6. ~ (n - 1 \in 2..(q.n + 1)) /\ n - 1 # q.n + 2
    <3>1. q.todo[1] # "child" /\ q.todo[1] # "write"
      BY <1>3, <2>1
    <3> QED
      BY <1>1, <1>2, <2>3, <3>1 DEF Shape, n
  <2> QED
    BY <1>2, <2>1, <2>5, <2>6
<1> QED
  BY <1>1, <1>5, <1>6

LEMMA JudgeActs ==
    ASSUME Inv, Calm, Track, NEW r \in Slots, req[r] # Idle, NEW e \in Errors, Judge(r, e),
           Head(req[r].todo) \in {"course", "material", "parent", "reload"},
           Head(req[r].todo) = "course" /\ e = "ok" => Place(req[r].course, req[r].user),
           served' \in Nat, faults' \in Nat
    PROVE  OneActs(r)
<1>1. Grows /\ \A x : RowOf(x)' = RowOf(x)
  BY CalmGrows
<1>2. CASE e # "ok"
  BY <1>1, <1>2, RefuseActs DEF Judge
<1>3. CASE e = "ok"
  <2>1. Pass(r, req[r])
    BY <1>3 DEF Judge
  <2>2. req[r].op \in NewOps => NewInv(req[r])'
    <3>1. CASE Head(req[r].todo) \in {"course", "material", "reload"}
      BY <2>1, <3>1, NewWaits
    <3>2. CASE Head(req[r].todo) = "parent"
      <4>1. Doing(r, "parent")
        <5>1. Ordered(req[r].todo)
          BY DEF Inv, ReqsInv, ReqInv, Shape
        <5> QED
          BY <3>2, <5>1, OrderedHead DEF Doing
      <4>2. req[r].op \in QuestionOps \cup CardOps
        BY <4>1, DoingIs, OpsAre, OpsOfAre
      <4> QED
        BY <4>2, OpsApart
    <3> QED
      BY <3>1, <3>2
  <2>3. Head(req[r].todo) \notin {"answer"} \cup Reading
    BY DEF Reading
  <2> QED
    BY <1>1, <1>3, <2>1, <2>2, <2>3, PassActs
<1> QED
  BY <1>2, <1>3

LEMMA ErrorsAre ==
    /\ "ok" \in Errors /\ "sql" \in Errors /\ "gone" \in Errors /\ "no course" \in Errors
    /\ "no material" \in Errors /\ "no attempt" \in Errors /\ "no goal" \in Errors
BY DEF Errors

LEMMA CheckCourseActs ==
    ASSUME Inv, Calm, Track, NEW r \in Slots, CheckCourse(r)
    PROVE  OneActs(r)
<1>1. req[r] # Idle /\ Head(req[r].todo) = "course"
  BY DoingIs DEF CheckCourse
<1>2. Grows
  BY CalmGrows
<1>3. CASE Fails(r, "no course")
  BY <1>1, <1>2, <1>3, FailsActs, ErrorsAre
<1>4. CASE Works /\ Judge(r, GetCourse(req[r].user, req[r].course))
  <2>1. GetCourse(req[r].user, req[r].course) \in Errors
    BY OwnedSays, ErrorsAre DEF GetCourse
  <2>2. GetCourse(req[r].user, req[r].course) = "ok" => Place(req[r].course, req[r].user)
    BY DEF GetCourse, Owned, Live, Place, Of
  <2> QED
    BY <1>1, <1>4, <2>1, <2>2, JudgeActs, WorksIs
<1> QED
  BY <1>3, <1>4 DEF CheckCourse

LEMMA CheckMaterialActs ==
    ASSUME Inv, Calm, Track, NEW r \in Slots, CheckMaterial(r)
    PROVE  OneActs(r)
<1>1. req[r] # Idle /\ Head(req[r].todo) = "material"
  BY DoingIs DEF CheckMaterial
<1>2. Grows
  BY CalmGrows
<1>3. CASE Fails(r, "no material")
  BY <1>1, <1>2, <1>3, FailsActs, ErrorsAre
<1>4. CASE Works /\ Judge(r, GetMaterial(req[r].user, req[r].material))
  <2>1. GetMaterial(req[r].user, req[r].material) \in Errors
    BY OwnedSays, ErrorsAre DEF GetMaterial
  <2> QED
    BY <1>1, <1>4, <2>1, JudgeActs, WorksIs
<1> QED
  BY <1>3, <1>4 DEF CheckMaterial

LEMMA CheckParentActs ==
    ASSUME Inv, Calm, Track, NEW r \in Slots, CheckParent(r)
    PROVE  OneActs(r)
<1>1. /\ req[r] # Idle /\ Head(req[r].todo) = "parent" /\ Ahead(req[r].todo, "parent") /\ ReqInv(r)
      /\ Ordered(req[r].todo) /\ req[r].op \in QuestionOps \cup CardOps
  BY DoingIs, OpsAre, OpsOfAre DEF CheckParent
<1>2. Grows
  BY CalmGrows
<1>3. CASE Fails(r, Missing(req[r].copy.row))
  BY <1>1, <1>2, <1>3, FailsActs, MissingIs
<1>4. CASE Works /\ Judge(r, Get(req[r].user, req[r].copy.row))
  <2>1. ~ Ahead(req[r].todo, "item") /\ Ahead(req[r].todo, "write")
    <3>1. Rank("item") = 0 /\ Rank("parent") = 2
      BY DEF Rank
    <3> QED
      BY <1>1, <3>1, OrderedHead DEF ReqInv, ReadInv
  <2>2. ItemRead(req[r])
    BY <1>1, <2>1 DEF ReqInv, ReadInv, Past
  <2>3. req[r].copy.row \in Sets
    BY <2>2 DEF ItemRead
  <2>4. Get(req[r].user, req[r].copy.row) \in Errors
    BY <2>3, GetIs
  <2> QED
    BY <1>1, <1>4, <2>4, JudgeActs, WorksIs
<1> QED
  BY <1>3, <1>4 DEF CheckParent

LEMMA ReloadSetActs ==
    ASSUME Inv, Calm, Track, NEW r \in Slots, ReloadSet(r)
    PROVE  OneActs(r)
<1>1. req[r] # Idle /\ Head(req[r].todo) = "reload"
  BY DoingIs DEF ReloadSet
<1>2. Works /\ (Judge(r, "ok") \/ Judge(r, "gone"))
  BY DEF ReloadSet
<1> QED
  BY <1>1, <1>2, JudgeActs, WorksIs, ErrorsAre

LEMMA GradeActs ==
    ASSUME Inv, Calm, Track, NEW r \in Slots, Grade(r)
    PROVE  OneActs(r)
<1>1. req[r] # Idle /\ Head(req[r].todo) = "grade" /\ req[r].op = "CompleteQuizAttempt"
  <2>1. "grade" # "answer" /\ OpsOf("grade") = {"CompleteQuizAttempt"}
    BY DEF OpsOf
  <2> QED
    BY <2>1, DoingIs, OpsAre DEF Grade
<1>2. Grows /\ \A x : RowOf(x)' = RowOf(x)
  BY CalmGrows
<1> QED
  BY <1>1, <1>2, PassActs, WorksIs DEF Grade, Done, Reading, NewOps

LEMMA FailuresAct ==
    ASSUME Inv, Calm, NEW r \in Slots, WriteFails(r) \/ SaveFails(r)
    PROVE  OneActs(r)
<1>1. Grows
  BY CalmGrows
<1>2. \E s, e : Doing(r, s) /\ e \in Errors /\ Fails(r, e)
  BY ErrorsAre DEF WriteFails, SaveFails
<1> QED
  BY <1>1, <1>2, FailsActs, DoingIs

LEMMA ReturnActs ==
    ASSUME Inv, NEW r \in Slots, Return(r)
    PROVE  OneActs(r)
<1>1. req' = [req EXCEPT ![r] = Idle] /\ req \in [Slots -> Request \cup {Idle}]
  BY DEF Return, Inv, RowsInv
<1> QED
  BY <1>1, WorksIs DEF OneActs, Return

-----------------------------------------------------------------------------
(* The lists of statements the handlers start with: t and the answer, with *)
(* the statements of S and no other.                                       *)
Full(t) == t \o <<"answer">>

Todo(t, S) ==
    /\ t \in Seq(Statements) /\ Ordered(Full(t))
    /\ \A s : Ahead(Full(t), s) <=> s \in S

LEMMA TodoLast ==
    ASSUME NEW a \in Statements, a # "answer"
    PROVE  Todo(<<a>>, {a, "answer"}) /\ Head(Full(<<a>>)) = a
<1>1. Rank(a) < 6 /\ Rank("answer") = 6 /\ Head(<<"answer">>) = "answer"
  <2>1. Rank(a) \in 0..6 /\ Rank(a) # 6
    BY Ranks
  <2> DEFINE k == Rank(a)
  <2>2. k \in 0..6 /\ k # 6
    BY <2>1
  <2> HIDE DEF k
  <2>3. k < 6
    BY <2>2
  <2> QED
    BY <2>3 DEF Rank, k
<1> QED
  BY <1>1, OrderedCons, OrderedLast DEF Todo, Full

LEMMA TodoCons ==
    ASSUME NEW t, NEW S, Todo(t, S), NEW a \in Statements, Rank(a) < Rank(Head(Full(t)))
    PROVE  /\ Todo(<<a>> \o t, S \cup {a}) /\ Head(Full(<<a>> \o t)) = a
           /\ Full(<<a>> \o t) = <<a>> \o (Full(t))
           /\ Len(Full(<<a>> \o t)) = Len(Full(t)) + 1
           /\ \A j \in 1..Len(Full(t)) : (Full(<<a>> \o t))[j + 1] = (Full(t))[j]
           /\ (Full(<<a>> \o t))[1] = a
<1>1. t \in Seq(Statements) /\ Ordered(Full(t)) /\ <<"answer">> \in Seq(Statements)
  BY DEF Todo, Statements
<1>2. Full(<<a>> \o t) = <<a>> \o (Full(t)) /\ <<a>> \o t \in Seq(Statements)
  BY <1>1 DEF Full
<1> DEFINE l == Full(t)
<1>3. Ordered(l) /\ Rank(a) < Rank(Head(l)) /\ \A s : Ahead(l, s) <=> s \in S
  BY <1>1 DEF Todo
<1> HIDE DEF l
<1>4. /\ Ordered(<<a>> \o l) /\ Len(<<a>> \o l) = Len(l) + 1 /\ Head(<<a>> \o l) = a
      /\ (<<a>> \o l)[1] = a /\ \A j \in 1..Len(l) : (<<a>> \o l)[j + 1] = l[j]
      /\ \A s : Ahead(<<a>> \o l, s) <=> (s = a \/ Ahead(l, s))
  BY <1>3, OrderedCons
<1>5. Full(<<a>> \o t) = <<a>> \o l
  BY <1>2 DEF l
<1>6. Todo(<<a>> \o t, S \cup {a})
  BY <1>2, <1>3, <1>4, <1>5 DEF Todo
<1> QED
  BY <1>4, <1>5, <1>6 DEF l

Before(a, t) == Rank(a) < Rank(Head(Full(t)))
Widened(S, x, a) == IF x = Nil THEN S ELSE S \cup {a}
Follows(t, t2, a) ==
    \/ t2 = t
    \/ /\ Head(Full(t2)) = a /\ Len(Full(t2)) = Len(Full(t)) + 1
       /\ \A j \in 1..Len(Full(t)) : (Full(t2))[j + 1] = (Full(t))[j]
       /\ (Full(t2))[1] = a

LEMMA TodoStep ==
    ASSUME NEW t, NEW S, Todo(t, S), NEW a \in Statements, Before(a, t), NEW x
    PROVE  /\ Todo(Step(x, a) \o t, Widened(S, x, a))
           /\ Follows(t, Step(x, a) \o t, a)
<1>1. CASE x = Nil
  <2>1. Step(x, a) \o t = t
    BY <1>1 DEF Step, Todo
  <2>2. Widened(S, x, a) = S
    BY <1>1 DEF Widened
  <2> QED
    BY <2>1, <2>2 DEF Follows
<1>2. CASE x # Nil
  <2>1. Step(x, a) = <<a>> /\ Widened(S, x, a) = S \cup {a}
    BY <1>2 DEF Step, Widened
  <2>2. Rank(a) < Rank(Head(Full(t)))
    BY DEF Before
  <2>3. /\ Todo(<<a>> \o t, S \cup {a}) /\ Head(Full(<<a>> \o t)) = a
        /\ Len(Full(<<a>> \o t)) = Len(Full(t)) + 1
        /\ \A j \in 1..Len(Full(t)) : (Full(<<a>> \o t))[j + 1] = (Full(t))[j]
        /\ (Full(<<a>> \o t))[1] = a
    BY <2>2, TodoCons
  <2> QED
    BY <2>1, <2>3 DEF Follows
<1> QED
  BY <1>1, <1>2

LEMMA Regroup ==
    ASSUME NEW s \in Seq(Statements), NEW t \in Seq(Statements), NEW u \in Seq(Statements)
    PROVE  (s \o t) \o u = s \o (t \o u)
BY ConcatAssociative

Glued(s, m, w, a, z) == (((s \o m) \o w) \o a) \o z
Nested(s, m, w, a, z) == s \o (m \o (w \o (a \o z)))

LEMMA RegroupAll ==
    ASSUME NEW s \in Seq(Statements), NEW m \in Seq(Statements), NEW w \in Seq(Statements),
           NEW a \in Seq(Statements), NEW z \in Seq(Statements)
    PROVE  Glued(s, m, w, a, z) = Nested(s, m, w, a, z)
<1>1. s \o m \in Seq(Statements) /\ a \o z \in Seq(Statements)
  BY ConcatProperties
<1>2. (s \o m) \o w \in Seq(Statements) /\ w \o (a \o z) \in Seq(Statements)
  BY <1>1, ConcatProperties
<1>3. (((s \o m) \o w) \o a) \o z = ((s \o m) \o w) \o (a \o z)
  <2> DEFINE p == (s \o m) \o w
  <2>1. p \in Seq(Statements)
    BY <1>2
  <2> HIDE DEF p
  <2>2. (p \o a) \o z = p \o (a \o z)
    BY <2>1, Regroup
  <2> QED
    BY <2>2 DEF p
<1>4. ((s \o m) \o w) \o (a \o z) = (s \o m) \o (w \o (a \o z))
  <2> DEFINE p == s \o m  q == a \o z
  <2>1. p \in Seq(Statements) /\ q \in Seq(Statements)
    BY <1>1
  <2> HIDE DEF p, q
  <2>2. (p \o w) \o q = p \o (w \o q)
    BY <2>1, Regroup, SMTT(30)
  <2> QED
    BY <2>2 DEF p, q
<1>5. (s \o m) \o (w \o (a \o z)) = s \o (m \o (w \o (a \o z)))
  <2> DEFINE q == w \o (a \o z)
  <2>1. q \in Seq(Statements)
    BY <1>2
  <2> HIDE DEF q
  <2>2. (s \o m) \o q = s \o (m \o q)
    BY <2>1, Regroup
  <2> QED
    BY <2>2 DEF q
<1> QED
  BY <1>3, <1>4, <1>5 DEF Glued, Nested

LEMMA TodoLen ==
    ASSUME NEW t, NEW S, Todo(t, S)
    PROVE  Rank(Head(Full(t))) \in Nat /\ Len(Full(t)) \in Nat
<1>1. Ordered(Full(t))
  BY DEF Todo
<1> PICK l : l = Full(t)
  OBVIOUS
<1>2. Head(l) \in Statements /\ Len(l) \in Nat
  BY <1>1, OrderedHead
<1>3. Rank(Head(l)) \in 0..6
  BY <1>2, Ranks
<1> QED
  BY <1>2, <1>3

LEMMA RanksAre ==
    /\ \A s \in {"row", "item", "attempt", "goal", "goals"} : s \in Statements /\ Rank(s) = 0
    /\ Rank("course") = 1 /\ "course" \in Statements
    /\ \A s \in {"material", "parent", "grade"} : s \in Statements /\ Rank(s) = 2
    /\ \A s \in {"write", "list", "save", "mark"} : s \in Statements /\ Rank(s) = 3
    /\ \A s \in {"child", "session"} : s \in Statements /\ Rank(s) = 4
    /\ \A s \in {"reload", "count", "progress"} : s \in Statements /\ Rank(s) = 5
    /\ Rank("answer") = 6 /\ "answer" \in Statements
BY DEF Rank, Statements

(* The lists that are the same for every request of an operation.          *)
LEMMA TodosAre ==
    /\ Todo(<<"write">>, {"write", "answer"})
    /\ Todo(<<"row">>, {"row", "answer"})
    /\ Todo(<<"row", "write">>, {"row", "write", "answer"})
    /\ Todo(<<"item", "parent", "write">>, {"item", "parent", "write", "answer"})
    /\ Todo(<<"course", "list">>, {"course", "list", "answer"})
    /\ Todo(<<"save", "session", "count">>, {"save", "session", "count", "answer"})
    /\ Todo(<<"attempt">> \o <<"save">>, {"attempt", "save", "answer"})
    /\ Todo(<<"attempt">> \o <<"grade", "save", "session", "count">>,
            {"attempt", "grade", "save", "session", "count", "answer"})
    /\ Todo(<<"session", "count">>, {"session", "count", "answer"})
    /\ Todo(<<"save">>, {"save", "answer"})
    /\ Todo(<<"goals", "progress">>, {"goals", "progress", "answer"})
    /\ Todo(<<"goal">> \o <<"save">>, {"goal", "save", "answer"})
    /\ Todo(<<"goal">> \o <<"mark">>, {"goal", "mark", "answer"})
<1>1. \A a \in {"write", "row", "save", "list", "count", "progress", "mark"} :
        Todo(<<a>>, {a, "answer"}) /\ Head(Full(<<a>>)) = a
  BY TodoLast, RanksAre
<1>2. Todo(<<"row", "write">>, {"row", "write", "answer"})
  <2>1. Todo(<<"row">> \o <<"write">>, {"write", "answer"} \cup {"row"})
    BY <1>1, TodoCons, RanksAre
  <2>2. <<"row", "write">> = <<"row">> \o <<"write">> /\ {"row", "write", "answer"} = {"write", "answer"} \cup {"row"}
    OBVIOUS
  <2> QED
    BY <2>1, <2>2
<1>3. Todo(<<"item", "parent", "write">>, {"item", "parent", "write", "answer"})
  <2>1. /\ Todo(<<"parent">> \o <<"write">>, {"write", "answer"} \cup {"parent"})
        /\ Head(Full(<<"parent">> \o <<"write">>)) = "parent"
    BY <1>1, TodoCons, RanksAre
  <2>2. Todo(<<"item">> \o (<<"parent">> \o <<"write">>), ({"write", "answer"} \cup {"parent"}) \cup {"item"})
    <3> DEFINE t == <<"parent">> \o <<"write">>  S == {"write", "answer"} \cup {"parent"}
    <3>1. Todo(t, S) /\ "item" \in Statements /\ Rank("item") < Rank(Head(Full(t)))
      BY <2>1, RanksAre
    <3> HIDE DEF t, S
    <3> QED
      BY <3>1, TodoCons DEF t, S
  <2>3. /\ <<"item", "parent", "write">> = <<"item">> \o (<<"parent">> \o <<"write">>)
        /\ {"item", "parent", "write", "answer"} = ({"write", "answer"} \cup {"parent"}) \cup {"item"}
    OBVIOUS
  <2> QED
    BY <2>2, <2>3
<1>4. Todo(<<"course", "list">>, {"course", "list", "answer"})
  <2>1. Todo(<<"course">> \o <<"list">>, {"list", "answer"} \cup {"course"})
    BY <1>1, TodoCons, RanksAre
  <2>2. /\ <<"course", "list">> = <<"course">> \o <<"list">>
        /\ {"course", "list", "answer"} = {"list", "answer"} \cup {"course"}
    OBVIOUS
  <2> QED
    BY <2>1, <2>2
<1>5. /\ Todo(<<"session", "count">>, {"session", "count", "answer"})
      /\ Head(Full(<<"session", "count">>)) = "session"
  <2>1. /\ Todo(<<"session">> \o <<"count">>, {"count", "answer"} \cup {"session"})
        /\ Head(Full(<<"session">> \o <<"count">>)) = "session"
    <3> PICK t, S : t = <<"count">> /\ S = {"count", "answer"}
      OBVIOUS
    <3>1. Todo(t, S) /\ "session" \in Statements /\ Rank("session") < Rank(Head(Full(t)))
      BY <1>1, RanksAre
    <3>2. Todo(<<"session">> \o t, S \cup {"session"}) /\ Head(Full(<<"session">> \o t)) = "session"
      BY <3>1, TodoCons
    <3> QED
      BY <3>2
  <2>2. /\ <<"session", "count">> = <<"session">> \o <<"count">>
        /\ {"session", "count", "answer"} = {"count", "answer"} \cup {"session"}
    OBVIOUS
  <2> QED
    BY <2>1, <2>2
<1>6. /\ Todo(<<"save", "session", "count">>, {"save", "session", "count", "answer"})
      /\ Head(Full(<<"save", "session", "count">>)) = "save"
  <2>1. /\ Todo(<<"save">> \o <<"session", "count">>, {"session", "count", "answer"} \cup {"save"})
        /\ Head(Full(<<"save">> \o <<"session", "count">>)) = "save"
    <3> PICK t, S : t = <<"session", "count">> /\ S = {"session", "count", "answer"}
      OBVIOUS
    <3>1. Todo(t, S) /\ "save" \in Statements /\ Rank("save") < Rank(Head(Full(t)))
      BY <1>5, RanksAre
    <3>2. Todo(<<"save">> \o t, S \cup {"save"}) /\ Head(Full(<<"save">> \o t)) = "save"
      BY <3>1, TodoCons
    <3> QED
      BY <3>2
  <2>2. /\ <<"save", "session", "count">> = <<"save">> \o <<"session", "count">>
        /\ {"save", "session", "count", "answer"} = {"session", "count", "answer"} \cup {"save"}
    OBVIOUS
  <2> QED
    BY <2>1, <2>2
<1>7. Todo(<<"attempt">> \o <<"grade", "save", "session", "count">>,
           {"attempt", "grade", "save", "session", "count", "answer"})
  <2>1. /\ Todo(<<"grade">> \o <<"save", "session", "count">>, {"save", "session", "count", "answer"} \cup {"grade"})
        /\ Head(Full(<<"grade">> \o <<"save", "session", "count">>)) = "grade"
    <3> PICK t, S : t = <<"save", "session", "count">> /\ S = {"save", "session", "count", "answer"}
      OBVIOUS
    <3>1. Todo(t, S) /\ "grade" \in Statements /\ Rank("grade") < Rank(Head(Full(t)))
      BY <1>6, RanksAre
    <3>2. Todo(<<"grade">> \o t, S \cup {"grade"}) /\ Head(Full(<<"grade">> \o t)) = "grade"
      BY <3>1, TodoCons
    <3> QED
      BY <3>2
  <2>2. Todo(<<"attempt">> \o (<<"grade">> \o <<"save", "session", "count">>),
             ({"save", "session", "count", "answer"} \cup {"grade"}) \cup {"attempt"})
    <3> DEFINE t == <<"grade">> \o <<"save", "session", "count">>
               S == {"save", "session", "count", "answer"} \cup {"grade"}
    <3>1. Todo(t, S) /\ "attempt" \in Statements /\ Rank("attempt") < Rank(Head(Full(t)))
      BY <2>1, RanksAre
    <3> HIDE DEF t, S
    <3> QED
      BY <3>1, TodoCons DEF t, S
  <2>3. /\ <<"grade", "save", "session", "count">> = <<"grade">> \o <<"save", "session", "count">>
        /\ {"attempt", "grade", "save", "session", "count", "answer"}
             = ({"save", "session", "count", "answer"} \cup {"grade"}) \cup {"attempt"}
    OBVIOUS
  <2> QED
    BY <2>2, <2>3
<1>8. Todo(<<"attempt">> \o <<"save">>, {"attempt", "save", "answer"})
  <2>1. Todo(<<"attempt">> \o <<"save">>, {"save", "answer"} \cup {"attempt"})
    BY <1>1, TodoCons, RanksAre
  <2>2. {"attempt", "save", "answer"} = {"save", "answer"} \cup {"attempt"}
    OBVIOUS
  <2> QED
    BY <2>1, <2>2
<1>9. Todo(<<"goals", "progress">>, {"goals", "progress", "answer"})
  <2>1. Todo(<<"goals">> \o <<"progress">>, {"progress", "answer"} \cup {"goals"})
    BY <1>1, TodoCons, RanksAre
  <2>2. /\ <<"goals", "progress">> = <<"goals">> \o <<"progress">>
        /\ {"goals", "progress", "answer"} = {"progress", "answer"} \cup {"goals"}
    OBVIOUS
  <2> QED
    BY <2>1, <2>2
<1>10. \A a \in {"save", "mark"} : Todo(<<"goal">> \o <<a>>, {"goal", a, "answer"})
  <2> SUFFICES ASSUME NEW a \in {"save", "mark"} PROVE Todo(<<"goal">> \o <<a>>, {"goal", a, "answer"})
    OBVIOUS
  <2>1. Todo(<<"goal">> \o <<a>>, {a, "answer"} \cup {"goal"})
    BY <1>1, TodoCons, RanksAre
  <2>2. {"goal", a, "answer"} = {a, "answer"} \cup {"goal"}
    OBVIOUS
  <2> QED
    BY <2>1, <2>2
<1> QED
  BY <1>1, <1>2, <1>3, <1>4, <1>5, <1>6, <1>7, <1>8, <1>9, <1>10

(* Where the items of a new set come in the list.                          *)
Made(l, n) ==
    \A j \in 1..Len(l) : /\ l[j] = "write" <=> Len(l) - j = n + 2
                         /\ l[j] = "child" <=> Len(l) - j \in 2..(n + 1)

(* A quiz or deck with n items.                                            *)
Children(n) == [i \in 1..n |-> "child"]
Reloaded(n) == Children(n) \o <<"reload">>
StepAt(n, j) == IF j <= n THEN "child" ELSE IF j = n + 1 THEN "reload" ELSE "answer"

LEMMA ReloadedIs ==
    ASSUME NEW n \in Nat
    PROVE  /\ Reloaded(n) \in Seq(Statements) /\ Len(Reloaded(n)) = n + 1
           /\ \A j \in 1..(n + 1) : Reloaded(n)[j] = StepAt(n, j)
<1> PICK a : a = Children(n)
  OBVIOUS
<1>1. a \in Seq(Statements) /\ Len(a) = n /\ \A j \in 1..n : a[j] = "child"
  BY RanksAre DEF Children
<1>2. <<"reload">> \in Seq(Statements)
  BY RanksAre
<1> QED
  BY <1>1, <1>2 DEF Reloaded, StepAt

LEMMA ChildrenAre ==
    ASSUME NEW n \in Nat
    PROVE  /\ Reloaded(n) \in Seq(Statements) /\ Full(Reloaded(n)) \in Seq(Statements)
           /\ Len(Full(Reloaded(n))) = n + 2
           /\ \A j \in 1..(n + 2) : Full(Reloaded(n))[j] = StepAt(n, j)
<1> PICK t : t = Reloaded(n)
  OBVIOUS
<1>1. /\ t \in Seq(Statements) /\ Len(t) = n + 1
      /\ \A j \in 1..(n + 1) : t[j] = StepAt(n, j)
  BY ReloadedIs
<1>2. <<"answer">> \in Seq(Statements) /\ StepAt(n, n + 2) = "answer"
  BY RanksAre DEF StepAt
<1> QED
  BY <1>1, <1>2 DEF Full

LEMMA TodoChildren ==
    ASSUME NEW n \in Nat, NEW t, t = Reloaded(n)
    PROVE  /\ Todo(t, IF n = 0 THEN {"reload", "answer"} ELSE {"child", "reload", "answer"})
           /\ Rank(Head(Full(t))) > 3
           /\ Len(Full(t)) = n + 2 /\ Made(Full(t), n)
<1> PICK l : l = Full(t)
  OBVIOUS
<1>0. /\ t \in Seq(Statements) /\ l \in Seq(Statements) /\ Len(l) = n + 2
      /\ \A j \in 1..(n + 2) : l[j] = StepAt(n, j)
  BY ChildrenAre
<1>1. /\ t \in Seq(Statements) /\ l \in Seq(Statements) /\ Len(l) = n + 2
      /\ \A j \in 1..(n + 2) : l[j] = IF j <= n THEN "child" ELSE IF j = n + 1 THEN "reload" ELSE "answer"
  BY <1>0 DEF StepAt
<1>2. Rank("child") = 4 /\ Rank("reload") = 5 /\ Rank("answer") = 6
  BY RanksAre
<1>3. Ordered(l)
  <2>1. l # <<>> /\ l[Len(l)] = "answer"
    BY <1>1
  <2>2. ASSUME NEW i \in 1..(n + 2), NEW j \in 1..(n + 2), i < j
        PROVE  Rank(l[i]) < Rank(l[j]) \/ (l[i] = "child" /\ l[j] = "child")
    <3>1. CASE i <= n /\ j <= n
      BY <1>1, <3>1
    <3>2. CASE i <= n /\ j = n + 1
      <4>1. l[i] = "child"
        BY <1>1, <3>2
      <4>2. l[j] = "reload"
        <5>1. ~ (j <= n) /\ j = n + 1
          BY <3>2
        <5>2. l[j] = IF j <= n THEN "child" ELSE IF j = n + 1 THEN "reload" ELSE "answer"
          BY <1>1
        <5> QED
          BY <5>1, <5>2
      <4> QED
        BY <1>2, <4>1, <4>2
    <3>3. CASE i <= n /\ j = n + 2
      <4>1. l[i] = "child" /\ l[j] = "answer"
        BY <1>1, <3>3
      <4> QED
        BY <1>2, <4>1
    <3>4. CASE i = n + 1 /\ j = n + 2
      <4>1. l[i] = "reload" /\ l[j] = "answer"
        BY <1>1, <3>4
      <4> QED
        BY <1>2, <4>1
    <3> QED
      BY <2>2, <3>1, <3>2, <3>3, <3>4
  <2> QED
    BY <1>1, <2>1, <2>2 DEF Ordered
<1>4. \A s : Ahead(l, s) <=> s \in IF n = 0 THEN {"reload", "answer"} ELSE {"child", "reload", "answer"}
  <2>1. ASSUME NEW s, Ahead(l, s) PROVE s \in IF n = 0 THEN {"reload", "answer"} ELSE {"child", "reload", "answer"}
    <3>1. PICK j \in 1..(n + 2) : l[j] = s
      BY <1>1, <2>1 DEF Ahead
    <3>2. s = IF j <= n THEN "child" ELSE IF j = n + 1 THEN "reload" ELSE "answer"
      BY <1>1, <3>1
    <3> QED
      BY <3>2
  <2>2. Ahead(l, "reload") /\ Ahead(l, "answer")
    <3>1. n + 1 \in 1..(n + 2) /\ n + 2 \in 1..(n + 2) /\ l[n + 1] = "reload" /\ l[n + 2] = "answer"
      BY <1>1
    <3> QED
      BY <1>1, <3>1 DEF Ahead
  <2>3. n # 0 => Ahead(l, "child")
    <3>1. 1 \in 1..(n + 2) /\ (n # 0 => 1 <= n)
      OBVIOUS
    <3>2. n # 0 => l[1] = "child"
      BY <1>1, <3>1
    <3> QED
      BY <1>1, <3>1, <3>2 DEF Ahead
  <2> QED
    BY <2>1, <2>2, <2>3
<1>5. Rank(Head(l)) > 3
  <2>1. Head(l) = l[1] /\ 1 \in 1..(n + 2)
    BY <1>1
  <2>2. l[1] = "child" \/ l[1] = "reload" \/ l[1] = "answer"
    BY <1>1, <2>1
  <2> QED
    BY <1>2, <2>1, <2>2
<1>6. Made(l, n)
  BY <1>1 DEF Made
<1> QED
  BY <1>1, <1>3, <1>4, <1>5, <1>6 DEF Todo

LEMMA MadeCons ==
    ASSUME NEW n \in Nat, NEW l, Len(l) \in Nat, Made(l, n), NEW k, Len(k) = Len(l) + 1, NEW a, k[1] = a,
           \A j \in 1..Len(l) : k[j + 1] = l[j],
           (a = "write" /\ Len(l) = n + 2) \/ (a \notin {"write", "child"} /\ Len(l) > n + 2)
    PROVE  Made(k, n)
<1> PICK m : m = Len(l)
  OBVIOUS
<1>1. m \in Nat /\ Len(k) = m + 1
  OBVIOUS
<1>2. ASSUME NEW j \in 2..(m + 1)
      PROVE  /\ k[j] = "write" <=> m + 1 - j = n + 2
             /\ k[j] = "child" <=> m + 1 - j \in 2..(n + 1)
  <2>1. PICK i : i = j - 1
    OBVIOUS
  <2>2. i \in 1..m /\ k[i + 1] = l[i] /\ j = i + 1 /\ m - i = m + 1 - j
    BY <1>1, <2>1
  <2>3. /\ l[i] = "write" <=> m - i = n + 2
        /\ l[i] = "child" <=> m - i \in 2..(n + 1)
    BY <2>2 DEF Made
  <2> QED
    BY <2>2, <2>3
<1>3. /\ k[1] = "write" <=> m + 1 - 1 = n + 2
      /\ k[1] = "child" <=> m + 1 - 1 \in 2..(n + 1)
  BY <1>1
<1>4. ASSUME NEW j \in 1..(m + 1)
      PROVE  /\ k[j] = "write" <=> m + 1 - j = n + 2
             /\ k[j] = "child" <=> m + 1 - j \in 2..(n + 1)
  <2>1. j = 1 \/ j \in 2..(m + 1)
    BY <1>1
  <2> QED
    BY <1>2, <1>3, <2>1
<1> QED
  BY <1>1, <1>4 DEF Made

LEMMA StepIs == \A x : \A a \in Statements : Step(x, a) \in Seq(Statements)
BY DEF Step

LEMMA MadeStep ==
    ASSUME NEW n \in Nat, NEW t, NEW t2, NEW S, Todo(t, S), NEW a, a \notin {"write", "child"},
           Follows(t, t2, a), Made(Full(t), n), Len(Full(t)) > n + 2
    PROVE  Made(Full(t2), n) /\ Len(Full(t2)) > n + 2
<1> PICK l, k : l = Full(t) /\ k = Full(t2)
  OBVIOUS
<1>2. \/ t2 = t
      \/ Len(k) = Len(l) + 1 /\ k[1] = a /\ \A j \in 1..Len(l) : k[j + 1] = l[j]
  BY DEF Follows
<1>3. Len(l) \in Nat
  BY TodoLen
<1>4. CASE t2 = t
  BY <1>4
<1>5. CASE Len(k) = Len(l) + 1 /\ k[1] = a /\ \A j \in 1..Len(l) : k[j + 1] = l[j]
  <2>1. Made(l, n) /\ Len(l) > n + 2 /\ a \notin {"write", "child"}
    OBVIOUS
  <2>2. Made(k, n)
    BY <1>3, <1>5, <2>1, MadeCons
  <2> QED
    BY <1>3, <1>5, <2>1, <2>2
<1> QED
  BY <1>2, <1>4, <1>5

NewSetList(c, m, n) ==
    Step(c, "course") \o Step(m, "material") \o <<"write">> \o [i \in 1..n |-> "child"] \o <<"reload">>

LEMMA TodoNew ==
    ASSUME NEW n \in Nat, NEW c, NEW m, NEW t, t = NewSetList(c, m, n)
    PROVE  /\ \E S : /\ Todo(t, S) /\ "write" \in S /\ (c # Nil => "course" \in S)
                     /\ S \subseteq {"course", "material", "write", "child", "reload", "answer"}
           /\ Made(Full(t), n)
<1>0. PICK a, w : a = Children(n) /\ w = <<"write">>
  OBVIOUS
<1>1. PICK t1 : t1 = Reloaded(n)
  OBVIOUS
<1>2. PICK S1 : S1 = IF n = 0 THEN {"reload", "answer"} ELSE {"child", "reload", "answer"}
  OBVIOUS
<1>3. /\ Todo(t1, S1) /\ Rank(Head(Full(t1))) > 3 /\ Len(Full(t1)) = n + 2
      /\ Made(Full(t1), n)
  BY <1>1, <1>2, TodoChildren
<1>4. PICK t2, S2 : t2 = w \o t1 /\ S2 = S1 \cup {"write"}
  OBVIOUS
<1>r. /\ Rank("write") = 3 /\ "write" \in Statements /\ "material" \in Statements /\ "course" \in Statements
      /\ Rank("material") = 2 /\ Rank("course") = 1
  BY RanksAre
<1>5. /\ Todo(t2, S2) /\ Head(Full(t2)) = "write" /\ Len(Full(t2)) > n + 2
      /\ Made(Full(t2), n)
  <2>1. Rank("write") < Rank(Head(Full(t1)))
    <3> PICK k : k = Rank(Head(Full(t1)))
      OBVIOUS
    <3>1. k \in Nat /\ k > 3
      BY <1>3, TodoLen
    <3> QED
      BY <1>r, <3>1
  <2> PICK l, k : l = Full(t1) /\ k = Full(t2)
    OBVIOUS
  <2>2. /\ Todo(t2, S2) /\ Head(k) = "write" /\ Len(k) = Len(l) + 1
        /\ \A j \in 1..Len(l) : k[j + 1] = l[j]
        /\ k[1] = "write"
    BY <1>0, <1>3, <1>4, <1>r, <2>1, TodoCons
  <2>3. Made(l, n) /\ Len(l) = n + 2 /\ Len(l) \in Nat /\ Len(k) = n + 3
    BY <1>3, <2>2
  <2>4. Made(k, n)
    BY <2>2, <2>3, MadeCons
  <2> QED
    BY <2>2, <2>3, <2>4
<1>6. PICK t3, S3 : t3 = Step(m, "material") \o t2 /\ S3 = Widened(S2, m, "material")
  OBVIOUS
<1>7. /\ Todo(t3, S3) /\ Head(Full(t3)) \in {"write", "material"} /\ Len(Full(t3)) > n + 2
      /\ Made(Full(t3), n)
  <2>1. Before("material", t2)
    BY <1>5, <1>r DEF Before
  <2>2. Todo(t3, S3) /\ Follows(t2, t3, "material")
    BY <1>5, <1>6, <1>r, <2>1, TodoStep
  <2>3. Head(Full(t3)) \in {"write", "material"}
    BY <1>5, <2>2 DEF Follows
  <2>4. Made(Full(t3), n) /\ Len(Full(t3)) > n + 2
    BY <1>5, <2>2, MadeStep
  <2> QED
    BY <2>2, <2>3, <2>4
<1>8. PICK t4, S4 : t4 = Step(c, "course") \o t3 /\ S4 = Widened(S3, c, "course")
  OBVIOUS
<1>9. Todo(t4, S4) /\ Made(Full(t4), n)
  <2>1. Before("course", t3)
    BY <1>7, <1>r DEF Before
  <2>2. Todo(t4, S4) /\ Follows(t3, t4, "course")
    BY <1>7, <1>8, <1>r, <2>1, TodoStep
  <2>3. Made(Full(t4), n)
    BY <1>7, <2>2, MadeStep
  <2> QED
    BY <2>2, <2>3
<1>10. t = t4
  <2>1. PICK sc, sm, z : sc = Step(c, "course") /\ sm = Step(m, "material") /\ z = <<"reload">>
    OBVIOUS
  <2>2. /\ sc \in Seq(Statements) /\ sm \in Seq(Statements) /\ w \in Seq(Statements) /\ z \in Seq(Statements)
    BY <1>0, <2>1, StepIs, RanksAre
  <2>3. a \in Seq(Statements)
    BY <1>0, RanksAre DEF Children
  <2>4. Glued(sc, sm, w, a, z) = Nested(sc, sm, w, a, z)
    BY <2>2, <2>3, RegroupAll
  <2>5. t = Glued(sc, sm, w, a, z)
    BY <1>0, <2>1, Zenon DEF NewSetList, Children, Glued
  <2>6. t1 = a \o z
    BY <1>0, <1>1, <2>1, Zenon DEF Reloaded
  <2> QED
    BY <1>4, <1>6, <1>8, <2>1, <2>4, <2>5, <2>6, Zenon DEF Nested
<1>11. "write" \in S4 /\ (c # Nil => "course" \in S4) /\ S4 \subseteq {"course", "material", "write", "child", "reload", "answer"}
  BY <1>2, <1>4, <1>6, <1>8 DEF Widened
<1> QED
  BY <1>9, <1>10, <1>11

ChangedSetList(c, m) == <<"row">> \o Step(c, "course") \o Step(m, "material") \o <<"write">>

LEMMA TodoChanged ==
    ASSUME NEW c, NEW m, NEW t, t = ChangedSetList(c, m)
    PROVE  \E S : /\ Todo(t, S) /\ "write" \in S /\ "row" \in S /\ (c # Nil => "course" \in S)
                  /\ S \subseteq {"row", "course", "material", "write", "answer"}
<1>0. PICK w, S2 : w = <<"write">> /\ S2 = {"write", "answer"}
  OBVIOUS
<1>1. Todo(w, S2) /\ Head(Full(w)) = "write"
  BY <1>0, TodoLast, RanksAre
<1>2. PICK t3, S3 : t3 = Step(m, "material") \o w /\ S3 = Widened(S2, m, "material")
  OBVIOUS
<1>3. /\ Rank("write") = 3 /\ Rank("material") = 2 /\ "material" \in Statements /\ Rank("course") = 1 /\ "course" \in Statements
      /\ Rank("row") = 0 /\ "row" \in Statements /\ w \in Seq(Statements)
  BY <1>0, RanksAre
<1>4. Todo(t3, S3) /\ Head(Full(t3)) \in {"write", "material"}
  <2>1. Before("material", w)
    BY <1>1, <1>3 DEF Before
  <2>2. Todo(t3, S3) /\ Follows(w, t3, "material")
    BY <1>1, <1>2, <1>3, <2>1, TodoStep
  <2> QED
    BY <1>1, <2>2 DEF Follows
<1>5. PICK t4, S4 : t4 = Step(c, "course") \o t3 /\ S4 = Widened(S3, c, "course")
  OBVIOUS
<1>6. Todo(t4, S4) /\ Head(Full(t4)) \in {"write", "material", "course"}
  <2>1. Before("course", t3)
    BY <1>3, <1>4 DEF Before
  <2>2. Todo(t4, S4) /\ Follows(t3, t4, "course")
    BY <1>3, <1>4, <1>5, <2>1, TodoStep
  <2> QED
    BY <1>4, <2>2 DEF Follows
<1>7. PICK S : S = S4 \cup {"row"}
  OBVIOUS
<1>8. Todo(<<"row">> \o t4, S)
  <2>1. Rank("row") < Rank(Head(Full(t4)))
    BY <1>3, <1>6
  <2> QED
    BY <1>3, <1>6, <1>7, <2>1, TodoCons
<1>9. t = <<"row">> \o t4
  <2>1. PICK sc, sm, z : sc = Step(c, "course") /\ sm = Step(m, "material") /\ z = <<"row">>
    OBVIOUS
  <2>2. /\ sc \in Seq(Statements) /\ sm \in Seq(Statements) /\ z \in Seq(Statements)
        /\ sm \o w \in Seq(Statements) /\ z \o sc \in Seq(Statements)
    BY <1>3, <2>1, StepIs, ConcatProperties
  <2>3. ((z \o sc) \o sm) \o w = (z \o sc) \o (sm \o w)
    BY <1>3, <2>2, Regroup, Zenon
  <2>4. (z \o sc) \o (sm \o w) = z \o (sc \o (sm \o w))
    BY <1>3, <2>2, Regroup, Zenon
  <2> QED
    BY <1>0, <1>2, <1>5, <2>1, <2>3, <2>4, Zenon DEF ChangedSetList
<1>10. "write" \in S /\ "row" \in S /\ (c # Nil => "course" \in S) /\ S \subseteq {"row", "course", "material", "write", "answer"}
  BY <1>0, <1>2, <1>5, <1>7 DEF Widened
<1> QED
  BY <1>8, <1>9, <1>10

LEMMA TodoMaterial ==
    ASSUME NEW c
    PROVE  /\ \E S : /\ Todo(Step(c, "course") \o <<"write">>, S) /\ "write" \in S /\ (c # Nil => "course" \in S)
                     /\ S \subseteq {"course", "write", "answer"}
           /\ \E S : /\ Todo(<<"row">> \o Step(c, "course") \o <<"write">>, S) /\ "write" \in S /\ "row" \in S
                     /\ (c # Nil => "course" \in S) /\ S \subseteq {"row", "course", "write", "answer"}
<1>0. PICK w, S2 : w = <<"write">> /\ S2 = {"write", "answer"}
  OBVIOUS
<1>1. Todo(w, S2) /\ Head(Full(w)) = "write"
  BY <1>0, TodoLast, RanksAre
<1>2. Rank("course") = 1 /\ Rank("write") = 3 /\ "course" \in Statements /\ "row" \in Statements /\ Rank("row") = 0
  BY RanksAre
<1>3. PICK t, S : t = Step(c, "course") \o w /\ S = Widened(S2, c, "course")
  OBVIOUS
<1>4. Todo(t, S) /\ Head(Full(t)) \in {"write", "course"}
  <2>1. Before("course", w)
    BY <1>1, <1>2 DEF Before
  <2>2. Todo(t, S) /\ Follows(w, t, "course")
    BY <1>1, <1>2, <1>3, <2>1, TodoStep
  <2> QED
    BY <1>1, <2>2 DEF Follows
<1>5. PICK S4 : S4 = S \cup {"row"}
  OBVIOUS
<1>6. Todo(<<"row">> \o t, S4)
  <2>1. Rank("row") < Rank(Head(Full(t)))
    BY <1>2, <1>4
  <2> QED
    BY <1>2, <1>4, <1>5, <2>1, TodoCons
<1>7. <<"row">> \o Step(c, "course") \o <<"write">> = <<"row">> \o t
  <2>1. Step(c, "course") \in Seq(Statements) /\ <<"row">> \in Seq(Statements) /\ w \in Seq(Statements)
    BY <1>0, StepIs, RanksAre
  <2> QED
    BY <1>0, <1>3, <2>1, Regroup, Zenon
<1>8. /\ "write" \in S /\ (c # Nil => "course" \in S) /\ S \subseteq {"course", "write", "answer"}
      /\ S4 = S \cup {"row"}
  BY <1>0, <1>3, <1>5 DEF Widened
<1>9. \E Z : /\ Todo(Step(c, "course") \o <<"write">>, Z) /\ "write" \in Z /\ (c # Nil => "course" \in Z)
             /\ Z \subseteq {"course", "write", "answer"}
  BY <1>0, <1>3, <1>4, <1>8
<1>10. \E Z : /\ Todo(<<"row">> \o Step(c, "course") \o <<"write">>, Z) /\ "write" \in Z /\ "row" \in Z
              /\ (c # Nil => "course" \in Z) /\ Z \subseteq {"row", "course", "write", "answer"}
  BY <1>6, <1>7, <1>8
<1> QED
  BY <1>9, <1>10

-----------------------------------------------------------------------------
(* A request that arrives, with the statements of S to make.               *)
RowOps == CourseOps \cup MaterialOps \cup QuizOps \cup DeckOps
ItemOps == QuestionOps \cup CardOps
CallIs(op, id, c, n) ==
    /\ op \in Operations /\ id \in IdsOf(op)
    /\ IF op = "SubmitAnswer" THEN n \in Questions ELSE n \in Nat
    /\ op = "CompleteQuizAttempt" => n = 1
    /\ op \in ListOps => c \in Courses
Starts(op, id, c, S) ==
    /\ \A s \in S : s # "answer" => op \in OpsOf(s)
    /\ "write" \in S \/ "list" \in S => "course" \in S \/ c = Nil
    /\ "write" \in S /\ op \in RowOps => "row" \in S
    /\ "write" \in S /\ op \in ItemOps => "item" \in S
    /\ "parent" \in S => "write" \in S
    /\ "count" \in S => "session" \in S
    /\ "save" \in S /\ op \in AttemptOps => "attempt" \in S
    /\ "save" \in S /\ op \in SavedGoalOps => "goal" \in S
    /\ "mark" \in S => id \in Goals
    /\ op \in NewOps => "write" \in S
    /\ op = "CompleteQuizAttempt" => ("save" \in S => "session" \in S) /\ ("session" \in S => "count" \in S)

LEMMA IdsIn == \A op : IdsOf(op) \subseteq Rows \cup {Nil}
BY DEF IdsOf, Rows, ContentIds, Sets, Items

Begun(r, u, op, id, c, n, t) ==
    /\ \A s \in Slots \ {r} : req'[s] = req[s]
    /\ req' \in [Slots -> Request \cup {Idle}] /\ served' \in Nat /\ faults' \in Nat
    /\ req'[r] \in Request
    /\ req'[r].op = op /\ req'[r].user = u /\ req'[r].id = id /\ req'[r].course = c
    /\ req'[r].n = n /\ req'[r].todo = Full(t) /\ req'[r].copy = Nil /\ req'[r].kids = {}

LEMMA BeginIs ==
    ASSUME Inv, NEW r \in Slots, NEW u \in Users, NEW op, NEW id, NEW c \in Courses \cup {Nil},
           NEW m \in Materials \cup {Nil}, NEW n, CallIs(op, id, c, n),
           NEW t, t \in Seq(Statements), Begin(r, u, Call(op, id, c, m, n), t)
    PROVE  Begun(r, u, op, id, c, n, t)
<1> DEFINE q == [op |-> op, user |-> u, id |-> id, course |-> c, material |-> m, n |-> n,
                 todo |-> Full(t), copy |-> Nil, kids |-> {}, err |-> "ok", begun |-> FALSE]
<1>1. req \in [Slots -> Request \cup {Idle}] /\ served \in Nat /\ faults \in Nat
  BY DEF Inv, RowsInv
<1>2. /\ req' = [req EXCEPT ![r] = q] /\ served' = served + 1 /\ faults' = faults
  BY DEF Begin, Call, Full
<1>3. q \in Request
  <2>1. id \in Rows \cup {Nil} /\ n \in Nat \cup Questions /\ op \in Operations
    BY IdsIn DEF CallIs
  <2>2. Full(t) \in Seq(Statements)
    BY RanksAre DEF Full
  <2>3. Nil \in Copies /\ "ok" \in Errors
    BY DEF Copies, Errors
  <2> QED
    BY <2>1, <2>2, <2>3 DEF Request
<1>4. /\ q.op = op /\ q.user = u /\ q.id = id /\ q.course = c
      /\ q.n = n /\ q.todo = Full(t) /\ q.copy = Nil /\ q.kids = {}
  OBVIOUS
<1> HIDE DEF q
<1> QED
  BY <1>1, <1>2, <1>3, <1>4 DEF Begun

LEMMA BeginActs ==
    ASSUME Inv, NEW r \in Slots, NEW u \in Users, NEW op, NEW id, NEW c \in Courses \cup {Nil},
           NEW m \in Materials \cup {Nil}, NEW n, CallIs(op, id, c, n),
           NEW t, NEW S, Todo(t, S), Starts(op, id, c, S), op \in NewOps => Made(Full(t), n),
           Begin(r, u, Call(op, id, c, m, n), t)
    PROVE  OneActs(r)
<1> PICK l : l = Full(t)
  OBVIOUS
<1>1. t \in Seq(Statements) /\ Ordered(l) /\ \A s : Ahead(l, s) <=> s \in S
  BY DEF Todo
<1>2. /\ \A s \in Slots \ {r} : req'[s] = req[s]
      /\ req' \in [Slots -> Request \cup {Idle}] /\ served' \in Nat /\ faults' \in Nat
      /\ req'[r] \in Request
      /\ req'[r].op = op /\ req'[r].user = u /\ req'[r].id = id /\ req'[r].course = c
      /\ req'[r].n = n /\ req'[r].todo = l /\ req'[r].copy = Nil /\ req'[r].kids = {}
  <2>1. Begun(r, u, op, id, c, n, t)
    BY <1>1, BeginIs
  <2> QED
    BY <2>1 DEF Begun
<1>3. Shape(req[r])'
  <2>1. \A j \in 1..Len(l) : l[j] # "answer" => op \in OpsOf(l[j])
    BY <1>1 DEF Starts, Ahead
  <2>2. op \in NewOps => \A j \in 1..Len(l) :
          /\ l[j] = "write" <=> Len(l) - j = n + 2
          /\ l[j] = "child" <=> Len(l) - j \in 2..(n + 1)
    BY DEF Made
  <2>3. op = "CompleteQuizAttempt" => Trailing(l)
    BY <1>1 DEF Starts, Trailing
  <2> QED
    BY <1>1, <1>2, <2>1, <2>2, <2>3 DEF Shape, CallIs
<1>4. Checked(req[r])'
  BY <1>1, <1>2 DEF Checked, Place, Starts
<1>5. /\ ~ (Past(req[r], "row", "write")' /\ op \in RowOps)
      /\ ~ (Past(req[r], "item", "write")' /\ op \in ItemOps)
      /\ ~ (Past(req[r], "attempt", "save")' /\ op \in AttemptOps)
      /\ ~ (Past(req[r], "goal", "save")' /\ op \in SavedGoalOps)
      /\ ~ (Past(req[r], "session", "count")')
      /\ ~ (Past(req[r], "write", "reload")' /\ op \in NewOps)
  BY <1>1, <1>2 DEF Past, Starts
<1>6. ReadInv(req[r])'
  <2>1. /\ Ahead(l, "parent") => Ahead(l, "write")
        /\ Ahead(l, "count") => Ahead(l, "session")
        /\ Ahead(l, "mark") => id \in Goals
    BY <1>1 DEF Starts
  <2> QED
    BY <1>2, <1>5, <2>1 DEF ReadInv, RowOps, ItemOps
<1>7. ShownInv(req[r])'
  BY <1>2 DEF ShownInv
<1>8. NewInv(req[r])'
  BY <1>2, <1>5 DEF NewInv
<1>9. FreshInv(r)'
  <2>1. {"UpdateCourse", "UpdateMaterial", "UpdateQuiz", "UpdateFlashcardDeck"} \subseteq RowOps
    BY DEF RowOps, CourseOps, MaterialOps, QuizOps, DeckOps
  <2> QED
    BY <1>2, <1>5, <2>1 DEF FreshInv, ItemOps
<1> QED
  BY <1>2, <1>3, <1>4, <1>6, <1>7, <1>8, <1>9 DEF ReqInv, OneActs

LEMMA OpsOfRest ==
    /\ OpsOf("course") = {"CreateMaterial", "UpdateMaterial", "UpdateQuiz", "UpdateFlashcardDeck"} \cup NewOps \cup ListOps
    /\ OpsOf("material") = {"UpdateQuiz", "UpdateFlashcardDeck"} \cup NewOps
    /\ OpsOf("grade") = {"CompleteQuizAttempt"}
BY DEF OpsOf

LEMMA IdsOfAre ==
    /\ IdsOf("CreateCourse") = {Nil} /\ IdsOf("CreateMaterial") = {Nil}
    /\ \A op \in ListOps : IdsOf(op) = {Nil}
    /\ \A op \in NewOps : Nil \in IdsOf(op)
    /\ IdsOf("StartQuizAttempt") = Quizzes /\ IdsOf("RecordStudySession") = {Nil}
    /\ IdsOf("CreateLearningGoal") = {Nil} /\ Nil \in IdsOf("GetLearningGoals")
    /\ \A op \in CourseOps : IdsOf(op) = Courses
    /\ \A op \in MaterialOps : IdsOf(op) = Materials
    /\ \A op \in QuizOps : IdsOf(op) = Quizzes
    /\ \A op \in DeckOps : IdsOf(op) = Decks
    /\ \A op \in QuestionOps : IdsOf(op) = Questions
    /\ \A op \in CardOps : IdsOf(op) = Cards
    /\ \A op \in AttemptOps : IdsOf(op) = Attempts
    /\ \A op \in GoalOps : IdsOf(op) = Goals
<1> USE DEF CourseOps, MaterialOps, QuizOps, DeckOps, QuestionOps, CardOps, AttemptOps, SavedGoalOps, GoalOps, NewOps, ListOps
<1>1. \A op \in CourseOps : IdsOf(op) = Courses
  BY DEF IdsOf
<1>2. \A op \in MaterialOps : IdsOf(op) = Materials
  BY DEF IdsOf
<1>3. \A op \in QuizOps : IdsOf(op) = Quizzes
  BY DEF IdsOf
<1>4. \A op \in DeckOps : IdsOf(op) = Decks
  BY DEF IdsOf
<1>5. \A op \in QuestionOps : IdsOf(op) = Questions
  BY DEF IdsOf
<1>6. \A op \in CardOps : IdsOf(op) = Cards
  BY DEF IdsOf
<1>7. \A op \in AttemptOps : IdsOf(op) = Attempts
  BY DEF IdsOf
<1>8. \A op \in GoalOps : IdsOf(op) = Goals
  BY DEF IdsOf
<1>9. \A op \in ListOps : IdsOf(op) = {Nil}
  BY DEF IdsOf
<1>10. \A op \in NewOps : Nil \in IdsOf(op)
  BY DEF IdsOf
<1>11. /\ IdsOf("CreateCourse") = {Nil} /\ IdsOf("CreateMaterial") = {Nil}
       /\ IdsOf("StartQuizAttempt") = Quizzes /\ IdsOf("RecordStudySession") = {Nil}
       /\ IdsOf("CreateLearningGoal") = {Nil} /\ Nil \in IdsOf("GetLearningGoals")
  BY DEF IdsOf
<1> QED
  BY ONLY <1>1, <1>2, <1>3, <1>4, <1>5, <1>6, <1>7, <1>8, <1>9, <1>10, <1>11

(* The operations, by their handlers.                                      *)
LEMMA RowOpStarts ==
    ASSUME NEW op \in RowOps, NEW x \in IdsOf(op)
    PROVE  /\ CallIs(op, x, Nil, 0)
           /\ Starts(op, x, Nil, {"row", "answer"}) /\ Starts(op, x, Nil, {"row", "write", "answer"})
           /\ op \notin NewOps
<1>1. op \in Operations /\ op \in OpsOf("row") /\ op \in OpsOf("write")
  BY OpsOfAre DEF RowOps, Operations
<1>2. /\ op \notin ListOps \cup AttemptOps \cup SavedGoalOps \cup NewOps \cup ItemOps
      /\ op # "SubmitAnswer" /\ op # "CompleteQuizAttempt"
  BY OpsApart DEF RowOps, ItemOps, AttemptOps, GoalOps
<1> QED
  BY <1>1, <1>2 DEF CallIs, Starts

LEMMA ItemOpStarts ==
    ASSUME NEW op \in ItemOps, NEW x \in IdsOf(op)
    PROVE  /\ CallIs(op, x, Nil, 0)
           /\ Starts(op, x, Nil, {"item", "parent", "write", "answer"})
           /\ op \notin NewOps
<1>1. op \in Operations /\ op \in OpsOf("item") /\ op \in OpsOf("parent") /\ op \in OpsOf("write")
  BY OpsOfAre DEF ItemOps, Operations
<1>2. /\ op \notin ListOps \cup AttemptOps \cup SavedGoalOps \cup NewOps \cup RowOps
      /\ op # "SubmitAnswer" /\ op # "CompleteQuizAttempt"
  BY OpsApart DEF RowOps, ItemOps, AttemptOps, GoalOps
<1> QED
  BY <1>1, <1>2 DEF CallIs, Starts

LEMMA OnRowActs ==
    ASSUME Inv, NEW r \in Slots, NEW u \in Users, NEW op \in RowOps, NEW kind, kind = IdsOf(op),
           OnRow(r, u, op, kind) \/ ReadOne(r, u, op, kind)
    PROVE  OneActs(r)
<1>1. Todo(<<"row", "write">>, {"row", "write", "answer"}) /\ Todo(<<"row">>, {"row", "answer"})
  BY TodosAre
<1>2. \A x \in IdsOf(op) :
        /\ CallIs(op, x, Nil, 0) /\ op \notin NewOps
        /\ Starts(op, x, Nil, {"row", "answer"}) /\ Starts(op, x, Nil, {"row", "write", "answer"})
  BY RowOpStarts
<1>3. CASE OnRow(r, u, op, kind)
  <2>1. PICK x \in IdsOf(op) : Begin(r, u, Call(op, x, Nil, Nil, 0), <<"row", "write">>)
    BY <1>3 DEF OnRow
  <2> QED
    BY <1>1, <1>2, <2>1, BeginActs
<1>4. CASE ReadOne(r, u, op, kind)
  <2>1. PICK x \in IdsOf(op) : Begin(r, u, Call(op, x, Nil, Nil, 0), <<"row">>)
    BY <1>4 DEF ReadOne
  <2> QED
    BY <1>1, <1>2, <2>1, BeginActs
<1> QED
  BY <1>3, <1>4

LEMMA OnItemActs ==
    ASSUME Inv, NEW r \in Slots, NEW u \in Users, NEW op \in ItemOps, NEW kind, kind = IdsOf(op),
           OnItem(r, u, op, kind)
    PROVE  OneActs(r)
<1>1. Todo(<<"item", "parent", "write">>, {"item", "parent", "write", "answer"})
  BY TodosAre
<1>2. PICK x \in IdsOf(op) : Begin(r, u, Call(op, x, Nil, Nil, 0), <<"item", "parent", "write">>)
  BY DEF OnItem
<1>3. /\ CallIs(op, x, Nil, 0) /\ op \notin NewOps
      /\ Starts(op, x, Nil, {"item", "parent", "write", "answer"})
  BY ItemOpStarts
<1> QED
  BY <1>1, <1>2, <1>3, BeginActs

LEMMA ReadListActs ==
    ASSUME Inv, NEW r \in Slots, NEW u \in Users, NEW op \in ListOps, ReadList(r, u, op)
    PROVE  OneActs(r)
<1>1. Todo(<<"course", "list">>, {"course", "list", "answer"})
  BY TodosAre
<1>2. PICK c \in Courses : Begin(r, u, Call(op, Nil, c, Nil, 0), <<"course", "list">>)
  BY DEF ReadList
<1>3. op \in Operations /\ op \in OpsOf("course") /\ op \in OpsOf("list") /\ Nil \in IdsOf(op)
  BY OpsOfAre, OpsOfRest, IdsOfAre DEF Operations
<1>4. op \notin NewOps /\ op # "SubmitAnswer" /\ op # "CompleteQuizAttempt"
  BY DEF ListOps, NewOps
<1>5. CallIs(op, Nil, c, 0)
  BY <1>3, <1>4 DEF CallIs
<1>6. Starts(op, Nil, c, {"course", "list", "answer"})
  BY <1>3, <1>4 DEF Starts
<1> QED
  BY <1>1, <1>2, <1>4, <1>5, <1>6, BeginActs

LEMMA NewSetActs ==
    ASSUME Inv, NEW r \in Slots, NEW u \in Users, NEW op \in NewOps, NewSet(r, u, op)
    PROVE  OneActs(r)
<1>1. PICK p \in Places, n \in 0..MaxBatch :
        Begin(r, u, Call(op, Nil, p[1], p[2], n), NewSetList(p[1], p[2], n))
  BY DEF NewSet, NewSetList
<1>2. PICK c, m, t : c = p[1] /\ m = p[2] /\ t = NewSetList(c, m, n)
  OBVIOUS
<1>3. c \in Courses \cup {Nil} /\ m \in Materials \cup {Nil} /\ n \in Nat
  BY <1>1, <1>2, ContentAssumption DEF Places
<1>4. PICK S : /\ Todo(t, S) /\ "write" \in S /\ (c # Nil => "course" \in S)
               /\ S \subseteq {"course", "material", "write", "child", "reload", "answer"}
  BY <1>2, <1>3, TodoNew
<1>5. Made(Full(t), n)
  BY <1>2, <1>3, TodoNew
<1>6. /\ op \in Operations /\ op \in OpsOf("course") /\ op \in OpsOf("material") /\ op \in OpsOf("write")
      /\ op \in OpsOf("child") /\ op \in OpsOf("reload") /\ Nil \in IdsOf(op)
  BY OpsOfAre, OpsOfRest, IdsOfAre DEF Operations
<1>7. /\ op \notin ListOps \cup RowOps \cup ItemOps
      /\ op # "SubmitAnswer" /\ op # "CompleteQuizAttempt"
  BY OpsApart DEF RowOps, ItemOps, NewOps
<1>8. CallIs(op, Nil, c, n)
  BY <1>3, <1>6, <1>7 DEF CallIs
<1>9. Starts(op, Nil, c, S)
  BY <1>4, <1>6, <1>7 DEF Starts
<1> QED
  BY <1>1, <1>2, <1>3, <1>4, <1>5, <1>8, <1>9, BeginActs

LEMMA ChangedSetActs ==
    ASSUME Inv, NEW r \in Slots, NEW u \in Users, NEW op \in {"UpdateQuiz", "UpdateFlashcardDeck"},
           NEW kind, kind = IdsOf(op), ChangedSet(r, u, op, kind)
    PROVE  OneActs(r)
<1>1. PICK s \in IdsOf(op), p \in Places :
        Begin(r, u, Call(op, s, p[1], p[2], 0), ChangedSetList(p[1], p[2]))
  BY DEF ChangedSet, ChangedSetList
<1>2. PICK c, m, t : c = p[1] /\ m = p[2] /\ t = ChangedSetList(c, m)
  OBVIOUS
<1>3. c \in Courses \cup {Nil} /\ m \in Materials \cup {Nil}
  BY <1>1, <1>2 DEF Places
<1>4. PICK S : /\ Todo(t, S) /\ "write" \in S /\ "row" \in S /\ (c # Nil => "course" \in S)
               /\ S \subseteq {"row", "course", "material", "write", "answer"}
  BY <1>2, TodoChanged
<1>5. op \in RowOps
  BY DEF RowOps, QuizOps, DeckOps
<1>6. /\ op \in Operations /\ op \in OpsOf("course") /\ op \in OpsOf("material") /\ op \in OpsOf("write")
      /\ op \in OpsOf("row")
  BY <1>5, OpsOfAre, OpsOfRest DEF Operations, RowOps
<1>7. /\ op \notin ListOps \cup NewOps \cup ItemOps
      /\ op # "SubmitAnswer" /\ op # "CompleteQuizAttempt"
  BY <1>5, OpsApart DEF RowOps, ItemOps
<1>8. CallIs(op, s, c, 0)
  BY <1>6, <1>7 DEF CallIs
<1>9. Starts(op, s, c, S)
  BY <1>4, <1>6, <1>7 DEF Starts
<1> QED
  BY <1>1, <1>2, <1>3, <1>4, <1>7, <1>8, <1>9, BeginActs

LEMMA PostCourseActs ==
    ASSUME Inv, NEW r \in Slots, NEW u \in Users, PostCourse(r, u)
    PROVE  OneActs(r)
<1>1. Begin(r, u, Call("CreateCourse", Nil, Nil, Nil, 0), <<"write">>)
  BY DEF PostCourse
<1>2. Todo(<<"write">>, {"write", "answer"})
  BY TodosAre
<1>3. CallIs("CreateCourse", Nil, Nil, 0)
  BY IdsOfAre DEF CallIs, Operations, ListOps
<1>4. Starts("CreateCourse", Nil, Nil, {"write", "answer"}) /\ "CreateCourse" \notin NewOps
  <2>1. "CreateCourse" \notin RowOps \cup ItemOps \cup NewOps
    BY DEF RowOps, CourseOps, MaterialOps, QuizOps, DeckOps, ItemOps, QuestionOps, CardOps, NewOps
  <2>2. "CreateCourse" \in OpsOf("write")
    BY OpsOfAre
  <2> QED
    BY <2>1, <2>2 DEF Starts
<1> QED
  BY <1>1, <1>2, <1>3, <1>4, BeginActs

LEMMA PostMaterialActs ==
    ASSUME Inv, NEW r \in Slots, NEW u \in Users, PostMaterial(r, u)
    PROVE  OneActs(r)
<1>1. PICK c \in OrNil(Courses) :
        Begin(r, u, Call("CreateMaterial", Nil, c, Nil, 0), Step(c, "course") \o <<"write">>)
  BY DEF PostMaterial
<1>2. PICK t, op : t = Step(c, "course") \o <<"write">> /\ op = "CreateMaterial"
  OBVIOUS
<1>3. PICK S : /\ Todo(t, S) /\ "write" \in S /\ (c # Nil => "course" \in S)
               /\ S \subseteq {"course", "write", "answer"}
  BY <1>2, TodoMaterial
<1>4. CallIs(op, Nil, c, 0)
  BY <1>2, IdsOfAre DEF CallIs, Operations, ListOps
<1>5. op \notin RowOps \cup ItemOps \cup NewOps
  BY <1>2 DEF RowOps, CourseOps, MaterialOps, QuizOps, DeckOps, ItemOps, QuestionOps, CardOps, NewOps
<1>6. op \in OpsOf("write") /\ op \in OpsOf("course")
  BY <1>2, OpsOfAre, OpsOfRest
<1>7. Starts(op, Nil, c, S)
  BY <1>2, <1>3, <1>5, <1>6 DEF Starts
<1>8. c \in Courses \cup {Nil} /\ Begin(r, u, Call(op, Nil, c, Nil, 0), t)
  BY <1>1, <1>2 DEF OrNil
<1> QED
  BY <1>3, <1>4, <1>5, <1>7, <1>8, BeginActs

LEMMA PutMaterialActs ==
    ASSUME Inv, NEW r \in Slots, NEW u \in Users, PutMaterial(r, u)
    PROVE  OneActs(r)
<1>1. PICK x \in Materials, c \in OrNil(Courses) :
        Begin(r, u, Call("UpdateMaterial", x, c, Nil, 0), <<"row">> \o Step(c, "course") \o <<"write">>)
  BY DEF PutMaterial
<1>2. PICK t, op : t = <<"row">> \o Step(c, "course") \o <<"write">> /\ op = "UpdateMaterial"
  OBVIOUS
<1>3. PICK S : /\ Todo(t, S) /\ "write" \in S /\ "row" \in S /\ (c # Nil => "course" \in S)
               /\ S \subseteq {"row", "course", "write", "answer"}
  BY <1>2, TodoMaterial
<1>4. CallIs(op, x, c, 0)
  BY <1>2, IdsOfAre DEF CallIs, Operations, ListOps, MaterialOps
<1>5. op \in RowOps /\ op \in MaterialOps /\ op \notin ItemOps \cup NewOps
  BY <1>2 DEF RowOps, MaterialOps, ItemOps, QuestionOps, CardOps, NewOps
<1>6. op \in OpsOf("write") /\ op \in OpsOf("course") /\ op \in OpsOf("row")
  BY <1>2, <1>5, OpsOfAre, OpsOfRest
<1>7. Starts(op, x, c, S)
  BY <1>2, <1>3, <1>5, <1>6 DEF Starts
<1>8. c \in Courses \cup {Nil} /\ Begin(r, u, Call(op, x, c, Nil, 0), t)
  BY <1>1, <1>2 DEF OrNil
<1> QED
  BY <1>3, <1>4, <1>5, <1>7, <1>8, BeginActs

LEMMA ContentRequestActs ==
    ASSUME Inv, NEW r \in Slots, NEW u \in Users, ContentRequest(r, u)
    PROVE  OneActs(r)
<1>1. /\ \A op \in CourseOps : op \in RowOps /\ IdsOf(op) = Courses
      /\ \A op \in MaterialOps : op \in RowOps /\ IdsOf(op) = Materials
      /\ \A op \in QuizOps : op \in RowOps /\ IdsOf(op) = Quizzes
      /\ \A op \in DeckOps : op \in RowOps /\ IdsOf(op) = Decks
      /\ \A op \in QuestionOps : op \in ItemOps /\ IdsOf(op) = Questions
      /\ \A op \in CardOps : op \in ItemOps /\ IdsOf(op) = Cards
  BY IdsOfAre DEF RowOps, ItemOps
<1>2. CASE FetchCourse(r, u) \/ PutCourse(r, u) \/ RemoveCourse(r, u)
  <2>1. PICK op \in CourseOps : OnRow(r, u, op, Courses) \/ ReadOne(r, u, op, Courses)
    BY <1>2 DEF FetchCourse, PutCourse, RemoveCourse, CourseOps
  <2> QED
    BY <1>1, <2>1, OnRowActs
<1>3. CASE FetchMaterial(r, u) \/ RemoveMaterial(r, u)
  <2>1. PICK op \in MaterialOps : OnRow(r, u, op, Materials) \/ ReadOne(r, u, op, Materials)
    BY <1>3 DEF FetchMaterial, RemoveMaterial, MaterialOps
  <2> QED
    BY <1>1, <2>1, OnRowActs
<1>4. CASE FetchQuiz(r, u) \/ RemoveQuiz(r, u) \/ PostQuestion(r, u)
  <2>1. PICK op \in QuizOps : OnRow(r, u, op, Quizzes) \/ ReadOne(r, u, op, Quizzes)
    BY <1>4 DEF FetchQuiz, RemoveQuiz, PostQuestion, QuizOps
  <2> QED
    BY <1>1, <2>1, OnRowActs
<1>5. CASE FetchDeck(r, u) \/ RemoveDeck(r, u) \/ PostCard(r, u)
  <2>1. PICK op \in DeckOps : OnRow(r, u, op, Decks) \/ ReadOne(r, u, op, Decks)
    BY <1>5 DEF FetchDeck, RemoveDeck, PostCard, DeckOps
  <2> QED
    BY <1>1, <2>1, OnRowActs
<1>6. CASE PutQuestion(r, u) \/ RemoveQuestion(r, u)
  <2>1. PICK op \in QuestionOps : OnItem(r, u, op, Questions)
    BY <1>6 DEF PutQuestion, RemoveQuestion, QuestionOps
  <2> QED
    BY <1>1, <2>1, OnItemActs
<1>7. CASE PutCard(r, u) \/ RemoveCard(r, u)
  <2>1. PICK op \in CardOps : OnItem(r, u, op, Cards)
    BY <1>7 DEF PutCard, RemoveCard, CardOps
  <2> QED
    BY <1>1, <2>1, OnItemActs
<1>8. CASE ListMaterials(r, u) \/ ListQuizzes(r, u)
  <2>1. PICK op \in ListOps : ReadList(r, u, op)
    BY <1>8 DEF ListMaterials, ListQuizzes, ListOps
  <2> QED
    BY <2>1, ReadListActs
<1>9. CASE PostQuiz(r, u) \/ PostDeck(r, u)
  <2>1. PICK op \in NewOps : NewSet(r, u, op)
    BY <1>9 DEF PostQuiz, PostDeck, NewOps
  <2> QED
    BY <2>1, NewSetActs
<1>10. CASE PutQuiz(r, u)
  <2>1. "UpdateQuiz" \in QuizOps
    BY DEF QuizOps
  <2> QED
    BY <1>1, <1>10, <2>1, ChangedSetActs DEF PutQuiz
<1>11. CASE PutDeck(r, u)
  <2>1. "UpdateFlashcardDeck" \in DeckOps
    BY DEF DeckOps
  <2> QED
    BY <1>1, <1>11, <2>1, ChangedSetActs DEF PutDeck
<1> QED
  BY <1>2, <1>3, <1>4, <1>5, <1>6, <1>7, <1>8, <1>9, <1>10, <1>11,
     PostCourseActs, PostMaterialActs, PutMaterialActs DEF ContentRequest

(* Of the analytics service.                                               *)
LEMMA PlainActs ==
    ASSUME Inv, NEW r \in Slots, NEW u \in Users, NEW op \in Operations, NEW x \in IdsOf(op), NEW n,
           op \notin RowOps \cup ItemOps \cup NewOps \cup ListOps,
           IF op = "SubmitAnswer" THEN n \in Questions ELSE n \in Nat,
           op = "CompleteQuizAttempt" => n = 1,
           NEW t, NEW S, Todo(t, S), S \cap {"write", "list", "parent"} = {},
           \A s \in S : s # "answer" => op \in OpsOf(s),
           "count" \in S => "session" \in S,
           "save" \in S /\ op \in AttemptOps => "attempt" \in S,
           "save" \in S /\ op \in SavedGoalOps => "goal" \in S,
           "mark" \in S => x \in Goals,
           op = "CompleteQuizAttempt" => "session" \in S /\ "count" \in S,
           Begin(r, u, Call(op, x, Nil, Nil, n), t)
    PROVE  OneActs(r)
<1>1. CallIs(op, x, Nil, n) /\ op \notin NewOps
  BY DEF CallIs
<1>2. Starts(op, x, Nil, S)
  <2>1. "write" \notin S /\ "list" \notin S /\ "parent" \notin S
    OBVIOUS
  <2> QED
    BY <2>1 DEF Starts
<1> QED
  BY <1>1, <1>2, BeginActs

LEMMA OthersApart ==
    /\ \A op \in AttemptOps \cup GoalOps \cup SessionOps \cup {"GetLearningGoals", "CreateLearningGoal"} :
         op \notin RowOps \cup ItemOps \cup NewOps \cup ListOps /\ op \in Operations
    /\ \A op \in GoalOps : op \notin AttemptOps
    /\ "StartQuizAttempt" \notin AttemptOps \cup SavedGoalOps /\ "CreateLearningGoal" \notin AttemptOps \cup SavedGoalOps
    /\ \A op \in AttemptOps : op \notin SavedGoalOps
    /\ "StartQuizAttempt" \in SessionOps /\ "CompleteQuizAttempt" \in SessionOps /\ "RecordStudySession" \in SessionOps
    /\ "SubmitAnswer" \in AttemptOps /\ "CompleteQuizAttempt" \in AttemptOps
    /\ "UpdateLearningGoal" \in SavedGoalOps /\ "DeleteLearningGoal" \in SavedGoalOps
    /\ "CompleteLearningGoal" \in GoalOps /\ "CompleteLearningGoal" \notin SavedGoalOps
    /\ SavedGoalOps \subseteq GoalOps
<1>1. \A op \in AttemptOps \cup GoalOps \cup SessionOps \cup {"GetLearningGoals", "CreateLearningGoal"} :
         op \notin NewOps \cup ListOps /\ op \in Operations
  BY DEF AttemptOps, GoalOps, SavedGoalOps, SessionOps, NewOps, ListOps, Operations
<1>2. \A op \in AttemptOps \cup GoalOps \cup SessionOps \cup {"GetLearningGoals", "CreateLearningGoal"} :
         op \notin RowOps \cup ItemOps
  BY OpsApart DEF RowOps, ItemOps
<1> QED
  BY <1>1, <1>2 DEF AttemptOps, GoalOps, SavedGoalOps, SessionOps

LEMMA PostAttemptActs ==
    ASSUME Inv, NEW r \in Slots, NEW u \in Users, PostAttempt(r, u)
    PROVE  OneActs(r)
<1>1. PICK q \in Quizzes :
        Begin(r, u, Call("StartQuizAttempt", q, Nil, Nil, 0), <<"save", "session", "count">>)
  BY DEF PostAttempt
<1>2. Todo(<<"save", "session", "count">>, {"save", "session", "count", "answer"})
  BY TodosAre
<1>3. \A s \in {"save", "session", "count", "answer"} : s # "answer" => "StartQuizAttempt" \in OpsOf(s)
  BY OpsOfAre, OthersApart
<1>4. q \in IdsOf("StartQuizAttempt")
  BY IdsOfAre
<1> QED
  BY <1>1, <1>2, <1>3, <1>4, OthersApart, PlainActs

LEMMA PostAnswerActs ==
    ASSUME Inv, NEW r \in Slots, NEW u \in Users, PostAnswer(r, u)
    PROVE  OneActs(r)
<1>1. PICK i \in Questions, a \in Attempts :
        Begin(r, u, Call("SubmitAnswer", a, Nil, Nil, i), <<"attempt">> \o <<"save">>)
  BY DEF PostAnswer, OnAttempt
<1>2. Todo(<<"attempt">> \o <<"save">>, {"attempt", "save", "answer"})
  BY TodosAre
<1>3. \A s \in {"attempt", "save", "answer"} : s # "answer" => "SubmitAnswer" \in OpsOf(s)
  BY OpsOfAre, OthersApart
<1>4. a \in IdsOf("SubmitAnswer")
  BY IdsOfAre, OthersApart
<1> PICK t : t = <<"attempt">> \o <<"save">>
  OBVIOUS
<1> QED
  BY <1>1, <1>2, <1>3, <1>4, OthersApart, PlainActs

LEMMA PostCompletionActs ==
    ASSUME Inv, NEW r \in Slots, NEW u \in Users, PostCompletion(r, u)
    PROVE  OneActs(r)
<1> PICK t, S : /\ t = <<"attempt">> \o <<"grade", "save", "session", "count">>
                /\ S = {"attempt", "grade", "save", "session", "count", "answer"}
  OBVIOUS
<1>1. PICK a \in Attempts : Begin(r, u, Call("CompleteQuizAttempt", a, Nil, Nil, 1), t)
  BY DEF PostCompletion, OnAttempt
<1>2. Todo(t, S)
  BY TodosAre
<1>3. \A s \in S : s # "answer" => "CompleteQuizAttempt" \in OpsOf(s)
  BY OpsOfAre, OpsOfRest, OthersApart
<1>4. a \in IdsOf("CompleteQuizAttempt")
  BY IdsOfAre, OthersApart
<1>5. S \cap {"write", "list", "parent"} = {} /\ "session" \in S /\ "count" \in S /\ "attempt" \in S /\ "mark" \notin S
  OBVIOUS
<1> QED
  BY <1>1, <1>2, <1>3, <1>4, <1>5, OthersApart, PlainActs

LEMMA PostStudySessionActs ==
    ASSUME Inv, NEW r \in Slots, NEW u \in Users, PostStudySession(r, u)
    PROVE  OneActs(r)
<1>1. PICK n \in 0..1 : Begin(r, u, Call("RecordStudySession", Nil, Nil, Nil, n), <<"session", "count">>)
  BY DEF PostStudySession
<1>2. Todo(<<"session", "count">>, {"session", "count", "answer"})
  BY TodosAre
<1>3. \A s \in {"session", "count", "answer"} : s # "answer" => "RecordStudySession" \in OpsOf(s)
  BY OpsOfAre, OthersApart
<1>4. Nil \in IdsOf("RecordStudySession")
  BY IdsOfAre
<1> QED
  BY <1>1, <1>2, <1>3, <1>4, OthersApart, PlainActs

LEMMA PostGoalActs ==
    ASSUME Inv, NEW r \in Slots, NEW u \in Users, PostGoal(r, u)
    PROVE  OneActs(r)
<1>1. Begin(r, u, Call("CreateLearningGoal", Nil, Nil, Nil, 0), <<"save">>)
  BY DEF PostGoal
<1>2. Todo(<<"save">>, {"save", "answer"})
  BY TodosAre
<1>3. \A s \in {"save", "answer"} : s # "answer" => "CreateLearningGoal" \in OpsOf(s)
  BY OpsOfAre
<1>4. Nil \in IdsOf("CreateLearningGoal")
  BY IdsOfAre
<1> QED
  BY <1>1, <1>2, <1>3, <1>4, OthersApart, PlainActs

LEMMA FetchGoalsActs ==
    ASSUME Inv, NEW r \in Slots, NEW u \in Users, FetchGoals(r, u)
    PROVE  OneActs(r)
<1>1. Begin(r, u, Call("GetLearningGoals", Nil, Nil, Nil, 0), <<"goals", "progress">>)
  BY DEF FetchGoals
<1>2. Todo(<<"goals", "progress">>, {"goals", "progress", "answer"})
  BY TodosAre
<1>3. \A s \in {"goals", "progress", "answer"} : s # "answer" => "GetLearningGoals" \in OpsOf(s)
  BY OpsOfAre
<1>4. Nil \in IdsOf("GetLearningGoals")
  BY IdsOfAre
<1> QED
  BY <1>1, <1>2, <1>3, <1>4, OthersApart, PlainActs

LEMMA OnGoalActs ==
    ASSUME Inv, NEW r \in Slots, NEW u \in Users,
           PutGoal(r, u) \/ RemoveGoal(r, u) \/ PostGoalCompletion(r, u)
    PROVE  OneActs(r)
<1>1. PICK op \in GoalOps, g \in Goals, s \in {"save", "mark"} :
        /\ Begin(r, u, Call(op, g, Nil, Nil, 0), <<"goal">> \o <<s>>)
        /\ (s = "save" /\ op \in SavedGoalOps) \/ (s = "mark" /\ op = "CompleteLearningGoal")
  <2>1. CASE PutGoal(r, u)
    BY <2>1, OthersApart DEF PutGoal, OnGoal
  <2>2. CASE RemoveGoal(r, u)
    BY <2>2, OthersApart DEF RemoveGoal, OnGoal
  <2>3. CASE PostGoalCompletion(r, u)
    BY <2>3, OthersApart DEF PostGoalCompletion, OnGoal
  <2> QED
    BY <2>1, <2>2, <2>3
<1> PICK t, S : t = <<"goal">> \o <<s>> /\ S = {"goal", s, "answer"}
  OBVIOUS
<1>2. Todo(t, S)
  BY <1>1, TodosAre
<1>3. \A x \in S : x # "answer" => op \in OpsOf(x)
  BY <1>1, OpsOfAre
<1>4. g \in IdsOf(op)
  BY <1>1, IdsOfAre
<1>5. /\ "write" \notin S /\ "list" \notin S /\ "parent" \notin S /\ "count" \notin S /\ "goal" \in S
      /\ S \cap {"write", "list", "parent"} = {}
  BY <1>1
<1>6. Begin(r, u, Call(op, g, Nil, Nil, 0), t) /\ g \in Goals
  BY <1>1
<1>7. /\ op \in Operations /\ op \notin RowOps \cup ItemOps \cup NewOps \cup ListOps
      /\ op \notin AttemptOps /\ op # "SubmitAnswer" /\ op # "CompleteQuizAttempt"
  BY <1>1, OthersApart
<1> QED
  BY <1>2, <1>3, <1>4, <1>5, <1>6, <1>7, PlainActs

LEMMA AnalyticsRequestActs ==
    ASSUME Inv, NEW r \in Slots, NEW u \in Users, AnalyticsRequest(r, u)
    PROVE  OneActs(r)
BY PostAttemptActs, PostAnswerActs, PostCompletionActs, PostStudySessionActs, PostGoalActs, FetchGoalsActs,
   OnGoalActs DEF AnalyticsRequest

-----------------------------------------------------------------------------
(* Writes.  What a request that is about to write has read.                *)
ContentTables ==
    /\ course \in [Courses -> CourseRows \cup {NoRow}]
    /\ material \in [Materials -> MaterialRows \cup {NoRow}]
    /\ set \in [Sets -> SetRows \cup {NoRow}]
    /\ item \in [Items -> Sets \cup {Nil}]
    /\ born \in [Items -> Sets \cup {Nil}]
    /\ promised \in [Sets -> Nat]
    /\ callbacks \in Nat
AnalyticsTables ==
    /\ attempt \in [Attempts -> AttemptRows \cup {NoRow}]
    /\ answer \in [Answers -> AnswerRows \cup {NoRow}]
    /\ today \in [Users -> Nat \cup {Nil}]
    /\ goal \in [Goals -> GoalRows \cup {NoRow}]
    /\ lost \in [Users -> Int]

LEMMA TablesAre == ASSUME Inv PROVE ContentTables /\ AnalyticsTables /\ PlacesInv /\ ItemsInv
BY DEF Inv, RowsInv, ContentTables, AnalyticsTables

LEMMA WritingIs ==
    ASSUME Inv, NEW r \in Slots, Doing(r, "write")
    PROVE  /\ req[r] # Idle /\ req[r] \in Request /\ Shape(req[r]) /\ Ordered(req[r].todo)
           /\ Head(req[r].todo) = "write" /\ req[r].op \in OpsOf("write")
           /\ req[r].user \in Users /\ req[r].id \in IdsOf(req[r].op)
           /\ req[r].course \in Courses \cup {Nil} /\ req[r].material \in Materials \cup {Nil}
           /\ Place(req[r].course, req[r].user)
           /\ req[r].op \in CourseOps => req[r].id \in Courses /\ CourseRead(req[r])
           /\ req[r].op \in MaterialOps => req[r].id \in Materials /\ MaterialRead(req[r])
           /\ req[r].op \in QuizOps \cup DeckOps => req[r].id \in Sets /\ SetRead(req[r])
           /\ req[r].op \in QuestionOps \cup CardOps => req[r].id \in Items /\ ItemRead(req[r])
<1>1. /\ req[r] # Idle /\ req[r] \in Request /\ ReqInv(r) /\ Shape(req[r]) /\ Ordered(req[r].todo)
      /\ Head(req[r].todo) = "write" /\ Ahead(req[r].todo, "write")
  BY DoingIs
<1>2. ~ Ahead(req[r].todo, "row") /\ ~ Ahead(req[r].todo, "item") /\ ~ Ahead(req[r].todo, "course")
  <2>1. Rank("row") = 0 /\ Rank("item") = 0 /\ Rank("course") = 1 /\ Rank("write") = 3
    BY RanksAre
  <2> QED
    BY <1>1, <2>1, OrderedHead
<1>3. /\ req[r].op \in CourseOps => CourseRead(req[r])
      /\ req[r].op \in MaterialOps => MaterialRead(req[r])
      /\ req[r].op \in QuizOps \cup DeckOps => SetRead(req[r])
      /\ req[r].op \in QuestionOps \cup CardOps => ItemRead(req[r])
  BY <1>1, <1>2 DEF ReqInv, ReadInv, Past
<1>4. Place(req[r].course, req[r].user)
  BY <1>1, <1>2 DEF ReqInv, Checked
<1>5. req[r].op \in OpsOf("write") /\ req[r].id \in IdsOf(req[r].op)
  BY <1>1, OpsAre DEF Shape
<1>6. req[r].user \in Users /\ req[r].course \in Courses \cup {Nil} /\ req[r].material \in Materials \cup {Nil}
  BY <1>1 DEF Request
<1> QED
  BY <1>1, <1>3, <1>4, <1>5, <1>6, IdsAre

LEMMA SavingIs ==
    ASSUME Inv, NEW r \in Slots, Doing(r, "save")
    PROVE  /\ req[r] # Idle /\ req[r] \in Request /\ Shape(req[r]) /\ Ordered(req[r].todo)
           /\ Head(req[r].todo) = "save" /\ req[r].op \in OpsOf("save")
           /\ req[r].user \in Users /\ req[r].id \in IdsOf(req[r].op)
           /\ req[r].op \in AttemptOps => req[r].id \in Attempts /\ AttemptRead(req[r])
           /\ req[r].op \in SavedGoalOps => req[r].id \in Goals /\ GoalRead(req[r])
<1>1. /\ req[r] # Idle /\ req[r] \in Request /\ ReqInv(r) /\ Shape(req[r]) /\ Ordered(req[r].todo)
      /\ Head(req[r].todo) = "save" /\ Ahead(req[r].todo, "save")
  BY DoingIs
<1>2. ~ Ahead(req[r].todo, "attempt") /\ ~ Ahead(req[r].todo, "goal")
  <2>1. Rank("attempt") = 0 /\ Rank("goal") = 0 /\ Rank("save") = 3
    BY RanksAre
  <2> QED
    BY <1>1, <2>1, OrderedHead
<1>3. /\ req[r].op \in AttemptOps => AttemptRead(req[r])
      /\ req[r].op \in SavedGoalOps => GoalRead(req[r])
  BY <1>1, <1>2 DEF ReqInv, ReadInv, Past
<1>4. req[r].op \in OpsOf("save") /\ req[r].id \in IdsOf(req[r].op) /\ req[r].user \in Users
  BY <1>1, OpsAre DEF Shape, Request
<1> QED
  BY <1>1, <1>3, <1>4, IdsAre

LEMMA SavedActs ==
    ASSUME Inv, Grows, Track, NEW r \in Slots, NEW s \in {"write", "save"}, Doing(r, s), Done(r),
           req[r].op \notin NewOps
    PROVE  OneActs(r)
<1>1. req[r] # Idle /\ Head(req[r].todo) = s
  BY DoingIs
<1> QED
  BY <1>1, PassActs, WorksIs DEF Done, Reading

(* What a write does to the rows, and what is left to show of it.          *)
Keeps(r) == Grows /\ ContentTables' /\ PlacesInv' /\ ItemsInv' /\ OneActs(r)

PlaceAfter(c, u) == c # Nil => Of(course'[c], u)

LEMMA PlacesKeep ==
    ASSUME Inv, Grows
    PROVE  /\ \A c \in Courses \cup {Nil}, u \in Users : Place(c, u) => PlaceAfter(c, u)
           /\ \A m \in Materials : material[m] # NoRow => PlaceAfter(material[m].course, material[m].owner)
           /\ \A s \in Sets : set[s] # NoRow => PlaceAfter(set[s].course, set[s].owner)
<1>1. \A c \in Courses \cup {Nil}, u \in Users : Place(c, u) => PlaceAfter(c, u)
  BY DEF Place, PlaceAfter, Grows
<1>2. \A m \in Materials : material[m] # NoRow =>
        /\ material[m].course \in Courses \cup {Nil} /\ material[m].owner \in Users
        /\ Place(material[m].course, material[m].owner)
  BY RowsAre DEF MaterialRows, Inv, PlacesInv
<1>3. \A s \in Sets : set[s] # NoRow =>
        /\ set[s].course \in Courses \cup {Nil} /\ set[s].owner \in Users
        /\ Place(set[s].course, set[s].owner)
  BY RowsAre DEF SetRows, Inv, PlacesInv
<1> QED
  BY <1>1, <1>2, <1>3

LEMMA PlacesAfter ==
    ASSUME \A m \in Materials : material'[m] # NoRow => PlaceAfter(material'[m].course, material'[m].owner),
           \A s \in Sets : set'[s] # NoRow => PlaceAfter(set'[s].course, set'[s].owner)
    PROVE  PlacesInv'
BY DEF PlacesInv, PlaceAfter, Place

LEMMA SamePlaces == ASSUME Inv, Grows, material' = material, set' = set PROVE PlacesInv'
BY PlacesKeep, PlacesAfter

LEMMA SameItems == ASSUME Inv, Grows, item' = item, born' = born PROVE ItemsInv'
<1>1. \A i \in Items : born[i] # Nil => set'[born[i]] # NoRow
  BY RowsAre DEF Grows
<1> QED
  BY <1>1 DEF ItemsInv, Inv

(* Courses.                                                                *)
LEMMA OfNoRow == \A u : ~ Of(NoRow, u)
BY DEF Of, NoRow

LEMMA NewRowsAre ==
    ASSUME NEW u \in Users
    PROVE  /\ CourseRow(u) \in CourseRows /\ Of(CourseRow(u), u)
           /\ AttemptRow(u) \in AttemptRows /\ GoalRow(u) \in GoalRows
           /\ \A c \in Courses \cup {Nil} :
                MaterialRow(u, c) \in MaterialRows /\ MaterialRow(u, c).course = c /\ MaterialRow(u, c).owner = u
           /\ \A c \in Courses \cup {Nil}, m \in Materials \cup {Nil} :
                SetRow(u, c, m) \in SetRows /\ SetRow(u, c, m).course = c /\ SetRow(u, c, m).owner = u
<1>1. CourseRow(u) \in CourseRows /\ Of(CourseRow(u), u)
  BY DEF CourseRow, CourseRows, Kept, Of
<1>2. AttemptRow(u) \in AttemptRows /\ GoalRow(u) \in GoalRows
  BY DEF AttemptRow, AttemptRows, GoalRow, GoalRows, Kept
<1>3. \A c \in Courses \cup {Nil} :
        MaterialRow(u, c) \in MaterialRows /\ MaterialRow(u, c).course = c /\ MaterialRow(u, c).owner = u
  BY ContentAssumption DEF MaterialRow, MaterialRows, Kept
<1>4. \A c \in Courses \cup {Nil}, m \in Materials \cup {Nil} :
        SetRow(u, c, m) \in SetRows /\ SetRow(u, c, m).course = c /\ SetRow(u, c, m).owner = u
  BY DEF SetRow, SetRows, Kept
<1> QED
  BY <1>1, <1>2, <1>3, <1>4

LEMMA DeletedIs ==
    /\ Deleted(NoRow) = NoRow
    /\ \A row \in CourseRows : /\ Deleted(row) \in CourseRows /\ Deleted(row) # NoRow
                               /\ \A u : Of(row, u) <=> Of(Deleted(row), u)
    /\ \A row \in MaterialRows : /\ Deleted(row) \in MaterialRows /\ Deleted(row) # NoRow
                                 /\ Deleted(row).owner = row.owner /\ Deleted(row).course = row.course
                                 /\ \A u : Of(row, u) <=> Of(Deleted(row), u)
    /\ \A row \in SetRows : /\ Deleted(row) \in SetRows /\ Deleted(row) # NoRow
                            /\ Deleted(row).owner = row.owner /\ Deleted(row).course = row.course
                            /\ \A u : Of(row, u) <=> Of(Deleted(row), u)
    /\ \A row \in GoalRows : /\ Deleted(row) \in GoalRows /\ Deleted(row) # NoRow
                             /\ \A u : Of(row, u) <=> Of(Deleted(row), u)
<1>1. \A row : Deleted(row) = IF row.st = "live" THEN [row EXCEPT !.st = "deleted"] ELSE row
  BY DEF Deleted, Live
<1>2. Deleted(NoRow) = NoRow
  BY <1>1 DEF NoRow
<1>3. \A row \in CourseRows : /\ Deleted(row) \in CourseRows /\ Deleted(row).st \in Kept
                             /\ \A u : Of(row, u) <=> Of(Deleted(row), u)
  BY <1>1 DEF CourseRows, Kept, Of
<1>4. \A row \in MaterialRows : /\ Deleted(row) \in MaterialRows /\ Deleted(row).st \in Kept
                               /\ Deleted(row).owner = row.owner /\ Deleted(row).course = row.course
                               /\ \A u : Of(row, u) <=> Of(Deleted(row), u)
  BY <1>1 DEF MaterialRows, Kept, Of
<1>5. \A row \in SetRows : /\ Deleted(row) \in SetRows /\ Deleted(row).st \in Kept
                          /\ Deleted(row).owner = row.owner /\ Deleted(row).course = row.course
                          /\ \A u : Of(row, u) <=> Of(Deleted(row), u)
  BY <1>1 DEF SetRows, Kept, Of
<1>6. \A row \in GoalRows : /\ Deleted(row) \in GoalRows /\ Deleted(row).st \in Kept
                           /\ \A u : Of(row, u) <=> Of(Deleted(row), u)
  BY <1>1 DEF GoalRows, Kept, Of
<1>7. \A row : row.st \in Kept => row # NoRow
  BY DEF Kept, NoRow
<1> QED
  BY <1>2, <1>3, <1>4, <1>5, <1>6, <1>7

LEMMA OtherTables == ASSUME Inv PROVE ContentTables
BY TablesAre

LEMMA CreateCourseKeeps ==
    ASSUME Inv, Track, NEW r \in Slots, CreateCourse(r), UNCHANGED <<attempt, today, goal>>
    PROVE  Keeps(r)
<1>1. Doing(r, "write") /\ req[r].op = "CreateCourse" /\ Done(r)
  BY DEF CreateCourse, Writing, Op
<1>2. req[r].user \in Users
  BY <1>1, WritingIs
<1>3. PICK c \in Courses : course[c] = NoRow /\ course' = [course EXCEPT ![c] = CourseRow(req[r].user)]
  BY DEF CreateCourse
<1>4. UNCHANGED <<material, set, item, born, promised, callbacks>>
  BY DEF CreateCourse
<1>5. ContentTables'
  BY <1>2, <1>3, <1>4, TablesAre, NewRowsAre DEF ContentTables
<1>6. Grows
  <2>1. \A d \in Courses, u \in Users : Of(course[d], u) => Of(course'[d], u)
    BY <1>3, OfNoRow, TablesAre DEF ContentTables
  <2> QED
    BY <1>4, <2>1 DEF Grows
<1>7. OneActs(r)
  BY <1>1, <1>6, SavedActs DEF NewOps
<1> QED
  BY <1>4, <1>5, <1>6, <1>7, SamePlaces, SameItems DEF Keeps

LEMMA UpdateCourseKeeps ==
    ASSUME Inv, Track, NEW r \in Slots, UpdateCourse(r), UNCHANGED <<attempt, today, goal>>
    PROVE  Keeps(r)
<1> PICK c, u, k : c = req[r].id /\ u = req[r].user /\ k = req[r].kids
  OBVIOUS
<1>1. Doing(r, "write") /\ req[r].op = "UpdateCourse" /\ Done(r) /\ req[r].op \in CourseOps
  BY DEF UpdateCourse, Writing, Op, CourseOps
<1>2. u \in Users /\ c \in Courses /\ CourseRead(req[r])
  BY <1>1, WritingIs
<1>3. /\ course' = [course EXCEPT ![c] = CourseRow(u)] /\ Of(course[c], u)
      /\ \A x \in k : \/ x \in Materials /\ Of(material[x], u)
                      \/ x \in Sets /\ Of(set[x], u)
  BY <1>2 DEF UpdateCourse, CourseRead
<1>4. /\ material' = [m \in Materials |-> IF m \in k THEN [material[m] EXCEPT !.course = c] ELSE material[m]]
      /\ set' = [s \in Sets |-> IF s \in k THEN [set[s] EXCEPT !.course = c] ELSE set[s]]
      /\ UNCHANGED <<item, born, promised, callbacks>>
  BY DEF UpdateCourse
<1>5. ASSUME NEW m \in Materials
      PROVE  /\ material'[m] \in MaterialRows \cup {NoRow}
             /\ \A v \in Users : Of(material[m], v) => Of(material'[m], v)
             /\ material'[m] = material[m] \/ (m \in k /\ material'[m].course = c /\ material'[m].owner = u)
  <2>1. CASE m \notin k
    BY <1>4, <2>1, TablesAre DEF ContentTables
  <2>2. CASE m \in k
    <3>1. Of(material[m], u) /\ material[m] \in MaterialRows
      BY <1>3, <2>2, Kinds, RowsAre
    <3>2. material'[m] = [material[m] EXCEPT !.course = c]
      BY <1>4, <2>2
    <3> QED
      BY <1>2, <2>2, <3>1, <3>2 DEF MaterialRows, Of
  <2> QED
    BY <2>1, <2>2
<1>6. ASSUME NEW s \in Sets
      PROVE  /\ set'[s] \in SetRows \cup {NoRow}
             /\ \A v \in Users : Of(set[s], v) => Of(set'[s], v)
             /\ set[s] # NoRow => set'[s] # NoRow
             /\ set'[s] = set[s] \/ (s \in k /\ set'[s].course = c /\ set'[s].owner = u)
  <2>1. CASE s \notin k
    BY <1>4, <2>1, TablesAre DEF ContentTables
  <2>2. CASE s \in k
    <3>1. Of(set[s], u) /\ set[s] \in SetRows
      BY <1>3, <2>2, Kinds, RowsAre
    <3>2. set'[s] = [set[s] EXCEPT !.course = c]
      BY <1>4, <2>2
    <3>3. set'[s] \in SetRows /\ set'[s].st = set[s].st /\ set'[s].owner = u /\ set'[s].course = c
      BY <1>2, <3>1, <3>2 DEF SetRows, Of
    <3>4. set'[s] # NoRow
      BY <3>1, <3>3, OfNoRow DEF Of
    <3> QED
      BY <2>2, <3>1, <3>3, <3>4 DEF Of
  <2> QED
    BY <2>1, <2>2
<1>7. course' \in [Courses -> CourseRows \cup {NoRow}] /\ Of(course'[c], u)
      /\ \A d \in Courses, v \in Users : Of(course[d], v) => Of(course'[d], v)
  BY <1>2, <1>3, NewRowsAre, TablesAre DEF ContentTables, Of
<1>8. ContentTables'
  BY <1>4, <1>5, <1>6, <1>7, TablesAre DEF ContentTables
<1>9. Grows
  BY <1>4, <1>5, <1>6, <1>7 DEF Grows
<1>10. PlacesInv'
  <2>1. PlaceAfter(c, u)
    BY <1>7 DEF PlaceAfter
  <2>2. \A m \in Materials : material'[m] # NoRow => PlaceAfter(material'[m].course, material'[m].owner)
    BY <1>5, <1>9, <2>1, PlacesKeep
  <2>3. \A s \in Sets : set'[s] # NoRow => PlaceAfter(set'[s].course, set'[s].owner)
    BY <1>6, <1>9, <2>1, PlacesKeep
  <2> QED
    BY <2>2, <2>3, PlacesAfter
<1>11. OneActs(r)
  BY <1>1, <1>9, SavedActs DEF NewOps
<1> QED
  BY <1>4, <1>8, <1>9, <1>10, <1>11, SameItems DEF Keeps

LEMMA DeleteCourseKeeps ==
    ASSUME Inv, Track, NEW r \in Slots, DeleteCourse(r), UNCHANGED <<attempt, today, goal>>
    PROVE  Keeps(r)
<1>1. Doing(r, "write") /\ req[r].op = "DeleteCourse" /\ Done(r) /\ req[r].op \in CourseOps
  BY DEF DeleteCourse, Writing, Op, CourseOps
<1>2. req[r].id \in Courses
  BY <1>1, WritingIs
<1>3. /\ course' = [course EXCEPT ![req[r].id] = Deleted(course[req[r].id])]
      /\ UNCHANGED <<material, set, item, born, promised, callbacks>>
  BY DEF DeleteCourse
<1>4. ContentTables'
  BY <1>2, <1>3, TablesAre, DeletedIs DEF ContentTables
<1>5. Grows
  <2>1. \A d \in Courses, u \in Users : Of(course[d], u) => Of(course'[d], u)
    BY <1>2, <1>3, DeletedIs, OfNoRow, TablesAre DEF ContentTables
  <2> QED
    BY <1>3, <2>1 DEF Grows
<1>6. OneActs(r)
  BY <1>1, <1>5, SavedActs DEF NewOps
<1> QED
  BY <1>3, <1>4, <1>5, <1>6, SamePlaces, SameItems DEF Keeps

(* Materials.                                                              *)
LEMMA CreateMaterialKeeps ==
    ASSUME Inv, Track, NEW r \in Slots, CreateMaterial(r), UNCHANGED <<attempt, today, goal>>
    PROVE  Keeps(r)
<1> PICK u, c : u = req[r].user /\ c = req[r].course
  OBVIOUS
<1>1. Doing(r, "write") /\ req[r].op = "CreateMaterial" /\ Done(r)
  BY DEF CreateMaterial, Writing, Op
<1>2. u \in Users /\ c \in Courses \cup {Nil} /\ Place(c, u)
  BY <1>1, WritingIs
<1>3. PICK m \in Materials : material[m] = NoRow /\ material' = [material EXCEPT ![m] = MaterialRow(u, c)]
  BY DEF CreateMaterial
<1>4. UNCHANGED <<course, set, item, born, promised, callbacks>>
  BY DEF CreateMaterial
<1>5. ContentTables'
  BY <1>2, <1>3, <1>4, TablesAre, NewRowsAre DEF ContentTables
<1>6. Grows
  <2>1. \A d \in Materials, v \in Users : Of(material[d], v) => Of(material'[d], v)
    BY <1>3, OfNoRow, TablesAre DEF ContentTables
  <2> QED
    BY <1>4, <2>1 DEF Grows
<1>7. OneActs(r)
  BY <1>1, <1>6, SavedActs DEF NewOps
<1>8. PlacesInv'
  <2>1. PlaceAfter(c, u)
    BY <1>2, <1>6, PlacesKeep
  <2>2. \A d \in Materials : material'[d] # NoRow => PlaceAfter(material'[d].course, material'[d].owner)
    BY <1>2, <1>3, <1>6, <2>1, PlacesKeep, NewRowsAre, TablesAre DEF ContentTables
  <2> QED
    BY <1>4, <1>6, <2>2, PlacesKeep, PlacesAfter
<1> QED
  BY <1>4, <1>5, <1>6, <1>7, <1>8, SameItems DEF Keeps

LEMMA ForeignKeyIs ==
    ASSUME NEW S, NEW a \in S \cup {Nil}, NEW b \in S \cup {Nil}, NEW d \in S \cup {Nil}
    PROVE  ForeignKey(a, b, d) \in S \cup {Nil}
BY DEF ForeignKey

LEMMA ForeignKeyOr == \A a, b, d : ForeignKey(a, b, d) \in {a, b, d}
BY DEF ForeignKey

LEMMA UpdateMaterialKeeps ==
    ASSUME Inv, Track, NEW r \in Slots, UpdateMaterial(r), UNCHANGED <<attempt, today, goal>>
    PROVE  Keeps(r)
<1> PICK m, u, c, copy : m = req[r].id /\ u = req[r].user /\ c = req[r].course /\ copy = req[r].copy
  OBVIOUS
<1>1. Doing(r, "write") /\ req[r].op = "UpdateMaterial" /\ Done(r) /\ req[r].op \in MaterialOps
  BY DEF UpdateMaterial, Writing, Op, MaterialOps
<1>2. /\ u \in Users /\ m \in Materials /\ MaterialRead(req[r])
      /\ c \in Courses \cup {Nil} /\ Place(c, u)
  BY <1>1, WritingIs
<1>3. /\ copy.row \in MaterialRows /\ copy.course \in Courses \cup {Nil} /\ copy.row.owner = u /\ copy.row.st = "live"
      /\ Place(copy.row.course, u) /\ Place(copy.course, u) /\ Of(material[m], u)
  BY <1>2 DEF MaterialRead
<1> PICK f : f = ForeignKey(copy.course, c, copy.row.course)
  OBVIOUS
<1>4. f \in Courses \cup {Nil} /\ Place(f, u)
  <2>1. copy.row.course \in Courses \cup {Nil}
    BY <1>3 DEF MaterialRows
  <2>2. f \in {copy.course, c, copy.row.course}
    BY ForeignKeyOr
  <2> QED
    BY <1>2, <1>3, <2>1, <2>2
<1> PICK row : row = [copy.row EXCEPT !.course = f]
  OBVIOUS
<1>5. /\ material' = [material EXCEPT ![m] = row]
      /\ UNCHANGED <<course, set, item, born, promised, callbacks>>
  BY DEF UpdateMaterial
<1>6. row \in MaterialRows /\ row.owner = u /\ row.course = f /\ Of(row, u)
  BY <1>3, <1>4 DEF MaterialRows, Of
<1>7. ContentTables'
  BY <1>2, <1>5, <1>6, TablesAre DEF ContentTables
<1>8. Grows
  <2>1. \A v : Of(material[m], v) => v = u
    BY <1>3 DEF Of
  <2>2. \A d \in Materials, v \in Users : Of(material[d], v) => Of(material'[d], v)
    BY <1>2, <1>5, <1>6, <2>1, TablesAre DEF ContentTables
  <2> QED
    BY <1>5, <2>2 DEF Grows
<1>9. OneActs(r)
  BY <1>1, <1>8, SavedActs DEF NewOps
<1>10. PlacesInv'
  <2>1. PlaceAfter(f, u)
    BY <1>2, <1>4, <1>8, PlacesKeep
  <2>2. \A d \in Materials : material'[d] # NoRow => PlaceAfter(material'[d].course, material'[d].owner)
    BY <1>2, <1>5, <1>6, <1>8, <2>1, PlacesKeep, TablesAre DEF ContentTables
  <2> QED
    BY <1>5, <1>8, <2>2, PlacesKeep, PlacesAfter
<1> QED
  BY <1>5, <1>7, <1>8, <1>9, <1>10, SameItems DEF Keeps

LEMMA DeleteMaterialKeeps ==
    ASSUME Inv, Track, NEW r \in Slots, DeleteMaterial(r), UNCHANGED <<attempt, today, goal>>
    PROVE  Keeps(r)
<1> PICK m : m = req[r].id
  OBVIOUS
<1>1. Doing(r, "write") /\ req[r].op = "DeleteMaterial" /\ Done(r) /\ req[r].op \in MaterialOps
  BY DEF DeleteMaterial, Writing, Op, MaterialOps
<1>2. m \in Materials
  BY <1>1, WritingIs
<1>3. /\ material' = [material EXCEPT ![m] = Deleted(material[m])]
      /\ UNCHANGED <<course, set, item, born, promised, callbacks>>
  BY DEF DeleteMaterial
<1>4. ContentTables'
  BY <1>2, <1>3, TablesAre, DeletedIs DEF ContentTables
<1>5. Grows
  <2>1. \A d \in Materials, u \in Users : Of(material[d], u) => Of(material'[d], u)
    BY <1>2, <1>3, DeletedIs, OfNoRow, TablesAre DEF ContentTables
  <2> QED
    BY <1>3, <2>1 DEF Grows
<1>6. OneActs(r)
  BY <1>1, <1>5, SavedActs DEF NewOps
<1>7. PlacesInv'
  <2>1. \A d \in Materials : material'[d] # NoRow =>
          material[d] # NoRow /\ material'[d].course = material[d].course /\ material'[d].owner = material[d].owner
    BY <1>2, <1>3, DeletedIs, TablesAre DEF ContentTables
  <2> QED
    BY <1>3, <1>5, <2>1, PlacesKeep, PlacesAfter
<1> QED
  BY <1>3, <1>4, <1>5, <1>6, <1>7, SameItems DEF Keeps

(* The callback, which is no request's.                                    *)
LEMMA UpdateProcessingStatusKeeps ==
    ASSUME Inv, NEW m \in Materials, NEW word, UpdateProcessingStatus(m, word),
           UNCHANGED <<attempt, today, goal>>
    PROVE  Grows /\ ContentTables' /\ PlacesInv' /\ ItemsInv'
<1> PICK d : d = DbStatus(word)
  OBVIOUS
<1>0. d \in Statuses
  BY ContentAssumption DEF DbStatus
<1>1. /\ Live(material[m]) /\ callbacks' = callbacks + 1
      /\ material' = [material EXCEPT ![m] = [material[m] EXCEPT !.status = d]]
      /\ UNCHANGED <<course, set, item, born, promised>>
  BY DEF UpdateProcessingStatus
<1>2. material[m] \in MaterialRows
  BY <1>1, RowsAre
<1> PICK row : row = [material[m] EXCEPT !.status = d]
  OBVIOUS
<1>3. /\ row \in MaterialRows /\ row.owner = material[m].owner /\ row.course = material[m].course
      /\ row.st = material[m].st
  BY <1>0, <1>2 DEF MaterialRows
<1>4. ContentTables'
  BY <1>1, <1>3, TablesAre DEF ContentTables
<1>5. Grows
  <2>1. \A x \in Materials, v \in Users : Of(material[x], v) => Of(material'[x], v)
    BY <1>1, <1>3, TablesAre DEF ContentTables, Of
  <2> QED
    BY <1>1, <2>1 DEF Grows
<1>6. PlacesInv'
  <2>1. material[m] # NoRow
    BY <1>1, RowsAre
  <2>2. \A x \in Materials : material'[x] # NoRow => PlaceAfter(material'[x].course, material'[x].owner)
    BY <1>1, <1>3, <1>5, <2>1, PlacesKeep, TablesAre DEF ContentTables
  <2> QED
    BY <1>1, <1>5, <2>2, PlacesKeep, PlacesAfter
<1> QED
  BY <1>1, <1>4, <1>5, <1>6, SameItems

(* Quizzes and decks that are being made.                                  *)
LEMMA AtInsert ==
    ASSUME NEW q, Shape(q), q.op \in NewOps, Head(q.todo) = "write"
    PROVE  q.n \in Nat /\ Len(q.todo) = q.n + 3
<1> DEFINE l == Len(q.todo)
<1>1. q.n \in Nat /\ Ordered(q.todo)
  BY DEF Shape, NewOps
<1>2. l \in Nat /\ l >= 1 /\ q.todo[1] = "write"
  BY <1>1, OrderedHead
<1>3. 1 \in 1..l
  BY <1>2
<1>4. l - 1 = q.n + 2
  BY <1>2, <1>3 DEF Shape
<1> HIDE DEF l
<1>5. l = q.n + 3
  BY <1>1, <1>2, <1>4
<1> QED
  BY <1>1, <1>5 DEF l

LEMMA AtChild ==
    ASSUME NEW q, Shape(q), q.op \in NewOps, Head(q.todo) = "child"
    PROVE  Ahead(q.todo, "reload") /\ ~ Ahead(q.todo, "write")
<1> PICK t, l, n : t = q.todo /\ l = Len(q.todo) /\ n = q.n
  OBVIOUS
<1>1. n \in Nat /\ Ordered(t)
  BY DEF Shape, NewOps
<1>2. l \in Nat /\ l >= 1 /\ t[1] = "child" /\ Head(t) = "child"
  BY <1>1, OrderedHead
<1>3. \A j \in 1..l : t[j] = "child" <=> l - j \in 2..(n + 1)
  BY DEF Shape
<1>4. 1 \in 1..l
  BY <1>2
<1>5. l - 1 \in 2..(n + 1)
  BY <1>2, <1>3, <1>4
<1>6. l - 1 \in 1..l /\ 1 < l - 1 /\ l \in 1..l /\ l - 1 < l
  BY <1>2, <1>5
<1>7. t[l - 1] # "child"
  <2>1. l - (l - 1) = 1
    BY <1>2
  <2>2. ~ (l - (l - 1) \in 2..(n + 1))
    BY <1>1, <2>1
  <2> QED
    BY <1>3, <1>6, <2>2
<1>8. Rank("child") < Rank(t[l - 1]) /\ Rank(t[l - 1]) < Rank("answer")
  <2>0. \A i, j \in 1..l : i < j => Rank(t[i]) < Rank(t[j]) \/ (t[i] = "child" /\ t[j] = "child")
    BY <1>1 DEF Ordered
  <2> PICK k : k = l - 1
    OBVIOUS
  <2>1. Rank(t[1]) < Rank(t[k])
    BY <1>4, <1>6, <1>7, <2>0
  <2>2. Rank(t[k]) < Rank(t[l]) /\ t[l] = "answer"
    <3>1. t[l] = "answer"
      BY <1>1 DEF Ordered
    <3> QED
      BY <1>6, <1>7, <2>0, <3>1
  <2> QED
    BY <1>2, <2>1, <2>2
<1>9. t[l - 1] = "reload"
  <2> PICK s : s = t[l - 1]
    OBVIOUS
  <2>1. q.op \in OpsOf(s) /\ s \in Statements
    <3>1. s # "answer"
      <4>1. Rank("answer") = 6
        BY RanksAre
      <4> QED
        BY <1>8, <4>1
    <3>2. Ahead(t, s)
      BY <1>6 DEF Ahead
    <3> QED
      BY <1>1, <3>1, <3>2, OpsAre, OrderedHead
  <2>2. Rank(s) > 4 /\ Rank(s) < 6
    <3>1. Rank("child") = 4 /\ Rank("answer") = 6 /\ Rank(s) \in 0..6
      BY <2>1, Ranks, RanksAre
    <3> QED
      BY <1>8, <3>1
  <2>3. s \in {"reload", "count", "progress"}
    <3>1. /\ \A x \in {"row", "item", "attempt", "goal", "goals"} : Rank(x) = 0
          /\ Rank("course") = 1 /\ \A x \in {"material", "parent", "grade"} : Rank(x) = 2
          /\ \A x \in {"write", "list", "save", "mark"} : Rank(x) = 3
          /\ \A x \in {"child", "session"} : Rank(x) = 4 /\ Rank("answer") = 6
      BY RanksAre
    <3> QED
      BY <2>1, <2>2, <3>1 DEF Statements
  <2>4. q.op \notin OpsOf("count") /\ q.op \notin OpsOf("progress")
    BY OpsOfAre, OpsApart
  <2> QED
    BY <2>1, <2>3, <2>4
<1>10. Ahead(t, "reload")
  BY <1>6, <1>9 DEF Ahead
<1>11. ~ Ahead(t, "write")
  <2>1. Rank("write") = 3 /\ Rank("child") = 4
    BY RanksAre
  <2> QED
    BY <1>1, <1>2, <2>1, OrderedHead
<1> QED
  BY <1>10, <1>11

(* A set gets its row, and its id becomes the request's.                   *)
LEMMA InsertedActs ==
    ASSUME Inv, Grows, Track, NEW r \in Slots, Doing(r, "write"), req[r].op \in NewOps,
           NEW s \in Sets, s \in IdsOf(req[r].op), set'[s] # NoRow, promised'[s] = req[r].n,
           Pass(r, [req[r] EXCEPT !.id = s]), Works
    PROVE  OneActs(r)
<1> DEFINE q == [req[r] EXCEPT !.id = s]
<1>1. /\ req[r] # Idle /\ req[r] \in Request /\ Shape(req[r]) /\ Ordered(req[r].todo)
      /\ Head(req[r].todo) = "write" /\ ReqInv(r)
  BY DoingIs
<1>2. s \in Rows /\ s # Nil
  BY Kinds DEF Rows, ContentIds
<1>3. q \in Request /\ q.todo = req[r].todo /\ Alike(req[r], q) /\ q.id = s /\ q.copy = req[r].copy /\ q.kids = req[r].kids
  BY <1>1, <1>2 DEF Request, Alike
<1> HIDE DEF q
<1>4. /\ req'[r] \in Request /\ req'[r].todo = Tail(q.todo) /\ Alike(q, req'[r])
      /\ req'[r].id = q.id /\ req'[r].copy = q.copy /\ req'[r].kids = q.kids
      /\ \A z \in Slots \ {r} : req'[z] = req[z]
      /\ req' \in [Slots -> Request \cup {Idle}]
  BY <1>1, <1>3, PassIs DEF q
<1>5. /\ req'[r].todo = Tail(req[r].todo) /\ Alike(req[r], req'[r]) /\ req'[r].id = s
      /\ req'[r].kids = req[r].kids /\ req'[r].op = req[r].op
  BY <1>3, <1>4 DEF Alike
<1>6. Shape(req[r])' /\ Checked(req[r])' /\ ShownInv(req[r])'
  BY <1>1, <1>4, <1>5, ShapePasses, CheckedPasses, ShownStays
<1>7. /\ req[r].op \notin CourseOps \cup MaterialOps \cup QuizOps \cup DeckOps \cup QuestionOps \cup CardOps
      /\ req[r].op \notin AttemptOps \cup SavedGoalOps \cup SessionOps \cup {"GetLearningGoals"}
  BY OpsApart
<1>8. \A x : Ahead(req'[r].todo, x) => Ahead(req[r].todo, x)
  BY <1>1, <1>5, OrderedTail
<1>9. ~ Ahead(req[r].todo, "parent") /\ ~ Ahead(req[r].todo, "count") /\ ~ Ahead(req[r].todo, "mark")
  <2>1. /\ req[r].op \notin OpsOf("parent") /\ req[r].op \notin OpsOf("count") /\ req[r].op \notin OpsOf("mark")
    BY <1>7, OpsOfAre, OpsApart DEF GoalOps
  <2> QED
    BY <1>1, <2>1, OpsAre
<1>10. ReadInv(req[r])'
  <2>1. Head(req'[r].todo) # "count"
    <3>1. Ordered(req'[r].todo)
      BY <1>6 DEF Shape
    <3>2. Ahead(req'[r].todo, Head(req'[r].todo))
      BY <3>1, OrderedHead
    <3> QED
      BY <1>8, <1>9, <3>2
  <2> QED
    BY <1>5, <1>7, <1>8, <1>9, <2>1, OtherReads
<1>11. FreshInv(r)'
  <2>1. req[r].op \notin {"UpdateCourse", "UpdateMaterial", "UpdateQuiz", "UpdateFlashcardDeck"}
    BY DEF NewOps
  <2> QED
    BY <1>5, <1>7, <2>1 DEF FreshInv
<1>12. NewInv(req[r])'
  <2> PICK b, n : b = Cardinality(BornIn(s)') /\ n = req[r].n
    OBVIOUS
  <2>1. n \in Nat /\ Len(req[r].todo) = n + 3 /\ b \in Nat
    BY <1>1, AtInsert, BornStays
  <2>2. Len(req'[r].todo) = n + 2
    <3>1. Len(Tail(req[r].todo)) = Len(req[r].todo) - 1
      BY <1>1, OrderedTail
    <3> QED
      BY <1>5, <2>1, <3>1
  <2>3. b + Len(req'[r].todo) - 2 >= promised'[s]
    BY <2>1, <2>2
  <2> QED
    BY <1>2, <1>5, <2>3 DEF NewInv, BornIn
<1> QED
  BY <1>4, <1>6, <1>10, <1>11, <1>12, WorksIs DEF ReqInv, OneActs

LEMMA InsertSetKeeps ==
    ASSUME Inv, Track, NEW r \in Slots, Writing(r, "CreateQuiz") \/ Writing(r, "CreateFlashcardDeck"),
           NEW kind, kind = IF req[r].op = "CreateQuiz" THEN Quizzes ELSE Decks,
           InsertSet(r, kind), UNCHANGED <<attempt, today, goal>>
    PROVE  Keeps(r)
<1> PICK u, c, m, n : u = req[r].user /\ c = req[r].course /\ m = req[r].material /\ n = req[r].n
  OBVIOUS
<1>1. Doing(r, "write") /\ req[r].op \in {"CreateQuiz", "CreateFlashcardDeck"} /\ req[r].op \in NewOps
  BY DEF Writing, Op, NewOps
<1>2. /\ u \in Users /\ c \in Courses \cup {Nil} /\ m \in Materials \cup {Nil} /\ Place(c, u)
      /\ Shape(req[r]) /\ Head(req[r].todo) = "write"
  BY <1>1, WritingIs
<1>3. n \in Nat
  BY <1>1, <1>2, AtInsert
<1>4. PICK s \in kind : /\ set[s] = NoRow
                        /\ set' = [set EXCEPT ![s] = SetRow(u, c, m)]
                        /\ promised' = [promised EXCEPT ![s] = n]
                        /\ Pass(r, [req[r] EXCEPT !.id = s]) /\ Works
  BY DEF InsertSet
<1>5. UNCHANGED <<course, material, item, born, callbacks>>
  BY DEF InsertSet
<1>6. s \in Sets /\ s \in IdsOf(req[r].op)
  <2>1. req[r].op = "CreateQuiz" => IdsOf(req[r].op) = Quizzes \cup {Nil}
    BY DEF IdsOf, CourseOps, MaterialOps, QuizOps, DeckOps, QuestionOps, CardOps, AttemptOps, SavedGoalOps, GoalOps
  <2>2. req[r].op = "CreateFlashcardDeck" => IdsOf(req[r].op) = Decks \cup {Nil}
    BY DEF IdsOf, CourseOps, MaterialOps, QuizOps, DeckOps, QuestionOps, CardOps, AttemptOps, SavedGoalOps, GoalOps
  <2> QED
    BY <1>1, <2>1, <2>2 DEF Sets
<1> PICK row : row = SetRow(u, c, m)
  OBVIOUS
<1>7. row \in SetRows /\ row.course = c /\ row.owner = u /\ row # NoRow
  <2>1. row \in SetRows /\ row.course = c /\ row.owner = u
    BY <1>2, NewRowsAre
  <2>2. row # NoRow
    BY DEF SetRow, NoRow
  <2> QED
    BY <2>1, <2>2
<1>8. ContentTables'
  BY <1>3, <1>4, <1>5, <1>6, <1>7, TablesAre DEF ContentTables
<1>9. Grows
  <2>1. \A d \in Sets, v \in Users : Of(set[d], v) => Of(set'[d], v)
    BY <1>4, OfNoRow, TablesAre DEF ContentTables
  <2>2. \A d \in Sets : set[d] # NoRow => set'[d] # NoRow /\ promised'[d] = promised[d]
    BY <1>4, TablesAre DEF ContentTables
  <2> QED
    BY <1>5, <2>1, <2>2 DEF Grows
<1>10. OneActs(r)
  <2>1. set'[s] # NoRow /\ promised'[s] = req[r].n
    BY <1>4, <1>6, <1>7, TablesAre DEF ContentTables
  <2> QED
    BY <1>1, <1>4, <1>6, <1>9, <2>1, InsertedActs
<1>11. PlacesInv'
  <2>1. PlaceAfter(c, u)
    BY <1>2, <1>9, PlacesKeep
  <2>2. \A d \in Sets : set'[d] # NoRow => PlaceAfter(set'[d].course, set'[d].owner)
    BY <1>4, <1>6, <1>7, <1>9, <2>1, PlacesKeep, TablesAre DEF ContentTables
  <2> QED
    BY <1>5, <1>9, <2>2, PlacesKeep, PlacesAfter
<1> QED
  BY <1>5, <1>8, <1>9, <1>10, <1>11, SameItems DEF Keeps

(* Items.                                                                  *)
LEMMA InsertItemKeeps ==
    ASSUME Inv, NEW s \in Sets, set[s] # NoRow, NEW kind, kind \subseteq Items, InsertItem(s, kind),
           UNCHANGED <<course, material, set, promised, callbacks, attempt, today, goal>>
    PROVE  /\ Grows /\ ContentTables' /\ PlacesInv' /\ ItemsInv'
           /\ Cardinality(BornIn(s)') = Cardinality(BornIn(s)) + 1
<1>1. PICK i \in kind : /\ born[i] = Nil
                        /\ item' = [item EXCEPT ![i] = s]
                        /\ born' = [born EXCEPT ![i] = s]
  BY DEF InsertItem
<1>2. i \in Items /\ s # Nil /\ item \in [Items -> Sets \cup {Nil}] /\ born \in [Items -> Sets \cup {Nil}]
  BY <1>1, TablesAre, Kinds DEF ContentTables
<1>3. ContentTables'
  BY <1>1, <1>2, TablesAre DEF ContentTables
<1>4. Grows
  BY <1>1, <1>2 DEF Grows
<1>5. ItemsInv'
  <2>1. /\ \A x \in Items : item[x] # Nil => born[x] = item[x]
        /\ \A x \in Items : born[x] # Nil => set[born[x]] # NoRow
    BY RowsAre
  <2>2. \A x \in Items : item'[x] # Nil => born'[x] = item'[x]
    BY <1>1, <1>2, <2>1
  <2>3. \A x \in Items : born'[x] # Nil => set'[born'[x]] # NoRow
    BY <1>1, <1>2, <2>1
  <2> QED
    BY <2>2, <2>3 DEF ItemsInv
<1>6. Cardinality(BornIn(s)') = Cardinality(BornIn(s)) + 1
  <2>1. BornIn(s)' = BornIn(s) \cup {i}
    BY <1>1, <1>2 DEF BornIn
  <2>2. i \notin BornIn(s)
    BY <1>1, <1>2 DEF BornIn
  <2>3. IsFiniteSet(BornIn(s))
    BY <1>4, BornStays
  <2> PICK b, bb : b = BornIn(s) /\ bb = BornIn(s)'
    OBVIOUS
  <2>4. bb = b \cup {i} /\ i \notin b /\ IsFiniteSet(b)
    BY <2>1, <2>2, <2>3
  <2>5. Cardinality(bb) = Cardinality(b) + 1
    BY <2>4, FS_AddElement
  <2> QED
    BY <2>5
<1>7. PlacesInv'
  BY <1>4, SamePlaces
<1> QED
  BY <1>3, <1>4, <1>5, <1>6, <1>7

LEMMA AddItemKeeps ==
    ASSUME Inv, Track, NEW r \in Slots, Doing(r, "write"), req[r].op \in {"AddQuizQuestion", "AddFlashcard"},
           NEW kind, kind \subseteq Items, AddItem(r, kind), UNCHANGED <<attempt, today, goal>>
    PROVE  Keeps(r)
<1> PICK s : s = req[r].id
  OBVIOUS
<1>1. req[r].op \in QuizOps \cup DeckOps /\ req[r].op \notin NewOps
  BY DEF QuizOps, DeckOps, NewOps
<1>2. s \in Sets /\ SetRead(req[r])
  BY <1>1, WritingIs
<1>3. set[s] # NoRow
  BY <1>2, OfNoRow DEF SetRead
<1>4. InsertItem(s, kind) /\ Done(r) /\ UNCHANGED <<course, material, set, promised, callbacks>>
  BY DEF AddItem
<1>5. Grows /\ ContentTables' /\ PlacesInv' /\ ItemsInv'
  BY <1>2, <1>3, <1>4, InsertItemKeeps
<1>6. OneActs(r)
  BY <1>1, <1>4, <1>5, SavedActs
<1> QED
  BY <1>5, <1>6 DEF Keeps

(* A set being made gets one of the items it was promised.                 *)
LEMMA ChildKeeps ==
    ASSUME Inv, Track, NEW r \in Slots, Doing(r, "child"), NEW kind, kind \subseteq Items, AddItem(r, kind),
           UNCHANGED <<attempt, today, goal>>
    PROVE  Keeps(r)
<1> PICK s, q, l : s = req[r].id /\ q = req[r] /\ l = Len(req[r].todo)
  OBVIOUS
<1>1. /\ req[r] # Idle /\ q \in Request /\ ReqInv(r) /\ Shape(q) /\ Ordered(q.todo)
      /\ Head(q.todo) = "child" /\ Ahead(q.todo, "child")
  BY DoingIs
<1>2. q.op \in NewOps
  BY <1>1, OpsAre, OpsOfAre
<1>3. Ahead(q.todo, "reload") /\ ~ Ahead(q.todo, "write")
  BY <1>1, <1>2, AtChild
<1>4. /\ s # Nil /\ set[s] # NoRow
      /\ Cardinality(BornIn(s)) + l - 2 >= promised[s]
  BY <1>1, <1>2, <1>3 DEF ReqInv, NewInv, Past
<1>5. s \in Sets
  BY <1>1, <1>2, <1>4, IdsAre, Kinds DEF Shape, NewOps
<1>6. InsertItem(s, kind) /\ Done(r) /\ UNCHANGED <<course, material, set, promised, callbacks>>
  BY DEF AddItem
<1>7. /\ Grows /\ ContentTables' /\ PlacesInv' /\ ItemsInv'
      /\ Cardinality(BornIn(s)') = Cardinality(BornIn(s)) + 1
  BY <1>4, <1>5, <1>6, InsertItemKeeps
<1>8. /\ req'[r] \in Request /\ req'[r].todo = Tail(q.todo) /\ Alike(q, req'[r])
      /\ req'[r].id = s /\ req'[r].kids = q.kids
      /\ \A z \in Slots \ {r} : req'[z] = req[z]
      /\ req' \in [Slots -> Request \cup {Idle}]
  BY <1>1, <1>6, PassIs DEF Done
<1>9. Shape(req[r])' /\ Checked(req[r])' /\ ShownInv(req[r])'
  <2>1. s \in IdsOf(q.op)
    BY <1>1 DEF Shape
  <2> QED
    BY <1>1, <1>7, <1>8, <2>1, ShapePasses, CheckedPasses, ShownStays
<1>10. /\ q.op \notin CourseOps \cup MaterialOps \cup QuizOps \cup DeckOps \cup QuestionOps \cup CardOps
       /\ q.op \notin AttemptOps \cup SavedGoalOps \cup SessionOps \cup {"GetLearningGoals"}
  BY <1>2, OpsApart
<1>11. \A x : Ahead(req'[r].todo, x) => Ahead(q.todo, x)
  BY <1>1, <1>8, OrderedTail
<1>12. ~ Ahead(q.todo, "parent") /\ ~ Ahead(q.todo, "count") /\ ~ Ahead(q.todo, "mark")
  <2>1. /\ q.op \notin OpsOf("parent") /\ q.op \notin OpsOf("count") /\ q.op \notin OpsOf("mark")
    BY <1>2, <1>10, OpsOfAre, OpsApart DEF GoalOps
  <2> QED
    BY <1>1, <2>1, OpsAre
<1>13. ReadInv(req[r])'
  <2>1. Head(req'[r].todo) # "count"
    <3>1. Ordered(req'[r].todo)
      BY <1>9 DEF Shape
    <3>2. Ahead(req'[r].todo, Head(req'[r].todo))
      BY <3>1, OrderedHead
    <3> QED
      BY <1>11, <1>12, <3>2
  <2>2. req'[r].op = q.op
    BY <1>8 DEF Alike
  <2> QED
    BY <1>3, <1>10, <1>11, <1>12, <2>1, <2>2, OtherReads
<1>14. FreshInv(r)'
  <2>1. q.op \notin {"UpdateCourse", "UpdateMaterial", "UpdateQuiz", "UpdateFlashcardDeck"}
    BY <1>2 DEF NewOps
  <2> QED
    BY <1>8, <1>10, <2>1 DEF FreshInv, Alike
<1>15. NewInv(req[r])'
  <2> PICK b, bb, p : b = Cardinality(BornIn(s)) /\ bb = Cardinality(BornIn(s)') /\ p = promised[s]
    OBVIOUS
  <2>1. b \in Nat /\ bb \in Nat /\ l \in Nat /\ p \in Nat /\ promised'[s] = p
    BY <1>1, <1>5, <1>6, <1>7, BornStays, OrderedHead, TablesAre DEF ContentTables
  <2>2. bb = b + 1 /\ b + l - 2 >= p
    BY <1>4, <1>7
  <2>3. Len(req'[r].todo) = l - 1
    BY <1>1, <1>8, OrderedTail
  <2> PICK k : k = Len(req'[r].todo)
    OBVIOUS
  <2>4. bb + k - 2 >= p
    BY <2>1, <2>2, <2>3
  <2>5. set'[s] # NoRow
    BY <1>4, <1>6
  <2>6. Cardinality(BornIn(s)') + Len(req'[r].todo) - 2 >= promised'[s]
    BY <2>1, <2>4
  <2> QED
    BY <1>4, <1>8, <2>5, <2>6 DEF NewInv
<1> QED
  BY <1>6, <1>7, <1>8, <1>9, <1>13, <1>14, <1>15, WorksIs DEF ReqInv, OneActs, Keeps, Done

LEMMA SaveItemKeeps ==
    ASSUME Inv, Track, NEW r \in Slots, Doing(r, "write"), req[r].op \in QuestionOps \cup CardOps,
           SaveItem(r), UNCHANGED <<attempt, today, goal>>
    PROVE  Keeps(r)
<1> PICK i, s : i = req[r].id /\ s = req[r].copy.row
  OBVIOUS
<1>1. req[r].op \notin NewOps
  BY OpsApart
<1>2. i \in Items /\ ItemRead(req[r])
  BY WritingIs
<1>3. s \in Sets /\ born[i] = s
  BY <1>2 DEF ItemRead
<1>4. /\ item' = [item EXCEPT ![i] = s] /\ Done(r)
      /\ UNCHANGED <<course, material, set, born, promised, callbacks>>
  BY DEF SaveItem
<1>5. ContentTables'
  BY <1>2, <1>3, <1>4, TablesAre DEF ContentTables
<1>6. Grows
  BY <1>4 DEF Grows
<1>7. ItemsInv'
  <2>1. /\ \A x \in Items : item[x] # Nil => born[x] = item[x]
        /\ \A x \in Items : born[x] # Nil => set[born[x]] # NoRow
    BY RowsAre
  <2>2. \A x \in Items : item'[x] # Nil => born'[x] = item'[x]
    BY <1>2, <1>3, <1>4, <2>1, TablesAre DEF ContentTables
  <2> QED
    BY <1>4, <2>1, <2>2 DEF ItemsInv
<1>8. OneActs(r)
  BY <1>1, <1>4, <1>6, SavedActs
<1> QED
  BY <1>4, <1>5, <1>6, <1>7, <1>8, SamePlaces DEF Keeps

LEMMA RemoveItemKeeps ==
    ASSUME Inv, Track, NEW r \in Slots, Doing(r, "write"), req[r].op \in QuestionOps \cup CardOps,
           RemoveItem(r), UNCHANGED <<attempt, today, goal>>
    PROVE  Keeps(r)
<1> PICK i : i = req[r].id
  OBVIOUS
<1>1. req[r].op \notin NewOps
  BY OpsApart
<1>2. i \in Items
  BY WritingIs
<1>4. /\ item' = [item EXCEPT ![i] = Nil] /\ Done(r)
      /\ UNCHANGED <<course, material, set, born, promised, callbacks>>
  BY DEF RemoveItem
<1>5. ContentTables'
  BY <1>2, <1>4, TablesAre DEF ContentTables
<1>6. Grows
  BY <1>4 DEF Grows
<1>7. ItemsInv'
  <2>1. /\ \A x \in Items : item[x] # Nil => born[x] = item[x]
        /\ \A x \in Items : born[x] # Nil => set[born[x]] # NoRow
    BY RowsAre
  <2>2. \A x \in Items : item'[x] # Nil => born'[x] = item'[x]
    BY <1>2, <1>4, <2>1, TablesAre DEF ContentTables
  <2> QED
    BY <1>4, <2>1, <2>2 DEF ItemsInv
<1>8. OneActs(r)
  BY <1>1, <1>4, <1>6, SavedActs
<1> QED
  BY <1>4, <1>5, <1>6, <1>7, <1>8, SamePlaces DEF Keeps

LEMMA DeleteSetKeeps ==
    ASSUME Inv, Track, NEW r \in Slots, Doing(r, "write"), req[r].op \in QuizOps \cup DeckOps,
           DeleteSet(r), UNCHANGED <<attempt, today, goal>>
    PROVE  Keeps(r)
<1> PICK s : s = req[r].id
  OBVIOUS
<1>1. req[r].op \notin NewOps
  BY OpsApart
<1>2. s \in Sets
  BY WritingIs
<1>3. /\ set' = [set EXCEPT ![s] = Deleted(set[s])] /\ Done(r)
      /\ UNCHANGED <<course, material, item, born, promised, callbacks>>
  BY DEF DeleteSet
<1>4. ContentTables'
  BY <1>2, <1>3, TablesAre, DeletedIs DEF ContentTables
<1>5. Grows
  <2>1. \A d \in Sets, u \in Users : Of(set[d], u) => Of(set'[d], u)
    BY <1>2, <1>3, DeletedIs, OfNoRow, TablesAre DEF ContentTables
  <2>2. \A d \in Sets : set[d] # NoRow => set'[d] # NoRow
    BY <1>2, <1>3, DeletedIs, TablesAre DEF ContentTables
  <2> QED
    BY <1>3, <2>1, <2>2 DEF Grows
<1>6. OneActs(r)
  BY <1>1, <1>3, <1>5, SavedActs
<1>7. PlacesInv'
  <2>1. \A d \in Sets : set'[d] # NoRow =>
          set[d] # NoRow /\ set'[d].course = set[d].course /\ set'[d].owner = set[d].owner
    BY <1>2, <1>3, DeletedIs, TablesAre DEF ContentTables
  <2> QED
    BY <1>3, <1>5, <2>1, PlacesKeep, PlacesAfter
<1> QED
  BY <1>3, <1>4, <1>5, <1>6, <1>7, SameItems DEF Keeps

(* Saving a quiz or deck writes its items too, those that are gone again.  *)
LEMMA SaveSetKeeps ==
    ASSUME Inv, Track, NEW r \in Slots, Doing(r, "write"), req[r].op \in QuizOps \cup DeckOps,
           SaveSet(r), UNCHANGED <<attempt, today, goal>>
    PROVE  Keeps(r)
<1> PICK s, u, c, m, copy, k : /\ s = req[r].id /\ u = req[r].user /\ c = req[r].course
                               /\ m = req[r].material /\ copy = req[r].copy /\ k = req[r].kids
  OBVIOUS
<1>1. req[r].op \notin NewOps
  BY OpsApart
<1>2. /\ u \in Users /\ s \in Sets /\ SetRead(req[r])
      /\ c \in Courses \cup {Nil} /\ m \in Materials \cup {Nil} /\ Place(c, u)
  BY WritingIs
<1>3. /\ copy.row \in SetRows /\ copy.course \in Courses \cup {Nil} /\ copy.material \in Materials \cup {Nil}
      /\ copy.row.owner = u /\ copy.row.st = "live"
      /\ Place(copy.row.course, u) /\ Place(copy.course, u) /\ Of(set[s], u)
      /\ \A i \in k : i \in Items /\ born[i] = s
  BY <1>2 DEF SetRead
<1> PICK f, g : f = ForeignKey(copy.course, c, copy.row.course) /\ g = ForeignKey(copy.material, m, copy.row.material)
  OBVIOUS
<1>4. f \in Courses \cup {Nil} /\ Place(f, u) /\ g \in Materials \cup {Nil}
  <2>1. copy.row.course \in Courses \cup {Nil} /\ copy.row.material \in Materials \cup {Nil}
    BY <1>3 DEF SetRows
  <2>2. f \in {copy.course, c, copy.row.course} /\ g \in {copy.material, m, copy.row.material}
    BY ForeignKeyOr
  <2> QED
    BY <1>2, <1>3, <2>1, <2>2
<1> PICK row : row = [copy.row EXCEPT !.course = f, !.material = g]
  OBVIOUS
<1>5. /\ set' = [set EXCEPT ![s] = row]
      /\ item' = [i \in Items |-> IF i \in k THEN s ELSE item[i]]
      /\ UNCHANGED <<course, material, born, promised, callbacks>> /\ Done(r)
  BY DEF SaveSet
<1>6. row \in SetRows /\ row.owner = u /\ row.course = f /\ Of(row, u) /\ row # NoRow
  <2>1. row \in SetRows /\ row.owner = u /\ row.course = f /\ Of(row, u)
    BY <1>3, <1>4 DEF SetRows, Of
  <2> QED
    BY <2>1, OfNoRow
<1>7. ContentTables'
  BY <1>2, <1>5, <1>6, TablesAre DEF ContentTables
<1>8. Grows
  <2>1. \A v : Of(set[s], v) => v = u
    BY <1>3 DEF Of
  <2>2. \A d \in Sets, v \in Users : Of(set[d], v) => Of(set'[d], v)
    BY <1>2, <1>5, <1>6, <2>1, TablesAre DEF ContentTables
  <2>3. \A d \in Sets : set[d] # NoRow => set'[d] # NoRow
    BY <1>2, <1>5, <1>6, TablesAre DEF ContentTables
  <2> QED
    BY <1>5, <2>2, <2>3 DEF Grows
<1>9. OneActs(r)
  BY <1>1, <1>5, <1>8, SavedActs
<1>10. PlacesInv'
  <2>1. PlaceAfter(f, u)
    BY <1>2, <1>4, <1>8, PlacesKeep
  <2>2. \A d \in Sets : set'[d] # NoRow => PlaceAfter(set'[d].course, set'[d].owner)
    BY <1>2, <1>5, <1>6, <1>8, <2>1, PlacesKeep, TablesAre DEF ContentTables
  <2> QED
    BY <1>5, <1>8, <2>2, PlacesKeep, PlacesAfter
<1>11. ItemsInv'
  <2>1. /\ \A x \in Items : item[x] # Nil => born[x] = item[x]
        /\ \A x \in Items : born[x] # Nil => set[born[x]] # NoRow
    BY RowsAre
  <2>2. \A x \in Items : item'[x] # Nil => born'[x] = item'[x]
    BY <1>3, <1>5, <2>1
  <2>3. \A x \in Items : born'[x] # Nil => set'[born'[x]] # NoRow
    BY <1>5, <1>8, <2>1, RowsAre DEF Grows
  <2> QED
    BY <2>2, <2>3 DEF ItemsInv
<1> QED
  BY <1>7, <1>8, <1>9, <1>10, <1>11 DEF Keeps

(* All the writes of the content service.                                  *)
ContentWrites(r) ==
    \/ CreateCourse(r) \/ UpdateCourse(r) \/ DeleteCourse(r)
    \/ CreateMaterial(r) \/ UpdateMaterial(r) \/ DeleteMaterial(r)
    \/ CreateQuiz(r) \/ UpdateQuiz(r) \/ DeleteQuiz(r)
    \/ AddQuizQuestion(r) \/ UpdateQuizQuestion(r) \/ DeleteQuizQuestion(r)
    \/ CreateFlashcardDeck(r) \/ UpdateFlashcardDeck(r) \/ DeleteFlashcardDeck(r)
    \/ AddFlashcard(r) \/ UpdateFlashcard(r) \/ DeleteFlashcard(r)

LEMMA ContentWritesKeep ==
    ASSUME Inv, Track, NEW r \in Slots, ContentWrites(r), UNCHANGED <<attempt, today, goal>>
    PROVE  Keeps(r)
<1>1. ASSUME CreateCourse(r) \/ UpdateCourse(r) \/ DeleteCourse(r) PROVE Keeps(r)
  BY <1>1, CreateCourseKeeps, UpdateCourseKeeps, DeleteCourseKeeps
<1>2. ASSUME CreateMaterial(r) \/ UpdateMaterial(r) \/ DeleteMaterial(r) PROVE Keeps(r)
  BY <1>2, CreateMaterialKeeps, UpdateMaterialKeeps, DeleteMaterialKeeps
<1>3. Questions \subseteq Items /\ Cards \subseteq Items
  BY DEF Items
<1>4. ASSUME CreateQuiz(r) PROVE Keeps(r)
  <2>1. CASE Writing(r, "CreateQuiz") /\ InsertSet(r, Quizzes)
    <3>1. req[r].op = "CreateQuiz"
      BY <2>1 DEF Writing, Op
    <3> QED
      BY <2>1, <3>1, InsertSetKeeps
  <2>2. CASE Doing(r, "child") /\ AddItem(r, Questions)
    BY <1>3, <2>2, ChildKeeps
  <2> QED
    BY <1>4, <2>1, <2>2 DEF CreateQuiz
<1>5. ASSUME CreateFlashcardDeck(r) PROVE Keeps(r)
  <2>1. CASE Writing(r, "CreateFlashcardDeck") /\ InsertSet(r, Decks)
    <3>1. req[r].op = "CreateFlashcardDeck"
      BY <2>1 DEF Writing, Op
    <3> QED
      BY <2>1, <3>1, InsertSetKeeps
  <2>2. CASE Doing(r, "child") /\ AddItem(r, Cards)
    BY <1>3, <2>2, ChildKeeps
  <2> QED
    BY <1>5, <2>1, <2>2 DEF CreateFlashcardDeck
<1>6. ASSUME UpdateQuiz(r) \/ UpdateFlashcardDeck(r) PROVE Keeps(r)
  <2>1. Doing(r, "write") /\ req[r].op \in QuizOps \cup DeckOps /\ SaveSet(r)
    BY <1>6 DEF UpdateQuiz, UpdateFlashcardDeck, Writing, Op, QuizOps, DeckOps
  <2> QED
    BY <2>1, SaveSetKeeps
<1>7. ASSUME DeleteQuiz(r) \/ DeleteFlashcardDeck(r) PROVE Keeps(r)
  <2>1. Doing(r, "write") /\ req[r].op \in QuizOps \cup DeckOps /\ DeleteSet(r)
    BY <1>7 DEF DeleteQuiz, DeleteFlashcardDeck, Writing, Op, QuizOps, DeckOps
  <2> QED
    BY <2>1, DeleteSetKeeps
<1>8. ASSUME AddQuizQuestion(r) \/ AddFlashcard(r) PROVE Keeps(r)
  <2>1. /\ Doing(r, "write") /\ req[r].op \in {"AddQuizQuestion", "AddFlashcard"}
        /\ AddItem(r, Questions) \/ AddItem(r, Cards)
    BY <1>8 DEF AddQuizQuestion, AddFlashcard, Writing, Op
  <2> QED
    BY <1>3, <2>1, AddItemKeeps
<1>9. ASSUME UpdateQuizQuestion(r) \/ UpdateFlashcard(r) PROVE Keeps(r)
  <2>1. Doing(r, "write") /\ req[r].op \in QuestionOps \cup CardOps /\ SaveItem(r)
    BY <1>9 DEF UpdateQuizQuestion, UpdateFlashcard, Writing, Op, QuestionOps, CardOps
  <2> QED
    BY <2>1, SaveItemKeeps
<1>10. ASSUME DeleteQuizQuestion(r) \/ DeleteFlashcard(r) PROVE Keeps(r)
  <2>1. Doing(r, "write") /\ req[r].op \in QuestionOps \cup CardOps /\ RemoveItem(r)
    BY <1>10 DEF DeleteQuizQuestion, DeleteFlashcard, Writing, Op, QuestionOps, CardOps
  <2> QED
    BY <2>1, RemoveItemKeeps
<1> QED
  BY <1>1, <1>2, <1>4, <1>5, <1>6, <1>7, <1>8, <1>9, <1>10 DEF ContentWrites

(* Attempts, study sessions and goals.                                     *)
KeepsResults(r) == Grows /\ AnalyticsTables' /\ OneActs(r)

LEMMA StartQuizAttemptKeeps ==
    ASSUME Inv, Track, NEW r \in Slots, StartQuizAttempt(r)
    PROVE  KeepsResults(r)
<1> PICK u : u = req[r].user
  OBVIOUS
<1>1. /\ Doing(r, "save") /\ req[r].op = "StartQuizAttempt" /\ req[r] # Idle
      /\ UNCHANGED <<course, material, set, item, born, promised, answer, today, goal, lost>>
  BY DoingIs DEF StartQuizAttempt, Op, contentVars, contentRows
<1>2. u \in Users
  BY <1>1, SavingIs
<1>3. CASE Refuse(r, "sql") /\ Works /\ UNCHANGED attempt
  <2>1. Grows
    BY <1>1, <1>3, CalmGrows DEF Calm
  <2>2. AnalyticsTables'
    BY <1>1, <1>3, TablesAre DEF AnalyticsTables
  <2> QED
    BY <1>1, <1>3, <2>1, <2>2, RefuseActs, WorksIs, ErrorsAre DEF KeepsResults
<1>4. CASE Done(r) /\ \E a \in Attempts : attempt[a] = NoRow /\ attempt' = [attempt EXCEPT ![a] = AttemptRow(u)]
  <2>1. PICK a \in Attempts : attempt[a] = NoRow /\ attempt' = [attempt EXCEPT ![a] = AttemptRow(u)]
    BY <1>4
  <2>2. AnalyticsTables'
    BY <1>1, <1>2, <2>1, NewRowsAre, TablesAre DEF AnalyticsTables
  <2>3. Grows
    <3>1. \A x \in Attempts, v \in Users : Of(attempt[x], v) => Of(attempt'[x], v)
      BY <2>1, OfNoRow, TablesAre DEF AnalyticsTables
    <3> QED
      BY <1>1, <3>1 DEF Grows
  <2>4. OneActs(r)
    BY <1>1, <1>4, <2>3, SavedActs DEF NewOps
  <2> QED
    BY <2>2, <2>3, <2>4 DEF KeepsResults
<1> QED
  BY <1>3, <1>4 DEF StartQuizAttempt

LEMMA SubmitAnswerKeeps ==
    ASSUME Inv, Track, NEW r \in Slots, SubmitAnswer(r)
    PROVE  KeepsResults(r)
<1> PICK i, a : i = req[r].n /\ a = req[r].id
  OBVIOUS
<1>1. /\ Doing(r, "save") /\ req[r].op = "SubmitAnswer" /\ req[r] # Idle
      /\ UNCHANGED <<course, material, set, item, born, promised, attempt, today, goal, lost>>
  BY DoingIs DEF SubmitAnswer, Op, contentVars, contentRows
<1>2. i \in Questions /\ a \in Attempts
  <2>1. req[r].op \in AttemptOps /\ Shape(req[r])
    BY <1>1, DoingIs DEF AttemptOps
  <2> QED
    BY <1>1, <2>1, SavingIs DEF Shape
<1>3. Grows
  BY <1>1, CalmGrows DEF Calm
<1>4. CASE Refuse(r, "sql") /\ Works /\ UNCHANGED answer
  <2>1. AnalyticsTables'
    BY <1>1, <1>4, TablesAre DEF AnalyticsTables
  <2> QED
    BY <1>1, <1>3, <1>4, <2>1, RefuseActs, WorksIs, ErrorsAre DEF KeepsResults
<1>5. CASE Done(r) /\ \E x \in Answers : answer' = [answer EXCEPT ![x] = [attempt |-> a, question |-> i]]
  <2>1. AnalyticsTables'
    BY <1>1, <1>2, <1>5, TablesAre DEF AnalyticsTables, AnswerRows
  <2>2. OneActs(r)
    BY <1>1, <1>3, <1>5, SavedActs DEF NewOps
  <2> QED
    BY <1>3, <2>1, <2>2 DEF KeepsResults
<1> QED
  BY <1>4, <1>5 DEF SubmitAnswer

LEMMA CompleteQuizAttemptKeeps ==
    ASSUME Inv, Track, NEW r \in Slots, CompleteQuizAttempt(r)
    PROVE  KeepsResults(r)
<1> PICK a, u, copy, kids : a = req[r].id /\ u = req[r].user /\ copy = req[r].copy /\ kids = req[r].kids
  OBVIOUS
<1> PICK back : back = {k \in kids : answer[k[1]] = NoRow}
  OBVIOUS
<1>1. /\ Doing(r, "save") /\ req[r].op = "CompleteQuizAttempt" /\ req[r] # Idle
      /\ UNCHANGED <<course, material, set, item, born, promised, today, goal, lost>>
  BY DoingIs DEF CompleteQuizAttempt, Op, contentVars, contentRows
<1>2. a \in Attempts /\ AttemptRead(req[r])
  BY <1>1, SavingIs DEF AttemptOps
<1>3. /\ copy.row \in AttemptRows /\ copy.row.owner = u /\ Of(attempt[a], u)
      /\ kids \subseteq Answers \X Questions /\ back \subseteq Answers \X Questions
  BY <1>2 DEF AttemptRead
<1>4. CASE Refuse(r, "sql") /\ Works /\ UNCHANGED <<attempt, answer>>
  <2>1. Grows
    BY <1>1, <1>4, CalmGrows DEF Calm
  <2>2. AnalyticsTables'
    BY <1>1, <1>4, TablesAre DEF AnalyticsTables
  <2> QED
    BY <1>1, <1>4, <2>1, <2>2, RefuseActs, WorksIs, ErrorsAre DEF KeepsResults
<1>5. CASE /\ attempt' = [attempt EXCEPT ![a] = [copy.row EXCEPT !.status = "completed"]]
           /\ answer' = [x \in Answers |->
                IF \E k \in back : k[1] = x
                THEN [attempt |-> a, question |-> (CHOOSE k \in back : k[1] = x)[2]]
                ELSE answer[x]]
           /\ Done(r)
  <2> PICK row : row = [copy.row EXCEPT !.status = "completed"]
    OBVIOUS
  <2>1. row \in AttemptRows /\ Of(row, u) /\ \A v : Of(attempt[a], v) => v = u
    BY <1>3 DEF AttemptRows, Of
  <2>2. Grows
    <3>1. \A x \in Attempts, v \in Users : Of(attempt[x], v) => Of(attempt'[x], v)
      BY <1>2, <1>5, <2>1, TablesAre DEF AnalyticsTables
    <3> QED
      BY <1>1, <3>1 DEF Grows
  <2>3. \A x \in Answers : answer'[x] \in AnswerRows \cup {NoRow}
    <3> TAKE x \in Answers
    <3>1. CASE \E k \in back : k[1] = x
      <4>1. (CHOOSE k \in back : k[1] = x) \in back
        BY <3>1
      <4> PICK k : k = (CHOOSE j \in back : j[1] = x)
        OBVIOUS
      <4>2. k[2] \in Questions
        BY <1>3, <4>1
      <4>3. answer'[x] = [attempt |-> a, question |-> k[2]]
        BY <1>5, <3>1
      <4> QED
        BY <1>2, <4>2, <4>3 DEF AnswerRows
    <3>2. CASE ~ \E k \in back : k[1] = x
      <4>1. answer'[x] = answer[x]
        BY <1>5, <3>2
      <4> QED
        BY <4>1, TablesAre DEF AnalyticsTables
    <3> QED
      BY <3>1, <3>2
  <2>4. answer' \in [Answers -> AnswerRows \cup {NoRow}]
    <3> DEFINE new(x) == IF \E k \in back : k[1] = x
                THEN [attempt |-> a, question |-> (CHOOSE k \in back : k[1] = x)[2]]
                ELSE answer[x]
    <3>1. answer' = [x \in Answers |-> new(x)]
      BY <1>5
    <3> HIDE DEF new
    <3> QED
      BY <2>3, <3>1
  <2>5. AnalyticsTables'
    <3>1. attempt' \in [Attempts -> AttemptRows \cup {NoRow}]
      BY <1>2, <1>5, <2>1, TablesAre DEF AnalyticsTables
    <3> QED
      BY <1>1, <2>4, <3>1, TablesAre DEF AnalyticsTables
  <2>6. OneActs(r)
    BY <1>1, <1>5, <2>2, SavedActs DEF NewOps
  <2> QED
    BY <2>2, <2>5, <2>6 DEF KeepsResults
<1> QED
  BY <1>4, <1>5 DEF CompleteQuizAttempt

(* The row of the day, once there, stays; its count may only be replaced.  *)
LEMMA CountingIs ==
    ASSUME Inv, NEW r \in Slots, Doing(r, "count")
    PROVE  /\ req[r] # Idle /\ Head(req[r].todo) = "count" /\ req[r].user \in Users /\ req[r].n \in Nat
           /\ req[r].op \in SessionOps /\ SessionRead(req[r])
<1>1. /\ req[r] # Idle /\ req[r] \in Request /\ ReqInv(r) /\ Shape(req[r]) /\ Ordered(req[r].todo)
      /\ Head(req[r].todo) = "count" /\ Ahead(req[r].todo, "count")
  BY DoingIs
<1>2. ~ Ahead(req[r].todo, "session")
  <2>1. Rank("session") = 4 /\ Rank("count") = 5
    BY RanksAre
  <2> QED
    BY <1>1, <2>1, OrderedHead
<1>3. req[r].op \in SessionOps
  BY <1>1, OpsAre, OpsOfAre
<1>4. req[r].n \in Nat
  BY <1>1, <1>3 DEF Shape, SessionOps
<1>5. SessionRead(req[r])
  BY <1>1, <1>2 DEF ReqInv, ReadInv, Past
<1> QED
  BY <1>1, <1>3, <1>4, <1>5 DEF Request

LEMMA CountPasses ==
    ASSUME Inv, Grows, Track, NEW r \in Slots, Doing(r, "count"), Pass(r, req[r]), Works,
           \A x : RowOf(x)' = RowOf(x)
    PROVE  OneActs(r)
<1>1. req[r] # Idle /\ Head(req[r].todo) = "count" /\ req[r].op \notin NewOps
  BY CountingIs, OpsApart
<1> QED
  BY <1>1, PassActs, WorksIs DEF Reading

LEMMA SaveSessionKeeps ==
    ASSUME Inv, Track, NEW r \in Slots, SaveSession(r)
    PROVE  KeepsResults(r)
<1> PICK u, n, read : u = req[r].user /\ n = req[r].n /\ read = req[r].copy.today
  OBVIOUS
<1>1. /\ Doing(r, "count") /\ UNCHANGED <<course, material, set, item, born, promised, attempt, answer, goal>>
  BY DEF SaveSession, contentVars, contentRows
<1>2. /\ req[r] # Idle /\ u \in Users /\ n \in Nat
      /\ read \in Nat \cup {Nil} /\ (read # Nil => today[u] # Nil)
  BY <1>1, CountingIs DEF SessionRead
<1>3. \A x : RowOf(x)' = RowOf(x)
  BY <1>1 DEF RowOf
<1>4. /\ today \in [Users -> Nat \cup {Nil}] /\ lost \in [Users -> Int] /\ Nil \notin Nat
      /\ attempt \in [Attempts -> AttemptRows \cup {NoRow}]
      /\ answer \in [Answers -> AnswerRows \cup {NoRow}]
      /\ goal \in [Goals -> GoalRows \cup {NoRow}]
  BY TablesAre, AnalyticsAssumption DEF AnalyticsTables
<1>5. ASSUME today' \in [Users -> Nat \cup {Nil}], lost' \in [Users -> Int],
             \A v \in Users : today[v] # Nil => today'[v] # Nil
      PROVE  Grows /\ AnalyticsTables'
  BY <1>1, <1>4, <1>5 DEF Grows, AnalyticsTables
<1>6. SessionError(r) \in {"ok", "sql"}
  BY DEF SessionError
<1>7. CASE /\ read # Nil /\ today' = [today EXCEPT ![u] = read + n]
           /\ lost' = [lost EXCEPT ![u] = lost[u] + (today[u] - read)] /\ Done(r)
  <2>1. read \in Nat /\ today[u] \in Nat /\ lost[u] \in Int
    BY <1>2, <1>4, <1>7
  <2>2. read + n \in Nat /\ lost[u] + (today[u] - read) \in Int
    BY <1>2, <2>1
  <2>3. Grows /\ AnalyticsTables'
    BY <1>2, <1>4, <1>5, <1>7, <2>2
  <2> QED
    BY <1>1, <1>3, <1>7, <2>3, CountPasses DEF Done, KeepsResults
<1>8. CASE read = Nil /\ today[u] = Nil /\ today' = [today EXCEPT ![u] = n] /\ Done(r) /\ UNCHANGED lost
  <2>1. Grows /\ AnalyticsTables'
    BY <1>2, <1>4, <1>5, <1>8
  <2> QED
    BY <1>1, <1>3, <1>8, <2>1, CountPasses DEF Done, KeepsResults
<1>9. CASE /\ read = Nil /\ today[u] # Nil /\ lost' = [lost EXCEPT ![u] = lost[u] + n]
           /\ Judge(r, SessionError(r)) /\ Works /\ UNCHANGED today
  <2>1. lost[u] + n \in Int
    BY <1>2, <1>4
  <2>2. Grows /\ AnalyticsTables'
    BY <1>2, <1>4, <1>5, <1>9, <2>1
  <2>3. Pass(r, req[r]) \/ Refuse(r, "sql")
    BY <1>6, <1>9 DEF Judge
  <2> QED
    BY <1>1, <1>2, <1>3, <1>9, <2>2, <2>3, CountPasses, RefuseActs, WorksIs, ErrorsAre DEF KeepsResults
<1>10. CASE Fails(r, SessionError(r)) /\ UNCHANGED <<today, lost>>
  <2>1. Grows /\ AnalyticsTables'
    BY <1>4, <1>5, <1>10
  <2> QED
    BY <1>2, <1>6, <1>10, <2>1, FailsActs, ErrorsAre DEF KeepsResults
<1> QED
  BY <1>7, <1>8, <1>9, <1>10 DEF SaveSession

LEMMA GoalsKeep ==
    ASSUME Inv, NEW g \in Goals, NEW row, row \in GoalRows,
           goal' = [goal EXCEPT ![g] = row], \A u : Of(goal[g], u) => Of(row, u),
           UNCHANGED <<course, material, set, item, born, promised, attempt, answer, today, lost>>
    PROVE  Grows /\ AnalyticsTables'
<1>1. AnalyticsTables'
  BY TablesAre DEF AnalyticsTables
<1>2. \A x \in Goals, v \in Users : Of(goal[x], v) => Of(goal'[x], v)
  BY TablesAre DEF AnalyticsTables
<1> QED
  BY <1>1, <1>2 DEF Grows

LEMMA GoalWritesKeep ==
    ASSUME Inv, Track, NEW r \in Slots,
           CreateLearningGoal(r) \/ UpdateLearningGoal(r) \/ DeleteLearningGoal(r)
    PROVE  KeepsResults(r)
<1> PICK u, g, copy : u = req[r].user /\ g = req[r].id /\ copy = req[r].copy
  OBVIOUS
<1>1. /\ Doing(r, "save") /\ req[r].op \in {"CreateLearningGoal", "UpdateLearningGoal", "DeleteLearningGoal"}
      /\ UNCHANGED <<course, material, set, item, born, promised, attempt, answer, today, lost>> /\ Done(r)
  BY DEF CreateLearningGoal, UpdateLearningGoal, DeleteLearningGoal, Op, contentVars, contentRows
<1>2. u \in Users /\ (req[r].op \in SavedGoalOps => g \in Goals /\ GoalRead(req[r]))
  BY <1>1, SavingIs
<1>3. Grows /\ AnalyticsTables'
  <2>1. CASE CreateLearningGoal(r)
    <3>1. PICK x \in Goals : goal[x] = NoRow /\ goal' = [goal EXCEPT ![x] = GoalRow(u)]
      BY <2>1 DEF CreateLearningGoal
    <3> QED
      BY <1>1, <1>2, <3>1, GoalsKeep, NewRowsAre, OfNoRow
  <2>2. CASE UpdateLearningGoal(r)
    <3>1. req[r].op \in SavedGoalOps /\ goal' = [goal EXCEPT ![g] = copy.row]
      BY <2>2 DEF UpdateLearningGoal, Op, SavedGoalOps
    <3>2. /\ g \in Goals /\ copy.row \in GoalRows /\ copy.row.owner = u /\ copy.row.st = "live" /\ Of(goal[g], u)
      BY <1>2, <3>1 DEF GoalRead
    <3>3. \A v : Of(goal[g], v) => Of(copy.row, v)
      BY <3>2 DEF Of
    <3> QED
      BY <1>1, <3>1, <3>2, <3>3, GoalsKeep
  <2>3. CASE DeleteLearningGoal(r)
    <3>1. req[r].op \in SavedGoalOps /\ goal' = [goal EXCEPT ![g] = Deleted(goal[g])]
      BY <2>3 DEF DeleteLearningGoal, Op, SavedGoalOps
    <3>2. g \in Goals /\ Of(goal[g], u)
      BY <1>2, <3>1 DEF GoalRead
    <3>3. goal[g] \in GoalRows
      BY <3>2, RowsAre
    <3>4. Deleted(goal[g]) \in GoalRows /\ \A v : Of(goal[g], v) => Of(Deleted(goal[g]), v)
      BY <3>3, DeletedIs
    <3> QED
      BY <1>1, <3>1, <3>2, <3>4, GoalsKeep
  <2> QED
    BY <2>1, <2>2, <2>3
<1>4. OneActs(r)
  BY <1>1, <1>3, SavedActs DEF NewOps
<1> QED
  BY <1>3, <1>4 DEF KeepsResults

(* Marking a goal is one statement, of a request that will save nothing.   *)
LEMMA MarkPasses ==
    ASSUME Inv, Grows, NEW r \in Slots, Doing(r, "mark"), Pass(r, req[r]),
           served' \in Nat, faults' \in Nat
    PROVE  OneActs(r)
<1> PICK q : q = req[r]
  OBVIOUS
<1>1. /\ q # Idle /\ q \in Request /\ ReqInv(r) /\ Shape(q) /\ Ordered(q.todo)
      /\ Head(q.todo) = "mark" /\ q.id \in IdsOf(q.op)
  BY DoingIs DEF Shape
<1>2. q.op \in {"CompleteLearningGoal", "GetLearningGoals"}
  BY DoingIs, OpsAre, OpsOfAre
<1>3. /\ req'[r] \in Request /\ req'[r].todo = Tail(q.todo) /\ Alike(q, req'[r])
      /\ req'[r].id = q.id /\ req'[r].copy = q.copy /\ req'[r].kids = q.kids
      /\ \A z \in Slots \ {r} : req'[z] = req[z]
      /\ req' \in [Slots -> Request \cup {Idle}]
  BY <1>1, PassIs
<1>4. Shape(req[r])' /\ Checked(req[r])' /\ ShownInv(req[r])'
  BY <1>1, <1>3, ShapePasses, CheckedPasses, ShownStays
<1>5. ReadInv(req[r])'
  BY <1>1, <1>3, ReadPasses DEF Reading
<1>6. NewInv(req[r])'
  BY <1>2, <1>3 DEF NewInv, NewOps, Alike
<1>7. FreshInv(r)'
  BY <1>2, <1>3 DEF FreshInv, Alike, QuestionOps, CardOps, AttemptOps, SavedGoalOps
<1> QED
  BY <1>3, <1>4, <1>5, <1>6, <1>7 DEF ReqInv, OneActs

LEMMA MarkCompleteKeeps ==
    ASSUME Inv, Track, NEW r \in Slots, MarkComplete(r)
    PROVE  KeepsResults(r)
<1> PICK g : g = req[r].id
  OBVIOUS
<1>1. /\ Doing(r, "mark") /\ req[r] # Idle
      /\ UNCHANGED <<course, material, set, item, born, promised, attempt, answer, today, lost>>
  BY DoingIs DEF MarkComplete, contentVars, contentRows
<1>2. g \in Goals
  BY <1>1, DoingIs DEF ReqInv, ReadInv
<1>3. CASE goal' = [goal EXCEPT ![g] = IF Live(goal[g]) THEN [goal[g] EXCEPT !.done = TRUE] ELSE goal[g]] /\ Done(r)
  <2>1. Grows /\ AnalyticsTables'
    <3>1. CASE Live(goal[g])
      <4>1. goal[g] \in GoalRows
        BY <1>2, <3>1, RowsAre
      <4> PICK row : row = [goal[g] EXCEPT !.done = TRUE]
        OBVIOUS
      <4>2. row \in GoalRows /\ \A v : Of(goal[g], v) => Of(row, v)
        BY <4>1 DEF GoalRows, Of
      <4> QED
        BY <1>1, <1>2, <1>3, <3>1, <4>2, GoalsKeep
    <3>2. CASE ~ Live(goal[g])
      <4>1. goal' = goal
        BY <1>2, <1>3, <3>2, TablesAre DEF AnalyticsTables
      <4> QED
        BY <1>1, <4>1, TablesAre DEF Grows, AnalyticsTables
    <3> QED
      BY <3>1, <3>2
  <2> QED
    BY <1>1, <1>3, <2>1, MarkPasses, WorksIs DEF Done, KeepsResults
<1>4. CASE /\ faults' = faults + 1 /\ UNCHANGED <<goal, served>>
           /\ Judge(r, IF Op(r) = "GetLearningGoals" THEN "ok" ELSE "sql")
  <2>1. Grows /\ AnalyticsTables'
    BY <1>1, <1>4, TablesAre DEF Grows, AnalyticsTables
  <2>2. served' \in Nat /\ faults' \in Nat
    BY <1>4 DEF Inv, RowsInv
  <2>3. Pass(r, req[r]) \/ Refuse(r, "sql")
    BY <1>4 DEF Judge
  <2> QED
    BY <1>1, <2>1, <2>2, <2>3, MarkPasses, RefuseActs, ErrorsAre DEF KeepsResults
<1> QED
  BY <1>3, <1>4 DEF MarkComplete

-----------------------------------------------------------------------------
(* The inductive invariant.                                                *)
LEMMA StaleTyped == ASSUME Inv, Track PROVE stale' \in [Slots -> SUBSET Rows]
<1>1. Changed \subseteq Rows /\ stale \in [Slots -> SUBSET Rows]
  BY DEF Changed, Inv, RowsInv
<1> DEFINE seen(r) == CASE req'[r] = Idle \/ Reads(r) -> {} [] ~ Acts(r) -> stale[r] \cup Changed [] OTHER -> stale[r]
<1>2. \A r \in Slots : seen(r) \in SUBSET Rows
  BY <1>1
<1>3. stale' = [r \in Slots |-> seen(r)]
  BY DEF Track
<1> HIDE DEF seen
<1> QED
  BY <1>2, <1>3

LEMMA CascadeTyped == ASSUME Inv, Cascade PROVE AnalyticsTables'
<1>1. answer \in [Answers -> AnswerRows \cup {NoRow}]
  BY TablesAre DEF AnalyticsTables
<1>2. answer' \in [Answers -> AnswerRows \cup {NoRow}]
  BY <1>1 DEF Cascade
<1> QED
  BY <1>2, TablesAre DEF AnalyticsTables, Cascade

LEMMA Assemble ==
    ASSUME Inv, Track, Grows, ContentTables', AnalyticsTables', PlacesInv', ItemsInv',
           NEW r \in Slots, OneActs(r)
    PROVE  Inv'
<1>1. stale' \in [Slots -> SUBSET Rows]
  BY StaleTyped
<1>2. RowsInv'
  BY <1>1 DEF RowsInv, ContentTables, AnalyticsTables, OneActs
<1>3. ASSUME NEW z \in Slots, req'[z] # Idle PROVE ReqInv(z)'
  <2>1. CASE z = r
    BY <1>3, <2>1 DEF OneActs
  <2>2. CASE z # r
    <3>1. req'[z] = req[z] /\ req[z] # Idle
      BY <1>3, <2>2 DEF OneActs
    <3> QED
      BY <3>1, OthersKeep
  <2> QED
    BY <2>1, <2>2
<1>4. ReqsInv'
  BY <1>3 DEF ReqsInv
<1> QED
  BY <1>2, <1>4 DEF Inv

LEMMA CalmTables ==
    ASSUME Inv, UNCHANGED contentVars
    PROVE  ContentTables' /\ (UNCHANGED <<attempt, today, goal>> => Calm /\ Grows /\ PlacesInv' /\ ItemsInv')
<1>1. ContentTables'
  BY TablesAre DEF ContentTables, contentVars, contentRows
<1>2. ASSUME UNCHANGED <<attempt, today, goal>> PROVE Calm /\ Grows
  BY <1>2, CalmGrows DEF Calm, contentVars, contentRows
<1> QED
  BY <1>1, <1>2, SamePlaces, SameItems DEF contentVars, contentRows

LEMMA ContentStatementKeeps ==
    ASSUME Inv, Track, NEW r \in Slots, ContentStatement(r), UNCHANGED <<attempt, today, goal>>
    PROVE  Keeps(r)
<1> DEFINE Looks == \/ ReadRow(r) \/ CheckCourse(r) \/ CheckMaterial(r) \/ ReadItem(r) \/ CheckParent(r)
                    \/ ReloadSet(r) \/ ListRows(r) \/ WriteFails(r)
<1>1. ASSUME Looks PROVE Keeps(r)
  <2>1. UNCHANGED contentVars
    BY <1>1 DEF ReadRow, CheckCourse, CheckMaterial, ReadItem, CheckParent, ReloadSet, ListRows, WriteFails
  <2>2. ContentTables' /\ Calm /\ Grows /\ PlacesInv' /\ ItemsInv'
    BY <2>1, CalmTables
  <2>3. OneActs(r)
    BY <1>1, <2>2, ReadRowActs, CheckCourseActs, CheckMaterialActs, ReadItemActs, CheckParentActs,
       ReloadSetActs, ListRowsActs, FailuresAct
  <2> QED
    BY <2>2, <2>3 DEF Keeps
<1>2. ASSUME ContentWrites(r) PROVE Keeps(r)
  BY <1>2, ContentWritesKeep
<1>3. Looks \/ ContentWrites(r)
  BY DEF ContentStatement, ContentWrites
<1> QED
  BY <1>1, <1>2, <1>3

LEMMA AnalyticsStatementKeeps ==
    ASSUME Inv, Track, NEW r \in Slots, AnalyticsStatement(r)
    PROVE  KeepsResults(r) /\ UNCHANGED contentVars
<1> DEFINE Looks == \/ ReadAttempt(r) \/ Grade(r) \/ FindSession(r) \/ ReadGoal(r)
                    \/ GetLearningGoals(r) \/ ComputeProgress(r) \/ SaveFails(r)
<1>1. ASSUME Looks PROVE KeepsResults(r) /\ UNCHANGED contentVars
  <2>1. UNCHANGED contentVars /\ UNCHANGED analyticsVars
    BY <1>1 DEF ReadAttempt, Grade, FindSession, ReadGoal, GetLearningGoals, ComputeProgress, SaveFails
  <2>2. Calm /\ Grows /\ AnalyticsTables'
    BY <2>1, CalmTables, TablesAre DEF analyticsVars, AnalyticsTables
  <2>3. OneActs(r)
    BY <1>1, <2>2, ReadAttemptActs, GradeActs, FindSessionActs, ReadGoalActs, GetLearningGoalsActs,
       ComputeProgressActs, FailuresAct
  <2> QED
    BY <2>1, <2>2, <2>3 DEF KeepsResults
<1>2. ASSUME \/ StartQuizAttempt(r) \/ SubmitAnswer(r) \/ CompleteQuizAttempt(r) \/ SaveSession(r)
             \/ CreateLearningGoal(r) \/ UpdateLearningGoal(r) \/ DeleteLearningGoal(r) \/ MarkComplete(r)
      PROVE  KeepsResults(r) /\ UNCHANGED contentVars
  <2>1. UNCHANGED contentVars
    BY <1>2 DEF StartQuizAttempt, SubmitAnswer, CompleteQuizAttempt, SaveSession,
       CreateLearningGoal, UpdateLearningGoal, DeleteLearningGoal, MarkComplete
  <2> QED
    BY <1>2, <2>1, StartQuizAttemptKeeps, SubmitAnswerKeeps, CompleteQuizAttemptKeeps, SaveSessionKeeps,
       GoalWritesKeep, MarkCompleteKeeps
<1> QED
  BY <1>1, <1>2 DEF AnalyticsStatement

LEMMA ContentNextKeeps == ASSUME Inv, ContentNext, Cascade, Track PROVE Inv'
<1>1. UNCHANGED <<attempt, today, goal>> /\ AnalyticsTables'
  BY CascadeTyped DEF Cascade
<1>2. ASSUME NEW r \in Slots, NEW u \in Users, ContentRequest(r, u) PROVE Inv'
  <2>1. UNCHANGED contentVars
    BY <1>2 DEF ContentRequest
  <2>2. ContentTables' /\ Grows /\ PlacesInv' /\ ItemsInv'
    BY <1>1, <2>1, CalmTables
  <2> QED
    BY <1>1, <1>2, <2>2, ContentRequestActs, Assemble
<1>3. ASSUME NEW r \in Slots, ContentStatement(r) PROVE Inv'
  <2>1. Keeps(r)
    BY <1>1, <1>3, ContentStatementKeeps
  <2> QED
    BY <1>1, <2>1, Assemble DEF Keeps
<1>4. ASSUME NEW m \in Materials, NEW word, UpdateProcessingStatus(m, word) PROVE Inv'
  <2>1. Grows /\ ContentTables' /\ PlacesInv' /\ ItemsInv'
    BY <1>1, <1>4, UpdateProcessingStatusKeeps
  <2>2. UNCHANGED requestVars
    BY <1>4 DEF UpdateProcessingStatus
  <2>3. RowsInv'
    BY <1>1, <2>1, <2>2, StaleTyped DEF Inv, RowsInv, ContentTables, AnalyticsTables, requestVars
  <2>4. ReqsInv'
    <3>1. \A r \in Slots : req[r] # Idle => ReqInv(r)'
      BY <2>1, <2>2, OthersKeep DEF requestVars
    <3> QED
      BY <2>2, <3>1 DEF ReqsInv, requestVars
  <2> QED
    BY <2>1, <2>3, <2>4 DEF Inv
<1> QED
  BY <1>2, <1>3, <1>4 DEF ContentNext

LEMMA AnalyticsNextKeeps == ASSUME Inv, AnalyticsNext, Track PROVE Inv'
<1>1. ASSUME NEW r \in Slots, NEW u \in Users, AnalyticsRequest(r, u) PROVE Inv'
  <2>1. UNCHANGED contentVars /\ UNCHANGED analyticsVars
    BY <1>1 DEF AnalyticsRequest
  <2>2. ContentTables' /\ Grows /\ PlacesInv' /\ ItemsInv' /\ AnalyticsTables'
    BY <2>1, CalmTables, TablesAre DEF analyticsVars, AnalyticsTables
  <2> QED
    BY <1>1, <2>2, AnalyticsRequestActs, Assemble
<1>2. ASSUME NEW r \in Slots, AnalyticsStatement(r) PROVE Inv'
  <2>1. KeepsResults(r) /\ UNCHANGED contentVars
    BY <1>2, AnalyticsStatementKeeps
  <2>2. ContentTables' /\ PlacesInv' /\ ItemsInv'
    BY <2>1, CalmTables, SamePlaces, SameItems DEF KeepsResults, contentVars, contentRows
  <2> QED
    BY <2>1, <2>2, Assemble DEF KeepsResults
<1> QED
  BY <1>1, <1>2 DEF AnalyticsNext

LEMMA ReturnKeeps ==
    ASSUME Inv, NEW r \in Slots, Return(r), UNCHANGED <<contentVars, analyticsVars>>, Track
    PROVE  Inv'
<1>1. UNCHANGED contentVars /\ UNCHANGED analyticsVars
  OBVIOUS
<1>2. ContentTables' /\ Grows /\ PlacesInv' /\ ItemsInv' /\ AnalyticsTables'
  BY <1>1, CalmTables, TablesAre DEF analyticsVars, AnalyticsTables
<1> QED
  BY <1>2, ReturnActs, Assemble

LEMMA StutterKeeps == ASSUME Inv, UNCHANGED vars PROVE Inv'
<1> USE DEF vars, requestVars, contentVars, contentRows, analyticsVars
<1>1. RowsInv'
  BY DEF Inv, RowsInv
<1>2. PlacesInv' /\ ItemsInv'
  BY DEF Inv, PlacesInv, Place, ItemsInv
<1>3. \A x : RowOf(x)' = RowOf(x)
  BY DEF RowOf
<1>4. ASSUME NEW r \in Slots, req[r] # Idle PROVE ReqInv(r)'
  <2>1. ReqInv(r) /\ req'[r] = req[r] /\ stale' = stale
    BY <1>4 DEF Inv, ReqsInv
  <2>2. Grows
    BY DEF Grows
  <2>3. Shape(req[r])' /\ Checked(req[r])' /\ ReadInv(req[r])' /\ ShownInv(req[r])' /\ NewInv(req[r])'
    <3>1. Shape(req[r])'
      BY <2>1 DEF ReqInv
    <3>2. Alike(req[r], req'[r]) /\ req'[r].kids = req[r].kids
      BY <2>1 DEF Alike
    <3> QED
      BY <1>4, <2>1, <2>2, <3>1, <3>2, CheckedStays, ReadStays, ShownStays, NewStays
  <2>4. FreshInv(r)'
    BY <1>3, <2>1 DEF ReqInv, FreshInv, Same, Past
  <2> QED
    BY <2>3, <2>4 DEF ReqInv
<1>5. ReqsInv'
  BY <1>4 DEF ReqsInv
<1> QED
  BY <1>1, <1>2, <1>5 DEF Inv

LEMMA NextKeeps == Inv /\ [Next]_vars => Inv'
BY ContentNextKeeps, AnalyticsNextKeeps, ReturnKeeps, StutterKeeps DEF Next

LEMMA InitHolds == Init => Inv
<1> SUFFICES ASSUME Init PROVE Inv
  OBVIOUS
<1> PICK u \in Users : ContentInit(u) /\ AnalyticsInit(u)
  BY DEF Init
<1>1. /\ req = [r \in Slots |-> Idle] /\ served = 0 /\ faults = 0 /\ stale = [r \in Slots |-> {}]
  BY DEF Init, RequestsInit
<1>2. PICK home \in (Courses \cap Given) \cup {Nil}, v \in Users :
        /\ home # Nil => v = u
        /\ course = [c \in Courses |-> IF c \in Given THEN CourseRow(v) ELSE NoRow]
        /\ material = [m \in Materials |-> IF m \in Given THEN MaterialRow(u, home) ELSE NoRow]
        /\ set = [s \in Sets |-> IF s \in Given THEN SetRow(u, home, Nil) ELSE NoRow]
        /\ item \in [Items -> (Sets \cap Given) \cup {Nil}]
        /\ born = item
        /\ promised = [s \in Sets |-> 0]
        /\ callbacks = 0
  BY DEF ContentInit
<1>3. /\ CourseRow(v) \in CourseRows /\ AttemptRow(u) \in AttemptRows /\ GoalRow(u) \in GoalRows
      /\ Of(CourseRow(v), v)
      /\ MaterialRow(u, home) \in MaterialRows /\ SetRow(u, home, Nil) \in SetRows
      /\ MaterialRow(u, home).course = home /\ MaterialRow(u, home).owner = u
      /\ SetRow(u, home, Nil).course = home /\ SetRow(u, home, Nil).owner = u
  BY NewRowsAre
<1>4. SetRow(u, home, Nil) # NoRow
  BY DEF SetRow, NoRow
<1>5. ContentTables
  BY <1>2, <1>3 DEF ContentTables
<1>6. PICK a \in Attempts \cap Given, i \in Questions \cap Given :
        answer = [x \in Answers |-> IF x \in Given THEN [attempt |-> a, question |-> i] ELSE NoRow]
  BY DEF AnalyticsInit
<1>7. AnalyticsTables
  <2>1. [attempt |-> a, question |-> i] \in AnswerRows
    BY DEF AnswerRows
  <2>2. answer \in [Answers -> AnswerRows \cup {NoRow}]
    BY <1>6, <2>1
  <2> QED
    BY <1>3, <2>2 DEF AnalyticsTables, AnalyticsInit
<1>8. RowsInv
  BY <1>1, <1>5, <1>7 DEF RowsInv, ContentTables, AnalyticsTables
<1>9. PlacesInv
  <2>1. Place(home, u)
    BY <1>2, <1>3 DEF Place
  <2>2. \A m \in Materials : material[m] # NoRow => material[m] = MaterialRow(u, home)
    BY <1>2
  <2>3. \A s \in Sets : set[s] # NoRow => set[s] = SetRow(u, home, Nil)
    BY <1>2
  <2> QED
    BY <1>3, <2>1, <2>2, <2>3 DEF PlacesInv
<1>10. ItemsInv
  BY <1>2, <1>4 DEF ItemsInv
<1>11. ReqsInv
  BY <1>1 DEF ReqsInv
<1> QED
  BY <1>8, <1>9, <1>10, <1>11 DEF Inv

(* Every state keeps the tables and the requests under way in order: rows  *)
(* are of their type and their course is their owner's, items belong to    *)
(* the set they were added to, a request has the end of its operation's    *)
(* statements ahead, and what it read is what the row holds or stale.      *)
THEOREM LearningInductive == Spec => []Inv
BY InitHolds, NextKeeps, PTL DEF Spec

-----------------------------------------------------------------------------
(* What is shown.                                                          *)
LEMMA ShownIsOwn == Inv => ShowsOnlyOwn
<1> SUFFICES ASSUME Inv, NEW r \in Slots, Doing(r, "answer"), Op(r) \in Shows, NEW x \in req[r].kids
             PROVE  OwnerOf(x) = req[r].user
  BY DEF ShowsOnlyOwn
<1>1. ShownInv(req[r])
  BY DoingIs DEF ReqInv
<1>2. IF x \in Items THEN born[x] # Nil /\ Of(set[born[x]], req[r].user)
      ELSE x \in Materials \cup Sets /\ Of(RowOf(x), req[r].user)
  BY <1>1 DEF ShownInv, Op
<1> QED
  BY <1>2 DEF OwnerOf, Of

(* A course, quiz, deck or listing of a course shows its reader only rows  *)
(* the reader owns, though the listings filter by course alone.            *)
THEOREM ShowsOwn == Spec => []ShowsOnlyOwn
BY LearningInductive, ShownIsOwn, PTL

-----------------------------------------------------------------------------
(* What a step may change: what changed since the request read it, a new   *)
(* row, or the row the request is about.                                   *)
Allowed(r, x) ==
    \/ x \in stale[r]
    \/ x \notin Items /\ RowOf(x) = NoRow
    \/ x \in Items /\ born[x] = Nil
    \/ x = req[r].id /\ KeepsItsOwn(x, RowOf(x), RowOf(x)') /\ (Gone(x) => Gone(x)')
Touches(r) == \A x \in Changed : Allowed(r, x)

LEMMA ChangedIs ==
    \A x \in Changed :
      /\ x \in Rows
      /\ \/ x \in Courses /\ RowOf(x) = course[x] /\ RowOf(x)' = course'[x] /\ course'[x] # course[x]
         \/ x \in Materials /\ RowOf(x) = material[x] /\ RowOf(x)' = material'[x] /\ material'[x] # material[x]
         \/ x \in Sets /\ RowOf(x) = set[x] /\ RowOf(x)' = set'[x] /\ set'[x] # set[x]
         \/ x \in Items /\ RowOf(x) = item[x] /\ RowOf(x)' = item'[x] /\ item'[x] # item[x]
         \/ x \in Attempts /\ RowOf(x) = attempt[x] /\ RowOf(x)' = attempt'[x] /\ attempt'[x] # attempt[x]
         \/ x \in Goals /\ RowOf(x) = goal[x] /\ RowOf(x)' = goal'[x] /\ goal'[x] # goal[x]
BY RowOfIs, RowOfAfter DEF Changed, Rows, ContentIds

(* A row that was deleted and is not any more was changed.                 *)
LEMMA RevivedIsChanged ==
    ASSUME Inv, Grows, NEW x \in Rows, Gone(x), ~ Gone(x)'
    PROVE  x \in Changed
<1>1. CASE x \in Items
  <2>1. born[x] # Nil /\ item[x] = Nil /\ born'[x] = born[x]
    BY <1>1 DEF Gone, Grows
  <2>2. item'[x] # Nil
    BY <1>1, <2>1 DEF Gone
  <2> QED
    BY <1>1, <2>1, <2>2, RowOfIs, RowOfAfter DEF Changed
<1>2. CASE x \notin Items
  BY <1>2 DEF Gone, Changed
<1> QED
  BY <1>1, <1>2

LEMMA TouchesIs ==
    ASSUME Inv, Grows, NEW r \in Slots, Touches(r), Acts(r), \A z \in Slots \ {r} : req'[z] = req[z]
    PROVE  /\ \A x \in Rows : Gone(x) /\ ~ Gone(x)' => \E z \in Slots : Acts(z) /\ x \in stale[z]
           /\ \A z \in Slots : Acts(z) => \A x \in Changed \ stale[z] :
                \/ RowOf(x) = NoRow \/ (x \in Items /\ born[x] = Nil)
                \/ x = req[z].id /\ KeepsItsOwn(x, RowOf(x), RowOf(x)')
<1>1. ASSUME NEW x \in Rows, Gone(x), ~ Gone(x)' PROVE x \in stale[r]
  <2>1. x \in Changed
    BY <1>1, RevivedIsChanged
  <2>2. Allowed(r, x)
    BY <2>1 DEF Touches
  <2>3. ~ (x \notin Items /\ RowOf(x) = NoRow)
    BY <1>1 DEF Gone, NoRow
  <2>4. ~ (x \in Items /\ born[x] = Nil)
    BY <1>1 DEF Gone
  <2> QED
    BY <1>1, <2>2, <2>3, <2>4 DEF Allowed
<1>2. ASSUME NEW z \in Slots, Acts(z) PROVE z = r
  BY <1>2 DEF Acts
<1> QED
  BY <1>1, <1>2 DEF Touches, Allowed

(* What a request that writes knows of the rows it read.                   *)
LEMMA WritingFresh ==
    ASSUME Inv, NEW r \in Slots, Doing(r, "write")
    PROVE  /\ req[r].op \in {"UpdateCourse", "UpdateMaterial", "UpdateQuiz", "UpdateFlashcardDeck"} =>
                /\ Same(r, req[r].id, req[r].copy.row)
                /\ \A x \in req[r].kids : /\ x \in Items => Same(r, x, req[r].id)
                                          /\ x \notin Items => RowOf(x).course = req[r].id \/ x \in stale[r]
           /\ req[r].op \in QuestionOps \cup CardOps => Same(r, req[r].id, req[r].copy.row)
<1>1. ReqInv(r) /\ Ordered(req[r].todo) /\ Head(req[r].todo) = "write" /\ Ahead(req[r].todo, "write")
  BY DoingIs
<1>2. ~ Ahead(req[r].todo, "row") /\ ~ Ahead(req[r].todo, "item")
  <2>1. Rank("row") = 0 /\ Rank("item") = 0 /\ Rank("write") = 3
    BY RanksAre
  <2> QED
    BY <1>1, <2>1, OrderedHead
<1> QED
  BY <1>1, <1>2 DEF ReqInv, FreshInv, Past

LEMMA SavingFresh ==
    ASSUME Inv, NEW r \in Slots, Doing(r, "save"), req[r].op \in AttemptOps \cup SavedGoalOps
    PROVE  Same(r, req[r].id, req[r].copy.row)
<1>1. ReqInv(r) /\ Ordered(req[r].todo) /\ Head(req[r].todo) = "save" /\ Ahead(req[r].todo, "save")
  BY DoingIs
<1>2. ~ Ahead(req[r].todo, "attempt") /\ ~ Ahead(req[r].todo, "goal")
  <2>1. Rank("attempt") = 0 /\ Rank("goal") = 0 /\ Rank("save") = 3
    BY RanksAre
  <2> QED
    BY <1>1, <2>1, OrderedHead
<1> QED
  BY <1>1, <1>2 DEF ReqInv, FreshInv, Past

LEMMA CalmTouches == ASSUME Inv, Calm, NEW r PROVE Touches(r)
<1>1. Changed = {}
  BY CalmGrows DEF Changed
<1> QED
  BY <1>1 DEF Touches

LEMMA DeletedKeepsItsOwn ==
    ASSUME NEW x, NEW row, Deleted(row) # row, NEW new, new = Deleted(row),
           \/ (x \in Courses /\ row \in CourseRows) \/ (x \in Materials /\ row \in MaterialRows)
           \/ (x \in Sets /\ row \in SetRows) \/ (x \in Goals /\ row \in GoalRows)
    PROVE  row.st = "live" /\ KeepsItsOwn(x, row, new)
<1>1. new = [row EXCEPT !.st = "deleted"] /\ row.st = "live"
  BY DEF Deleted, Live
<1>2. CASE x \in Courses /\ row \in CourseRows
  BY <1>1, <1>2, Kinds DEF KeepsItsOwn, CourseRows
<1>3. CASE x \in Materials /\ row \in MaterialRows
  BY <1>1, <1>3, Kinds DEF KeepsItsOwn, MaterialRows
<1>4. CASE x \in Sets /\ row \in SetRows
  BY <1>1, <1>4, Kinds DEF KeepsItsOwn, SetRows
<1>5. CASE x \in Goals /\ row \in GoalRows
  BY <1>1, <1>5, Kinds DEF KeepsItsOwn, GoalRows
<1> QED
  BY <1>2, <1>3, <1>4, <1>5

LEMMA CoursesTouch ==
    ASSUME Inv, NEW r \in Slots, CreateCourse(r) \/ UpdateCourse(r) \/ DeleteCourse(r),
           UNCHANGED <<attempt, today, goal>>
    PROVE  Touches(r)
<1> SUFFICES ASSUME NEW x \in Changed PROVE Allowed(r, x)
  BY DEF Touches
<1> PICK c : c = req[r].id
  OBVIOUS
<1>1. CASE CreateCourse(r)
  <2>1. PICK d \in Courses : course[d] = NoRow /\ course' = [course EXCEPT ![d] = CourseRow(req[r].user)]
    BY <1>1 DEF CreateCourse
  <2>2. x \in Courses /\ course[x] = NoRow /\ RowOf(x) = course[x]
    BY <1>1, <2>1, ChangedIs, TablesAre DEF CreateCourse, ContentTables
  <2> QED
    BY <2>2, Kinds DEF Allowed
<1>2. CASE UpdateCourse(r)
  <2>1. Doing(r, "write") /\ req[r].op = "UpdateCourse" /\ req[r].op \in CourseOps
    BY <1>2 DEF UpdateCourse, Writing, Op, CourseOps
  <2>2. c \in Courses /\ CourseRead(req[r]) /\ Same(r, c, req[r].copy.row)
        /\ \A y \in req[r].kids : y \notin Items => RowOf(y).course = c \/ y \in stale[r]
    BY <2>1, WritingIs, WritingFresh
  <2> PICK k, row : k = req[r].kids /\ row = req[r].copy.row
    OBVIOUS
  <2>3. /\ course' = [course EXCEPT ![c] = row]
        /\ material' = [m \in Materials |-> IF m \in k THEN [material[m] EXCEPT !.course = c] ELSE material[m]]
        /\ set' = [s \in Sets |-> IF s \in k THEN [set[s] EXCEPT !.course = c] ELSE set[s]]
        /\ UNCHANGED <<item, attempt, goal>>
    BY <1>2 DEF UpdateCourse
  <2>4. CASE x \in Courses /\ RowOf(x) = course[x] /\ course'[x] # course[x]
    <3>1. x = c /\ course[c] # row
      BY <2>2, <2>3, <2>4, TablesAre DEF ContentTables
    <3> QED
      BY <2>2, <2>4, <3>1 DEF Same, Allowed
  <2>5. CASE x \in Materials /\ RowOf(x) = material[x] /\ material'[x] # material[x]
    <3>1. x \in k /\ material'[x] = [material[x] EXCEPT !.course = c]
      BY <2>3, <2>5
    <3>2. Of(material[x], req[r].user)
      BY <2>2, <2>5, <3>1, Kinds DEF CourseRead
    <3>3. material[x] \in MaterialRows
      BY <2>5, <3>2, RowsAre
    <3>4. material[x].course # c
      BY <2>5, <3>1, <3>3 DEF MaterialRows
    <3> QED
      BY <2>2, <2>5, <3>1, <3>4, Kinds DEF Allowed
  <2>6. CASE x \in Sets /\ RowOf(x) = set[x] /\ set'[x] # set[x]
    <3>1. x \in k /\ set'[x] = [set[x] EXCEPT !.course = c]
      BY <2>3, <2>6
    <3>2. Of(set[x], req[r].user)
      BY <2>2, <2>6, <3>1, Kinds DEF CourseRead
    <3>3. set[x] \in SetRows
      BY <2>6, <3>2, RowsAre
    <3>4. set[x].course # c
      BY <2>6, <3>1, <3>3 DEF SetRows
    <3> QED
      BY <2>2, <2>6, <3>1, <3>4, Kinds DEF Allowed
  <2> QED
    BY <2>3, <2>4, <2>5, <2>6, ChangedIs
<1>3. CASE DeleteCourse(r)
  <2>1. Doing(r, "write") /\ req[r].op \in CourseOps
    BY <1>3 DEF DeleteCourse, Writing, Op, CourseOps
  <2>2. c \in Courses
    BY <2>1, WritingIs
  <2>3. /\ course' = [course EXCEPT ![c] = Deleted(course[c])]
        /\ UNCHANGED <<material, set, item, attempt, goal>>
    BY <1>3 DEF DeleteCourse
  <2>4. x = c /\ RowOf(x) = course[c] /\ RowOf(x)' = Deleted(course[c]) /\ Deleted(course[c]) # course[c]
    BY <2>2, <2>3, ChangedIs, TablesAre DEF ContentTables
  <2>5. course[c] \in CourseRows
    BY <2>2, <2>4, DeletedIs, RowsAre
  <2>6. RowOf(x).st = "live" /\ KeepsItsOwn(x, RowOf(x), RowOf(x)')
    BY <2>2, <2>4, <2>5, DeletedKeepsItsOwn
  <2>7. ~ Gone(x)
    BY <2>2, <2>4, <2>6, Kinds DEF Gone
  <2> QED
    BY <2>4, <2>6, <2>7 DEF Allowed
<1> QED
  BY <1>1, <1>2, <1>3

LEMMA MaterialsTouch ==
    ASSUME Inv, NEW r \in Slots, CreateMaterial(r) \/ UpdateMaterial(r) \/ DeleteMaterial(r),
           UNCHANGED <<attempt, today, goal>>
    PROVE  Touches(r)
<1> SUFFICES ASSUME NEW x \in Changed PROVE Allowed(r, x)
  BY DEF Touches
<1> PICK m : m = req[r].id
  OBVIOUS
<1>1. CASE CreateMaterial(r)
  <2> PICK row : row = MaterialRow(req[r].user, req[r].course)
    OBVIOUS
  <2>1. PICK d \in Materials : material[d] = NoRow /\ material' = [material EXCEPT ![d] = row]
    BY <1>1 DEF CreateMaterial
  <2>2. x \in Materials /\ material[x] = NoRow /\ RowOf(x) = material[x]
    BY <1>1, <2>1, ChangedIs, TablesAre DEF CreateMaterial, ContentTables
  <2> QED
    BY <2>2, Kinds DEF Allowed
<1>2. CASE UpdateMaterial(r)
  <2>1. Doing(r, "write") /\ req[r].op = "UpdateMaterial" /\ req[r].op \in MaterialOps
    BY <1>2 DEF UpdateMaterial, Writing, Op, MaterialOps
  <2> PICK row : row = req[r].copy.row
    OBVIOUS
  <2>2. m \in Materials /\ row \in MaterialRows /\ row.st = "live" /\ Same(r, m, row)
    BY <2>1, WritingIs, WritingFresh DEF MaterialRead
  <2> PICK f : f = ForeignKey(req[r].copy.course, req[r].course, row.course)
    OBVIOUS
  <2>3. /\ material' = [material EXCEPT ![m] = [row EXCEPT !.course = f]]
        /\ UNCHANGED <<course, set, item, attempt, goal>>
    BY <1>2 DEF UpdateMaterial
  <2>4. x = m /\ RowOf(x) = material[m] /\ RowOf(x)' = [row EXCEPT !.course = f]
    BY <2>2, <2>3, ChangedIs, TablesAre DEF ContentTables
  <2>5. CASE material[m] = row
    <3>1. KeepsItsOwn(x, RowOf(x), RowOf(x)')
      BY <2>2, <2>4, <2>5, Kinds DEF KeepsItsOwn, MaterialRows
    <3>2. ~ Gone(x)
      BY <2>2, <2>4, <2>5, Kinds DEF Gone
    <3> QED
      BY <2>4, <3>1, <3>2 DEF Allowed
  <2> QED
    BY <2>2, <2>4, <2>5, RowOfIs DEF Same, Allowed
<1>3. CASE DeleteMaterial(r)
  <2>1. Doing(r, "write") /\ req[r].op \in MaterialOps
    BY <1>3 DEF DeleteMaterial, Writing, Op, MaterialOps
  <2>2. m \in Materials
    BY <2>1, WritingIs
  <2>3. /\ material' = [material EXCEPT ![m] = Deleted(material[m])]
        /\ UNCHANGED <<course, set, item, attempt, goal>>
    BY <1>3 DEF DeleteMaterial
  <2>4. x = m /\ RowOf(x) = material[m] /\ RowOf(x)' = Deleted(material[m]) /\ Deleted(material[m]) # material[m]
    BY <2>2, <2>3, ChangedIs, TablesAre DEF ContentTables
  <2>5. material[m] \in MaterialRows
    BY <2>2, <2>4, DeletedIs, RowsAre
  <2>6. RowOf(x).st = "live" /\ KeepsItsOwn(x, RowOf(x), RowOf(x)')
    BY <2>2, <2>4, <2>5, DeletedKeepsItsOwn
  <2>7. ~ Gone(x)
    BY <2>2, <2>4, <2>6, Kinds DEF Gone
  <2> QED
    BY <2>4, <2>6, <2>7 DEF Allowed
<1> QED
  BY <1>1, <1>2, <1>3

LEMMA SetsTouch ==
    ASSUME Inv, NEW r \in Slots, Doing(r, "write"),
           \/ req[r].op \in {"UpdateQuiz", "UpdateFlashcardDeck"} /\ SaveSet(r)
           \/ req[r].op \in {"DeleteQuiz", "DeleteFlashcardDeck"} /\ DeleteSet(r)
           \/ InsertSet(r, Quizzes) \/ InsertSet(r, Decks),
           UNCHANGED <<attempt, today, goal>>
    PROVE  Touches(r)
<1> SUFFICES ASSUME NEW x \in Changed PROVE Allowed(r, x)
  BY DEF Touches
<1> PICK s, k : s = req[r].id /\ k = req[r].kids
  OBVIOUS
<1>1. CASE InsertSet(r, Quizzes) \/ InsertSet(r, Decks)
  <2> PICK row : row = SetRow(req[r].user, req[r].course, req[r].material)
    OBVIOUS
  <2>1. PICK d \in Sets : /\ set[d] = NoRow /\ set' = [set EXCEPT ![d] = row]
                          /\ UNCHANGED <<course, material, item>>
    BY <1>1 DEF InsertSet, Sets
  <2>2. x \in Sets /\ set[x] = NoRow /\ RowOf(x) = set[x]
    BY <2>1, ChangedIs, TablesAre DEF ContentTables
  <2> QED
    BY <2>2, Kinds DEF Allowed
<1>2. CASE req[r].op \in {"UpdateQuiz", "UpdateFlashcardDeck"} /\ SaveSet(r)
  <2>1. req[r].op \in QuizOps \cup DeckOps
    BY <1>2 DEF QuizOps, DeckOps
  <2> PICK row : row = req[r].copy.row
    OBVIOUS
  <2>2. /\ s \in Sets /\ row \in SetRows /\ row.st = "live" /\ Same(r, s, row)
        /\ \A y \in k : y \in Items /\ Same(r, y, s)
    <3>1. SetRead(req[r]) /\ s \in Sets
      BY <2>1, WritingIs
    <3> QED
      BY <1>2, <3>1, WritingFresh DEF SetRead
  <2> PICK f, g : /\ f = ForeignKey(req[r].copy.course, req[r].course, row.course)
                  /\ g = ForeignKey(req[r].copy.material, req[r].material, row.material)
    OBVIOUS
  <2>3. /\ set' = [set EXCEPT ![s] = [row EXCEPT !.course = f, !.material = g]]
        /\ item' = [i \in Items |-> IF i \in k THEN s ELSE item[i]]
        /\ UNCHANGED <<course, material, attempt, goal>>
    BY <1>2 DEF SaveSet
  <2>4. CASE x \in Items /\ RowOf(x) = item[x] /\ item'[x] # item[x]
    <3>1. x \in k /\ item[x] # s
      BY <2>3, <2>4
    <3> QED
      BY <2>2, <2>4, <3>1 DEF Same, Allowed
  <2>5. CASE x \in Sets /\ RowOf(x) = set[x] /\ RowOf(x)' = set'[x] /\ set'[x] # set[x]
    <3>1. x = s /\ RowOf(x) = set[s] /\ RowOf(x)' = [row EXCEPT !.course = f, !.material = g]
      BY <2>2, <2>3, <2>5, TablesAre DEF ContentTables
    <3>2. CASE set[s] = row
      <4>1. KeepsItsOwn(x, RowOf(x), RowOf(x)')
        BY <2>2, <3>1, <3>2, Kinds DEF KeepsItsOwn, SetRows
      <4>2. ~ Gone(x)
        BY <2>2, <3>1, <3>2, Kinds DEF Gone
      <4> QED
        BY <3>1, <4>1, <4>2 DEF Allowed
    <3> QED
      BY <2>2, <3>1, <3>2 DEF Same, Allowed
  <2> QED
    BY <2>3, <2>4, <2>5, ChangedIs
<1>3. CASE req[r].op \in {"DeleteQuiz", "DeleteFlashcardDeck"} /\ DeleteSet(r)
  <2>2. s \in Sets
    BY <1>3, WritingIs DEF QuizOps, DeckOps
  <2>3. /\ set' = [set EXCEPT ![s] = Deleted(set[s])]
        /\ UNCHANGED <<course, material, item, attempt, goal>>
    BY <1>3 DEF DeleteSet
  <2>4. x = s /\ RowOf(x) = set[s] /\ RowOf(x)' = Deleted(set[s]) /\ Deleted(set[s]) # set[s]
    BY <2>2, <2>3, ChangedIs, TablesAre DEF ContentTables
  <2>5. set[s] \in SetRows
    BY <2>2, <2>4, DeletedIs, RowsAre
  <2>6. RowOf(x).st = "live" /\ KeepsItsOwn(x, RowOf(x), RowOf(x)')
    BY <2>2, <2>4, <2>5, DeletedKeepsItsOwn
  <2>7. ~ Gone(x)
    BY <2>2, <2>4, <2>6, Kinds DEF Gone
  <2> QED
    BY <2>4, <2>6, <2>7 DEF Allowed
<1> QED
  BY <1>1, <1>2, <1>3

LEMMA AddItemTouches ==
    ASSUME Inv, NEW r \in Slots, NEW kind, kind \subseteq Items, AddItem(r, kind), UNCHANGED <<attempt, today, goal>>
    PROVE  Touches(r)
<1> SUFFICES ASSUME NEW x \in Changed PROVE Allowed(r, x)
  BY DEF Touches
<1>1. PICK i \in kind : born[i] = Nil /\ item' = [item EXCEPT ![i] = req[r].id]
  BY DEF AddItem, InsertItem
<1>2. UNCHANGED <<course, material, set, attempt, goal>>
  BY DEF AddItem
<1>3. x \in Items /\ item'[x] # item[x]
  BY <1>2, ChangedIs
<1>4. x = i
  BY <1>1, <1>3, TablesAre DEF ContentTables
<1> QED
  BY <1>1, <1>3, <1>4 DEF Allowed

LEMMA ItemsTouch ==
    ASSUME Inv, NEW r \in Slots, Doing(r, "write"), req[r].op \in QuestionOps \cup CardOps,
           SaveItem(r) \/ RemoveItem(r), UNCHANGED <<attempt, today, goal>>
    PROVE  Touches(r)
<1> SUFFICES ASSUME NEW x \in Changed PROVE Allowed(r, x)
  BY DEF Touches
<1> PICK i, s : i = req[r].id /\ s = req[r].copy.row
  OBVIOUS
<1>1. i \in Items /\ Same(r, i, s)
  BY WritingIs, WritingFresh
<1>2. UNCHANGED <<course, material, set, attempt, goal>>
  BY DEF SaveItem, RemoveItem
<1>3. x \in Items /\ RowOf(x) = item[x] /\ RowOf(x)' = item'[x] /\ item'[x] # item[x]
  BY <1>2, ChangedIs
<1>4. CASE item' = [item EXCEPT ![i] = s]
  <2>1. x = i /\ item[i] # s
    BY <1>1, <1>3, <1>4, TablesAre DEF ContentTables
  <2> QED
    BY <1>1, <1>3, <2>1 DEF Same, Allowed
<1>5. CASE item' = [item EXCEPT ![i] = Nil]
  <2>1. x = i /\ item[i] # Nil
    BY <1>1, <1>3, <1>5, TablesAre DEF ContentTables
  <2>2. KeepsItsOwn(x, RowOf(x), RowOf(x)') /\ ~ Gone(x)
    BY <1>3, <2>1, Kinds DEF KeepsItsOwn, Gone
  <2> QED
    BY <2>1, <2>2 DEF Allowed
<1> QED
  BY <1>4, <1>5 DEF SaveItem, RemoveItem

LEMMA ContentWritesTouch ==
    ASSUME Inv, NEW r \in Slots, ContentWrites(r), UNCHANGED <<attempt, today, goal>>
    PROVE  Touches(r)
<1>1. ASSUME CreateCourse(r) \/ UpdateCourse(r) \/ DeleteCourse(r) PROVE Touches(r)
  BY <1>1, CoursesTouch
<1>2. ASSUME CreateMaterial(r) \/ UpdateMaterial(r) \/ DeleteMaterial(r) PROVE Touches(r)
  BY <1>2, MaterialsTouch
<1>3. Questions \subseteq Items /\ Cards \subseteq Items
  BY DEF Items
<1>4. ASSUME CreateQuiz(r) \/ CreateFlashcardDeck(r) PROVE Touches(r)
  <2>1. \/ AddItem(r, Questions) \/ AddItem(r, Cards)
        \/ Doing(r, "write") /\ (InsertSet(r, Quizzes) \/ InsertSet(r, Decks))
    BY <1>4 DEF CreateQuiz, CreateFlashcardDeck, Writing
  <2> QED
    BY <1>3, <2>1, AddItemTouches, SetsTouch
<1>5. ASSUME UpdateQuiz(r) \/ UpdateFlashcardDeck(r) PROVE Touches(r)
  <2>1. Doing(r, "write") /\ req[r].op \in {"UpdateQuiz", "UpdateFlashcardDeck"} /\ SaveSet(r)
    BY <1>5 DEF UpdateQuiz, UpdateFlashcardDeck, Writing, Op
  <2> QED
    BY <2>1, SetsTouch
<1>6. ASSUME DeleteQuiz(r) \/ DeleteFlashcardDeck(r) PROVE Touches(r)
  <2>1. Doing(r, "write") /\ req[r].op \in {"DeleteQuiz", "DeleteFlashcardDeck"} /\ DeleteSet(r)
    BY <1>6 DEF DeleteQuiz, DeleteFlashcardDeck, Writing, Op
  <2> QED
    BY <2>1, SetsTouch
<1>7. ASSUME AddQuizQuestion(r) \/ AddFlashcard(r) PROVE Touches(r)
  BY <1>3, <1>7, AddItemTouches DEF AddQuizQuestion, AddFlashcard
<1>8. ASSUME \/ UpdateQuizQuestion(r) \/ UpdateFlashcard(r) \/ DeleteQuizQuestion(r) \/ DeleteFlashcard(r)
      PROVE  Touches(r)
  <2>1. Doing(r, "write") /\ req[r].op \in QuestionOps \cup CardOps /\ (SaveItem(r) \/ RemoveItem(r))
    BY <1>8 DEF UpdateQuizQuestion, UpdateFlashcard, DeleteQuizQuestion, DeleteFlashcard,
       Writing, Op, QuestionOps, CardOps
  <2> QED
    BY <2>1, ItemsTouch
<1> QED
  BY <1>1, <1>2, <1>4, <1>5, <1>6, <1>7, <1>8 DEF ContentWrites

LEMMA AttemptsTouch ==
    ASSUME Inv, NEW r \in Slots, StartQuizAttempt(r) \/ CompleteQuizAttempt(r)
    PROVE  Touches(r)
<1> SUFFICES ASSUME NEW x \in Changed PROVE Allowed(r, x)
  BY DEF Touches
<1> PICK a, row : a = req[r].id /\ row = req[r].copy.row
  OBVIOUS
<1>1. UNCHANGED <<course, material, set, item, goal>>
  BY DEF StartQuizAttempt, CompleteQuizAttempt, contentVars, contentRows
<1>2. x \in Attempts /\ RowOf(x) = attempt[x] /\ RowOf(x)' = attempt'[x] /\ attempt'[x] # attempt[x]
  BY <1>1, ChangedIs
<1>3. CASE \E b \in Attempts : attempt[b] = NoRow /\ attempt' = [attempt EXCEPT ![b] = AttemptRow(req[r].user)]
  <2>1. attempt[x] = NoRow
    BY <1>2, <1>3, TablesAre DEF AnalyticsTables
  <2> QED
    BY <1>2, <2>1, Kinds DEF Allowed
<1>4. CASE CompleteQuizAttempt(r) /\ attempt' = [attempt EXCEPT ![a] = [row EXCEPT !.status = "completed"]]
  <2>1. Doing(r, "save") /\ req[r].op \in AttemptOps
    BY <1>4 DEF CompleteQuizAttempt, Op, AttemptOps
  <2>2. a \in Attempts /\ row \in AttemptRows /\ Same(r, a, row)
    BY <2>1, SavingIs, SavingFresh DEF AttemptRead
  <2>3. x = a /\ RowOf(x) = attempt[a] /\ RowOf(x)' = [row EXCEPT !.status = "completed"]
    BY <1>2, <1>4, <2>2, TablesAre DEF AnalyticsTables
  <2>4. CASE attempt[a] = row
    <3>1. KeepsItsOwn(x, RowOf(x), RowOf(x)') /\ ~ Gone(x)
      BY <2>2, <2>3, <2>4, Kinds DEF KeepsItsOwn, AttemptRows, Gone
    <3> QED
      BY <2>3, <3>1 DEF Allowed
  <2> QED
    BY <2>2, <2>3, <2>4 DEF Same, Allowed
<1>5. CASE UNCHANGED attempt
  BY <1>2, <1>5
<1> QED
  BY <1>3, <1>4, <1>5 DEF StartQuizAttempt, CompleteQuizAttempt

LEMMA GoalsTouch ==
    ASSUME Inv, NEW r \in Slots,
           \/ CreateLearningGoal(r) \/ UpdateLearningGoal(r) \/ DeleteLearningGoal(r) \/ MarkComplete(r)
    PROVE  Touches(r)
<1> SUFFICES ASSUME NEW x \in Changed PROVE Allowed(r, x)
  BY DEF Touches
<1> PICK g, row : g = req[r].id /\ row = req[r].copy.row
  OBVIOUS
<1>1. UNCHANGED <<course, material, set, item, attempt>>
  BY DEF CreateLearningGoal, UpdateLearningGoal, DeleteLearningGoal, MarkComplete, contentVars, contentRows
<1>2. x \in Goals /\ RowOf(x) = goal[x] /\ RowOf(x)' = goal'[x] /\ goal'[x] # goal[x]
  BY <1>1, ChangedIs
<1>3. CASE CreateLearningGoal(r)
  <2>1. goal[x] = NoRow
    BY <1>2, <1>3, TablesAre DEF CreateLearningGoal, AnalyticsTables
  <2> QED
    BY <1>2, <2>1, Kinds DEF Allowed
<1>4. CASE UpdateLearningGoal(r)
  <2>1. Doing(r, "save") /\ req[r].op \in SavedGoalOps /\ goal' = [goal EXCEPT ![g] = row]
    BY <1>4 DEF UpdateLearningGoal, Op, SavedGoalOps
  <2>2. g \in Goals /\ Same(r, g, row)
    BY <2>1, SavingIs, SavingFresh
  <2>3. x = g /\ goal[g] # row
    BY <1>2, <2>1, <2>2, TablesAre DEF AnalyticsTables
  <2> QED
    BY <1>2, <2>2, <2>3 DEF Same, Allowed
<1>5. CASE DeleteLearningGoal(r)
  <2>1. Doing(r, "save") /\ req[r].op \in SavedGoalOps /\ goal' = [goal EXCEPT ![g] = Deleted(goal[g])]
    BY <1>5 DEF DeleteLearningGoal, Op, SavedGoalOps
  <2>2. g \in Goals
    BY <2>1, SavingIs
  <2>3. x = g /\ Deleted(goal[g]) # goal[g] /\ RowOf(x)' = Deleted(goal[g])
    BY <1>2, <2>1, <2>2, TablesAre DEF AnalyticsTables
  <2>4. goal[g] \in GoalRows
    BY <2>2, <2>3, DeletedIs, RowsAre
  <2>5. RowOf(x).st = "live" /\ KeepsItsOwn(x, RowOf(x), RowOf(x)')
    BY <1>2, <2>2, <2>3, <2>4, DeletedKeepsItsOwn
  <2>6. ~ Gone(x)
    BY <1>2, <2>5, Kinds DEF Gone
  <2> QED
    BY <2>3, <2>5, <2>6 DEF Allowed
<1>6. CASE MarkComplete(r)
  <2>1. goal' = [goal EXCEPT ![g] = IF Live(goal[g]) THEN [goal[g] EXCEPT !.done = TRUE] ELSE goal[g]]
    BY <1>2, <1>6 DEF MarkComplete
  <2>2. g \in Goals
    BY <1>6, DoingIs DEF MarkComplete, ReqInv, ReadInv
  <2>3. x = g /\ Live(goal[g]) /\ RowOf(x)' = [goal[g] EXCEPT !.done = TRUE]
    BY <1>2, <2>1, <2>2, TablesAre DEF AnalyticsTables
  <2>4. goal[g] \in GoalRows
    BY <2>2, <2>3, RowsAre
  <2>5. KeepsItsOwn(x, RowOf(x), RowOf(x)')
    BY <1>2, <2>3, <2>4, Kinds DEF KeepsItsOwn, GoalRows
  <2>6. ~ Gone(x)
    BY <1>2, <2>3, Kinds DEF Gone, Live
  <2> QED
    BY <2>3, <2>5, <2>6 DEF Allowed
<1> QED
  BY <1>3, <1>4, <1>5, <1>6

(* What a step undoes, and for whom.                                       *)
Undoes ==
    /\ \A x \in Rows : Gone(x) /\ ~ Gone(x)' => \E z \in Slots : Acts(z) /\ x \in stale[z]
    /\ \A z \in Slots : Acts(z) => \A x \in Changed \ stale[z] :
         \/ RowOf(x) = NoRow \/ (x \in Items /\ born[x] = Nil)
         \/ x = req[z].id /\ KeepsItsOwn(x, RowOf(x), RowOf(x)')

LEMMA CalmUndoes == ASSUME Inv, Calm PROVE Undoes
<1>1. Changed = {} /\ Grows
  BY CalmGrows DEF Changed
<1> QED
  BY <1>1, RevivedIsChanged DEF Undoes

LEMMA PassMeansActs ==
    ASSUME Inv, NEW r \in Slots, NEW s, s # "answer", Doing(r, s),
           Pass(r, req[r]) \/ \E x : Pass(r, [req[r] EXCEPT !.id = x])
    PROVE  Acts(r)
<1>1. req[r] \in Request /\ Ordered(req[r].todo) /\ Head(req[r].todo) = s /\ req \in [Slots -> Request \cup {Idle}]
  BY DoingIs DEF Inv, RowsInv
<1>2. Tail(req[r].todo) # req[r].todo
  BY <1>1, OrderedTail
<1>3. CASE Pass(r, req[r])
  <2>1. req'[r].todo = Tail(req[r].todo)
    BY <1>1, <1>3, PassIs
  <2> QED
    BY <1>2, <2>1 DEF Acts
<1>4. ASSUME NEW x, Pass(r, [req[r] EXCEPT !.id = x]) PROVE Acts(r)
  <2> DEFINE q == [req[r] EXCEPT !.id = x]
  <2>1. q.todo = req[r].todo /\ "todo" \in DOMAIN q /\ "begun" \in DOMAIN q
    BY <1>1 DEF Request
  <2>2. req'[r] = [q EXCEPT !.todo = Tail(q.todo), !.begun = TRUE]
    BY <1>1, <1>4 DEF Pass
  <2> HIDE DEF q
  <2>3. req'[r].todo = Tail(q.todo)
    BY <2>1, <2>2
  <2> QED
    BY <1>2, <2>1, <2>3 DEF Acts
<1> QED
  BY <1>3, <1>4

LEMMA ContentWritesAct ==
    ASSUME Inv, NEW r \in Slots, ContentWrites(r)
    PROVE  Acts(r)
<1>1. Doing(r, "write") \/ Doing(r, "child")
  BY DEF ContentWrites, CreateCourse, UpdateCourse, DeleteCourse, CreateMaterial, UpdateMaterial, DeleteMaterial,
     CreateQuiz, UpdateQuiz, DeleteQuiz, AddQuizQuestion, UpdateQuizQuestion, DeleteQuizQuestion,
     CreateFlashcardDeck, UpdateFlashcardDeck, DeleteFlashcardDeck, AddFlashcard, UpdateFlashcard, DeleteFlashcard,
     Writing
<1>2. Pass(r, req[r]) \/ \E x : Pass(r, [req[r] EXCEPT !.id = x])
  BY DEF ContentWrites, CreateCourse, UpdateCourse, DeleteCourse, CreateMaterial, UpdateMaterial, DeleteMaterial,
     CreateQuiz, UpdateQuiz, DeleteQuiz, AddQuizQuestion, UpdateQuizQuestion, DeleteQuizQuestion,
     CreateFlashcardDeck, UpdateFlashcardDeck, DeleteFlashcardDeck, AddFlashcard, UpdateFlashcard, DeleteFlashcard,
     InsertSet, AddItem, SaveSet, SaveItem, DeleteSet, RemoveItem, Done
<1> QED
  BY <1>1, <1>2, PassMeansActs

LEMMA AnalyticsWritesAct ==
    ASSUME Inv, NEW r \in Slots,
           \/ StartQuizAttempt(r) \/ SubmitAnswer(r) \/ CompleteQuizAttempt(r) \/ SaveSession(r)
           \/ CreateLearningGoal(r) \/ UpdateLearningGoal(r) \/ DeleteLearningGoal(r) \/ MarkComplete(r)
    PROVE  Undoes \/ (Touches(r) /\ Acts(r))
<1>1. UNCHANGED <<course, material, set, item, born, promised>>
  BY DEF StartQuizAttempt, SubmitAnswer, CompleteQuizAttempt, SaveSession, contentVars, contentRows,
     CreateLearningGoal, UpdateLearningGoal, DeleteLearningGoal, MarkComplete
<1>2. Doing(r, "save") \/ Doing(r, "count") \/ Doing(r, "mark")
  BY DEF StartQuizAttempt, SubmitAnswer, CompleteQuizAttempt, SaveSession,
     CreateLearningGoal, UpdateLearningGoal, DeleteLearningGoal, MarkComplete
<1>3. CASE UNCHANGED <<attempt, goal>>
  <2>1. Changed = {}
    BY <1>1, <1>3, ChangedIs
  <2>2. ASSUME NEW x \in Rows, Gone(x), ~ Gone(x)' PROVE FALSE
    <3>1. x \notin Items => RowOf(x)' = RowOf(x)
      BY <1>1, <1>3 DEF RowOf
    <3> QED
      BY <1>1, <2>2, <3>1 DEF Gone
  <2> QED
    BY <2>1, <2>2 DEF Undoes
<1>4. CASE ~ UNCHANGED <<attempt, goal>>
  <2>1. Pass(r, req[r])
    BY <1>4 DEF StartQuizAttempt, SubmitAnswer, CompleteQuizAttempt, SaveSession, Done,
       CreateLearningGoal, UpdateLearningGoal, DeleteLearningGoal, MarkComplete
  <2>2. Acts(r)
    BY <1>2, <2>1, PassMeansActs
  <2>3. ~ SubmitAnswer(r) /\ ~ SaveSession(r)
    BY <1>4 DEF SubmitAnswer, SaveSession
  <2> QED
    BY <2>2, <2>3, AttemptsTouch, GoalsTouch
<1> QED
  BY <1>3, <1>4

LEMMA NextUndoes == ASSUME Inv, Next PROVE Undoes
<1>1. ASSUME NEW r \in Slots, ContentStatement(r), Cascade, Track PROVE Undoes
  <2>0. UNCHANGED <<attempt, today, goal>>
    BY <1>1 DEF Cascade
  <2>1. CASE ContentWrites(r)
    <3>1. Grows /\ \A z \in Slots \ {r} : req'[z] = req[z]
      BY <1>1, <2>0, <2>1, ContentWritesKeep DEF Keeps, OneActs
    <3> QED
      BY <2>0, <2>1, <3>1, ContentWritesTouch, ContentWritesAct, TouchesIs DEF Undoes
  <2>2. CASE ~ ContentWrites(r)
    <3>1. UNCHANGED contentVars
      BY <1>1, <2>2 DEF ContentStatement, ContentWrites,
         ReadRow, CheckCourse, CheckMaterial, ReadItem, CheckParent, ReloadSet, ListRows, WriteFails
    <3> QED
      BY <2>0, <3>1, CalmTables, CalmUndoes
  <2> QED
    BY <2>1, <2>2
<1>2. ASSUME NEW r \in Slots, AnalyticsStatement(r), Track PROVE Undoes
  <2>1. CASE \/ StartQuizAttempt(r) \/ SubmitAnswer(r) \/ CompleteQuizAttempt(r) \/ SaveSession(r)
             \/ CreateLearningGoal(r) \/ UpdateLearningGoal(r) \/ DeleteLearningGoal(r) \/ MarkComplete(r)
    <3>1. Grows /\ \A z \in Slots \ {r} : req'[z] = req[z]
      BY <1>2, AnalyticsStatementKeeps DEF KeepsResults, OneActs
    <3> QED
      BY <2>1, <3>1, AnalyticsWritesAct, TouchesIs DEF Undoes
  <2>2. CASE \/ ReadAttempt(r) \/ Grade(r) \/ FindSession(r) \/ ReadGoal(r)
             \/ GetLearningGoals(r) \/ ComputeProgress(r) \/ SaveFails(r)
    <3>1. UNCHANGED contentVars /\ UNCHANGED analyticsVars
      BY <2>2 DEF ReadAttempt, Grade, FindSession, ReadGoal, GetLearningGoals, ComputeProgress, SaveFails
    <3> QED
      BY <3>1, CalmTables, CalmUndoes DEF analyticsVars
  <2> QED
    BY <1>2, <2>1, <2>2 DEF AnalyticsStatement
<1>3. ASSUME NEW r \in Slots, NEW u \in Users, ContentRequest(r, u), Cascade PROVE Undoes
  BY <1>3, CalmTables, CalmUndoes DEF ContentRequest, Cascade
<1>4. ASSUME NEW r \in Slots, NEW u \in Users, AnalyticsRequest(r, u) PROVE Undoes
  <2>1. UNCHANGED contentVars /\ UNCHANGED analyticsVars
    BY <1>4 DEF AnalyticsRequest
  <2> QED
    BY <2>1, CalmTables, CalmUndoes DEF analyticsVars
<1>5. ASSUME UNCHANGED contentVars, UNCHANGED analyticsVars PROVE Undoes
  BY <1>5, CalmTables, CalmUndoes DEF analyticsVars
<1>6. ASSUME NEW m \in Materials, NEW word, UpdateProcessingStatus(m, word), Cascade PROVE Undoes
  <2>1. \A r : ~ Acts(r)
    BY <1>6 DEF UpdateProcessingStatus, requestVars, Acts
  <2>2. /\ Live(material[m]) /\ material' = [material EXCEPT ![m].status = DbStatus(word)]
        /\ UNCHANGED <<course, set, item, born, attempt, goal>>
    BY <1>6 DEF UpdateProcessingStatus, Cascade
  <2>3. ASSUME NEW x \in Rows, Gone(x), ~ Gone(x)' PROVE FALSE
    <3>1. Grows
      BY <1>6, UpdateProcessingStatusKeeps DEF Cascade
    <3>2. x \in Changed
      BY <2>3, <3>1, RevivedIsChanged
    <3>3. x \in Materials /\ x = m
      BY <2>2, <3>2, ChangedIs, TablesAre DEF ContentTables
    <3> QED
      BY <2>2, <2>3, <3>3, RowOfIs, Kinds DEF Gone, Live
  <2> QED
    BY <2>1, <2>3 DEF Undoes
<1> QED
  BY <1>1, <1>2, <1>3, <1>4, <1>5, <1>6 DEF Next, ContentNext, AnalyticsNext

(* What was deleted comes back only by the save of a request that read it  *)
(* before: the copy was already stale when it was written.                 *)
THEOREM RevivesOnlyByRace == Spec => DeletedStays
<1>1. Inv /\ [Next]_vars =>
        [\A x \in Rows : Gone(x) /\ ~ Gone(x)' => \E r \in Slots : Acts(r) /\ x \in stale[r]]_vars
  BY NextUndoes DEF Undoes
<1> QED
  BY <1>1, LearningInductive, PTL DEF Spec, DeletedStays

(* A step changes only the row its request is about, and of that row only  *)
(* what the request asks to change; other changes are on record as races.  *)
THEOREM SavesItsOwn == Spec => SavesOnlyItsOwn
<1>1. Inv /\ [Next]_vars =>
        [\A r \in Slots : Acts(r) => \A x \in Changed \ stale[r] :
           \/ RowOf(x) = NoRow \/ (x \in Items /\ born[x] = Nil)
           \/ x = req[r].id /\ KeepsItsOwn(x, RowOf(x), RowOf(x)')]_vars
  BY NextUndoes DEF Undoes
<1> QED
  BY <1>1, LearningInductive, PTL DEF Spec, SavesOnlyItsOwn

(* Both together: whatever a save undoes, in any interleaving of any       *)
(* number of requests, was changed between its read and its write.         *)
THEOREM UndoesByRace == Spec => UndoesOnlyByRace
BY RevivesOnlyByRace, SavesItsOwn, PTL DEF UndoesOnlyByRace

-----------------------------------------------------------------------------
(* The answers of a completed attempt.                                     *)
Finishes(a) ==
    \/ AnswersOf(a)' = AnswersOf(a)
    \/ \E r \in Slots : Acts(r) /\ Op(r) = "SubmitAnswer" /\ req[r].id = a /\ a \in stale[r]
    \/ \E r \in Slots :
         /\ Acts(r) /\ Op(r) = "CompleteQuizAttempt" /\ req[r].id = a
         /\ AnswersOf(a) \subseteq AnswersOf(a)'
         /\ AnswersOf(a)' \ AnswersOf(a) \subseteq {k[1] : k \in req[r].kids}
    \/ /\ AnswersOf(a)' \subseteq AnswersOf(a)
       /\ \A x \in AnswersOf(a) \ AnswersOf(a)' : item'[answer[x].question] = Nil

LEMMA CascadeFinishes == ASSUME Cascade, NEW a PROVE Finishes(a)
<1>1. \A x \in Answers : answer'[x] = IF answer[x] # NoRow /\ item'[answer[x].question] = Nil THEN NoRow ELSE answer[x]
  BY DEF Cascade
<1>2. AnswersOf(a)' = {x \in Answers : answer'[x] # NoRow /\ answer'[x].attempt = a}
  BY DEF AnswersOf
<1>3. AnswersOf(a)' \subseteq AnswersOf(a)
  BY <1>1, <1>2 DEF AnswersOf
<1>4. \A x \in AnswersOf(a) \ AnswersOf(a)' : item'[answer[x].question] = Nil
  BY <1>1, <1>2 DEF AnswersOf
<1> QED
  BY <1>3, <1>4 DEF Finishes

LEMMA SameFinishes == ASSUME UNCHANGED answer, NEW a PROVE Finishes(a)
BY DEF Finishes, AnswersOf

LEMMA SubmitFinishes ==
    ASSUME Inv, NEW r \in Slots, SubmitAnswer(r), NEW a \in Attempts, attempt[a].status = "completed"
    PROVE  Finishes(a)
<1> PICK b, i : b = req[r].id /\ i = req[r].n
  OBVIOUS
<1>1. Doing(r, "save") /\ req[r].op = "SubmitAnswer" /\ req[r].op \in AttemptOps
  BY DEF SubmitAnswer, Op, AttemptOps
<1>2. CASE UNCHANGED answer
  BY <1>2, SameFinishes
<1>3. CASE Done(r) /\ \E x \in Answers : answer[x] = NoRow /\ answer' = [answer EXCEPT ![x] = [attempt |-> b, question |-> i]]
  <2>1. CASE b = a
    <3>1. AttemptRead(req[r]) /\ Same(r, a, req[r].copy.row)
      BY <1>1, <2>1, SavingIs, SavingFresh
    <3>2. req[r].copy.row.status = "in_progress" /\ RowOf(a) = attempt[a]
      BY <1>1, <3>1, RowOfIs DEF AttemptRead
    <3>3. a \in stale[r]
      BY <3>1, <3>2 DEF Same
    <3>4. Acts(r)
      BY <1>1, <1>3, PassMeansActs DEF Done
    <3> QED
      BY <1>1, <2>1, <3>3, <3>4 DEF Finishes, Op
  <2>2. CASE b # a
    <3>1. PICK x \in Answers : answer[x] = NoRow /\ answer' = [answer EXCEPT ![x] = [attempt |-> b, question |-> i]]
      BY <1>3
    <3>2. \A y \in Answers : y # x => answer'[y] = answer[y]
      BY <3>1, TablesAre DEF AnalyticsTables
    <3>3. answer'[x].attempt = b
      BY <3>1, TablesAre DEF AnalyticsTables
    <3>4. AnswersOf(a)' = {y \in Answers : answer'[y] # NoRow /\ answer'[y].attempt = a}
      BY DEF AnswersOf
    <3>5. AnswersOf(a)' = AnswersOf(a)
      BY <2>2, <3>1, <3>2, <3>3, <3>4 DEF AnswersOf
    <3> QED
      BY <3>5 DEF Finishes
  <2> QED
    BY <2>1, <2>2
<1> QED
  BY <1>2, <1>3 DEF SubmitAnswer

LEMMA CompleteFinishes ==
    ASSUME Inv, NEW r \in Slots, CompleteQuizAttempt(r), NEW a \in Attempts
    PROVE  Finishes(a)
<1> PICK b, kids : b = req[r].id /\ kids = req[r].kids
  OBVIOUS
<1> PICK back : back = {k \in kids : answer[k[1]] = NoRow}
  OBVIOUS
<1>1. Doing(r, "save") /\ req[r].op = "CompleteQuizAttempt"
  BY DEF CompleteQuizAttempt, Op
<1>2. CASE UNCHANGED answer
  BY <1>2, SameFinishes
<1>3. CASE /\ answer' = [x \in Answers |->
                IF \E k \in back : k[1] = x
                THEN [attempt |-> b, question |-> (CHOOSE k \in back : k[1] = x)[2]]
                ELSE answer[x]]
           /\ Done(r)
  <2>1. \A x \in Answers : ~ (\E k \in back : k[1] = x) => answer'[x] = answer[x]
    BY <1>3
  <2>2. ASSUME NEW x \in Answers, \E k \in back : k[1] = x
        PROVE  answer[x] = NoRow /\ answer'[x].attempt = b /\ x \in {k[1] : k \in kids}
    <3>1. answer'[x] = [attempt |-> b, question |-> (CHOOSE k \in back : k[1] = x)[2]]
      BY <1>3, <2>2
    <3> QED
      BY <2>2, <3>1
  <2>3. AnswersOf(a)' = {y \in Answers : answer'[y] # NoRow /\ answer'[y].attempt = a}
    BY DEF AnswersOf
  <2>4. CASE b # a
    <3>1. AnswersOf(a)' = AnswersOf(a)
      BY <2>1, <2>2, <2>3, <2>4 DEF AnswersOf
    <3> QED
      BY <3>1 DEF Finishes
  <2>5. CASE b = a
    <3>1. Acts(r)
      BY <1>1, <1>3, PassMeansActs DEF Done
    <3>2. AnswersOf(a) \subseteq AnswersOf(a)'
      BY <2>1, <2>2, <2>3 DEF AnswersOf
    <3>3. AnswersOf(a)' \ AnswersOf(a) \subseteq {k[1] : k \in kids}
      BY <2>1, <2>2, <2>3 DEF AnswersOf
    <3> QED
      BY <1>1, <2>5, <3>1, <3>2, <3>3 DEF Finishes, Op
  <2> QED
    BY <2>4, <2>5
<1> QED
  BY <1>2, <1>3 DEF CompleteQuizAttempt

LEMMA NextFinishes ==
    ASSUME Inv, Next, NEW a \in Attempts, attempt[a].status = "completed"
    PROVE  Finishes(a)
<1>1. ASSUME NEW r \in Slots, AnalyticsStatement(r) PROVE Finishes(a)
  <2>1. CASE SubmitAnswer(r)
    BY <2>1, SubmitFinishes
  <2>2. CASE CompleteQuizAttempt(r)
    BY <2>2, CompleteFinishes
  <2>3. CASE ~ SubmitAnswer(r) /\ ~ CompleteQuizAttempt(r)
    <3>1. UNCHANGED answer
      BY <1>1, <2>3 DEF AnalyticsStatement, ReadAttempt, Grade, FindSession, ReadGoal, GetLearningGoals,
         ComputeProgress, SaveFails, StartQuizAttempt, SaveSession, CreateLearningGoal, UpdateLearningGoal,
         DeleteLearningGoal, MarkComplete, analyticsVars
    <3> QED
      BY <3>1, SameFinishes
  <2> QED
    BY <2>1, <2>2, <2>3
<1>2. ASSUME UNCHANGED analyticsVars PROVE Finishes(a)
  BY <1>2, SameFinishes DEF analyticsVars
<1> QED
  BY <1>1, <1>2, CascadeFinishes DEF Next, AnalyticsNext, AnalyticsRequest

(* The answers of a completed attempt change only by a submission that saw *)
(* it in progress, by the removal of a question, or by a completion that   *)
(* writes back answers it had read.                                        *)
THEOREM CompletionIsFinal == Spec => CompletedIsFinal
<1>1. Inv /\ [Next]_vars =>
        [\A a \in Attempts : RowOf(a) # NoRow /\ attempt[a].status = "completed" =>
           \/ AnswersOf(a)' = AnswersOf(a)
           \/ \E r \in Slots : Acts(r) /\ Op(r) = "SubmitAnswer" /\ req[r].id = a /\ a \in stale[r]
           \/ \E r \in Slots :
                /\ Acts(r) /\ Op(r) = "CompleteQuizAttempt" /\ req[r].id = a
                /\ AnswersOf(a) \subseteq AnswersOf(a)'
                /\ AnswersOf(a)' \ AnswersOf(a) \subseteq {k[1] : k \in req[r].kids}
           \/ /\ AnswersOf(a)' \subseteq AnswersOf(a)
              /\ \A x \in AnswersOf(a) \ AnswersOf(a)' : item'[answer[x].question] = Nil]_vars
  BY NextFinishes DEF Finishes
<1> QED
  BY <1>1, LearningInductive, PTL DEF Spec, CompletedIsFinal

-----------------------------------------------------------------------------
(* What is lost is paid for: sets that lack items.                         *)
LEMMA DoingOne == \A r, s, t : Doing(r, s) /\ Doing(r, t) => s = t
BY DEF Doing

LEMMA IdleDoesNothing == \A r, s : Doing(r, s) => req[r] # Idle
BY DEF Doing, Idle

LEMMA FaultsGrow == Inv /\ [Next]_vars => faults \in Nat /\ (faults' = faults \/ faults' = faults + 1)
<1> SUFFICES ASSUME Inv, [Next]_vars PROVE faults \in Nat /\ (faults' = faults \/ faults' = faults + 1)
  OBVIOUS
<1> DEFINE Steady == faults' = faults \/ faults' = faults + 1
<1>0. faults \in Nat
  BY DEF Inv, RowsInv
<1>1. ASSUME NEW r \in Slots, NEW u \in Users, ContentRequest(r, u) PROVE Steady
  <2> USE DEF ReadOne, OnRow, OnItem, ReadList, NewSet, ChangedSet, Begin
  <2>1. CASE \/ PostCourse(r, u) \/ FetchCourse(r, u) \/ PutCourse(r, u) \/ RemoveCourse(r, u)
             \/ PostMaterial(r, u) \/ FetchMaterial(r, u) \/ ListMaterials(r, u)
             \/ PutMaterial(r, u) \/ RemoveMaterial(r, u)
    BY <2>1 DEF PostCourse, FetchCourse, PutCourse, RemoveCourse, PostMaterial, FetchMaterial, ListMaterials,
       PutMaterial, RemoveMaterial
  <2>2. CASE \/ PostQuiz(r, u) \/ FetchQuiz(r, u) \/ ListQuizzes(r, u) \/ PutQuiz(r, u)
             \/ RemoveQuiz(r, u) \/ PostQuestion(r, u) \/ PutQuestion(r, u) \/ RemoveQuestion(r, u)
    BY <2>2 DEF PostQuiz, FetchQuiz, ListQuizzes, PutQuiz, RemoveQuiz, PostQuestion, PutQuestion, RemoveQuestion
  <2>3. CASE \/ PostDeck(r, u) \/ FetchDeck(r, u) \/ PutDeck(r, u) \/ RemoveDeck(r, u)
             \/ PostCard(r, u) \/ PutCard(r, u) \/ RemoveCard(r, u)
    BY <2>3 DEF PostDeck, FetchDeck, PutDeck, RemoveDeck, PostCard, PutCard, RemoveCard
  <2> QED
    BY <1>1, <2>1, <2>2, <2>3 DEF ContentRequest
<1>2. ASSUME NEW r \in Slots, NEW u \in Users, AnalyticsRequest(r, u) PROVE Steady
  BY <1>2 DEF AnalyticsRequest, PostAttempt, PostAnswer, PostCompletion, PostStudySession, PostGoal, FetchGoals,
     PutGoal, RemoveGoal, PostGoalCompletion, OnAttempt, OnGoal, Begin
<1>3. ASSUME NEW r \in Slots, ContentStatement(r) PROVE Steady
  <2> USE DEF Fails, Works, Done
  <2>1. CASE ContentWrites(r)
    BY <2>1 DEF ContentWrites, CreateCourse, UpdateCourse, DeleteCourse, CreateMaterial, UpdateMaterial, DeleteMaterial,
     CreateQuiz, UpdateQuiz, DeleteQuiz, AddQuizQuestion, UpdateQuizQuestion, DeleteQuizQuestion,
     CreateFlashcardDeck, UpdateFlashcardDeck, DeleteFlashcardDeck, AddFlashcard, UpdateFlashcard, DeleteFlashcard,
     InsertSet, AddItem, SaveSet, SaveItem, DeleteSet, RemoveItem
  <2>2. CASE ~ ContentWrites(r)
    BY <1>3, <2>2 DEF ContentStatement, ContentWrites,
       ReadRow, CheckCourse, CheckMaterial, ReadItem, CheckParent, ReloadSet, ListRows, WriteFails
  <2> QED
    BY <2>1, <2>2
<1>4. ASSUME NEW r \in Slots, AnalyticsStatement(r) PROVE Steady
  BY <1>4 DEF Fails, Works, Done, AnalyticsStatement, ReadAttempt, Grade, FindSession, ReadGoal, GetLearningGoals,
     ComputeProgress, SaveFails, StartQuizAttempt, SubmitAnswer, CompleteQuizAttempt, SaveSession,
     CreateLearningGoal, UpdateLearningGoal, DeleteLearningGoal, MarkComplete
<1>5. ASSUME NEW m, NEW word, UpdateProcessingStatus(m, word) PROVE Steady
  BY <1>5 DEF UpdateProcessingStatus, requestVars
<1>6. ASSUME NEW r \in Slots, Return(r) PROVE Steady
  BY <1>6 DEF Return, Works
<1>7. ASSUME UNCHANGED vars PROVE Steady
  BY <1>7 DEF vars, requestVars
<1> QED
  BY <1>0, <1>1, <1>2, <1>3, <1>4, <1>5, <1>6, <1>7 DEF Next, ContentNext, AnalyticsNext

(* A set becomes half made only at the hands of the request that makes it. *)
LEMMA HalfStays ==
    ASSUME Inv, Grows, promised' = promised, NEW r, \A z \in Slots \ {r} : req'[z] = req[z],
           NEW s \in HalfMade', s \notin HalfMade
    PROVE  /\ r \in Slots /\ Op(r) \in NewOps /\ Doing(r, "child") /\ req[r].id = s
           /\ ~ (Op(r) \in NewOps /\ Doing(r, "child") /\ req[r].id = s)'
<1> PICK b, bb, p : b = Cardinality(BornIn(s)) /\ bb = Cardinality(BornIn(s)') /\ p = promised[s]
  OBVIOUS
<1>1. s \in Sets /\ ~ BeingMade(s)' /\ bb < p
  BY DEF HalfMade, BornIn
<1>2. b \in Nat /\ bb \in Nat /\ p \in Nat /\ b <= bb
  BY <1>1, BornStays, TablesAre DEF ContentTables
<1>3. b < p
  BY <1>1, <1>2
<1>4. BeingMade(s)
  BY <1>1, <1>3 DEF HalfMade, BornIn
<1>5. PICK z \in Slots : Op(z) \in NewOps /\ Doing(z, "child") /\ req[z].id = s
  BY <1>4 DEF BeingMade, NewOps
<1>6. ~ (Op(z) \in NewOps /\ Doing(z, "child") /\ req[z].id = s)'
  BY <1>1 DEF BeingMade, NewOps
<1>7. z = r
  BY <1>5, <1>6 DEF Op, Doing
<1> QED
  BY <1>5, <1>6, <1>7

LEMMA HalfPaid ==
    ASSUME HalfMadePaidFor, faults \in Nat, NEW s,
           \/ HalfMade' \subseteq HalfMade /\ (faults' = faults \/ faults' = faults + 1)
           \/ HalfMade' \subseteq HalfMade \cup {s} /\ faults' = faults + 1
    PROVE  HalfMadePaidFor'
<1> PICK h, hh : h = HalfMade /\ hh = HalfMade'
  OBVIOUS
<1>1. h \subseteq Sets /\ IsFiniteSet(h)
  <2>1. IsFiniteSet(Sets)
    BY ContentAssumption
  <2>2. h \subseteq Sets
    BY DEF HalfMade
  <2> QED
    BY <2>1, <2>2, FS_Subset
<1> PICK hs : hs = h \cup {s}
  OBVIOUS
<1>2. /\ Cardinality(h) \in Nat /\ Cardinality(hs) \in Nat /\ IsFiniteSet(hs)
      /\ Cardinality(hs) = Cardinality(h) \/ Cardinality(hs) = Cardinality(h) + 1
  <2>1. Cardinality(h) \in Nat
    BY <1>1, FS_CardinalityType
  <2>2. CASE s \in h
    <3>1. hs = h
      BY <2>2
    <3> QED
      BY <1>1, <2>1, <3>1
  <2>3. CASE s \notin h
    <3>1. Cardinality(hs) = Cardinality(h) + 1 /\ IsFiniteSet(hs)
      BY <1>1, <2>3, FS_AddElement
    <3>2. Cardinality(hs) \in Nat
      BY <3>1, FS_CardinalityType
    <3> QED
      BY <2>1, <3>1, <3>2
  <2> QED
    BY <2>2, <2>3
<1> PICK k, n, e, f, ff : /\ k = Cardinality(h) /\ n = Cardinality(hh) /\ e = Cardinality(hs)
                          /\ f = faults /\ ff = faults'
  OBVIOUS
<1>3. k <= f /\ k \in Nat /\ f \in Nat
  BY <1>2 DEF HalfMadePaidFor
<1>4. n \in Nat /\ n <= ff
  <2>1. CASE hh \subseteq h /\ (ff = f \/ ff = f + 1)
    <3>1. n \in Nat /\ n <= k
      BY <1>1, <2>1, FS_Subset, FS_CardinalityType
    <3> QED
      BY <1>3, <2>1, <3>1
  <2>2. CASE hh \subseteq h \cup {s} /\ ff = f + 1
    <3>1. n \in Nat /\ n <= e
      BY <1>2, <2>2, FS_Subset, FS_CardinalityType
    <3>2. e <= k + 1 /\ e \in Nat
      BY <1>2
    <3> QED
      BY <1>3, <2>2, <3>1, <3>2
  <2> QED
    BY <2>1, <2>2
<1> QED
  BY <1>4 DEF HalfMadePaidFor

(* The statements a step may make.                                         *)
ContentHeads == {"row", "course", "material", "item", "parent", "write", "child", "reload", "list"}
AnalyticsHeads == {"attempt", "save", "grade", "goal", "mark", "goals", "progress"}
LEMMA HeadsAre ==
    ASSUME NEW r
    PROVE  /\ ContentStatement(r) => \E s \in ContentHeads : Doing(r, s)
           /\ AnalyticsStatement(r) => \/ FindSession(r) \/ SaveSession(r)
                                       \/ \E s \in AnalyticsHeads : Doing(r, s)
<1>1. ContentStatement(r) => \E s \in ContentHeads : Doing(r, s)
  BY DEF ContentHeads, Writing, ContentStatement,
     ReadRow, CheckCourse, CheckMaterial, ReadItem, CheckParent, ReloadSet, ListRows, WriteFails,
     CreateCourse, UpdateCourse, DeleteCourse, CreateMaterial, UpdateMaterial, DeleteMaterial,
     CreateQuiz, UpdateQuiz, DeleteQuiz, AddQuizQuestion, UpdateQuizQuestion, DeleteQuizQuestion,
     CreateFlashcardDeck, UpdateFlashcardDeck, DeleteFlashcardDeck, AddFlashcard, UpdateFlashcard, DeleteFlashcard
<1>2. AnalyticsStatement(r) => \/ FindSession(r) \/ SaveSession(r)
                               \/ \E s \in AnalyticsHeads : Doing(r, s)
  BY DEF AnalyticsHeads, AnalyticsStatement, ReadAttempt, Grade, ReadGoal, GetLearningGoals,
     ComputeProgress, SaveFails, StartQuizAttempt, SubmitAnswer, CompleteQuizAttempt,
     CreateLearningGoal, UpdateLearningGoal, DeleteLearningGoal, MarkComplete
<1> QED
  BY <1>1, <1>2

LEMMA BeginsIdle ==
    ASSUME NEW r, NEW u, ContentRequest(r, u) \/ AnalyticsRequest(r, u)
    PROVE  req[r] = Idle
<1> USE DEF ReadOne, OnRow, OnItem, ReadList, NewSet, ChangedSet, Begin
<1>1. CASE AnalyticsRequest(r, u)
  BY <1>1 DEF AnalyticsRequest, PostAttempt, PostAnswer, PostCompletion, PostStudySession, PostGoal, FetchGoals,
     PutGoal, RemoveGoal, PostGoalCompletion, OnAttempt, OnGoal
<1>2. CASE \/ PostCourse(r, u) \/ FetchCourse(r, u) \/ PutCourse(r, u) \/ RemoveCourse(r, u)
           \/ PostMaterial(r, u) \/ FetchMaterial(r, u) \/ ListMaterials(r, u)
           \/ PutMaterial(r, u) \/ RemoveMaterial(r, u)
  BY <1>2 DEF PostCourse, FetchCourse, PutCourse, RemoveCourse, PostMaterial, FetchMaterial, ListMaterials,
     PutMaterial, RemoveMaterial
<1>3. CASE \/ PostQuiz(r, u) \/ FetchQuiz(r, u) \/ ListQuizzes(r, u) \/ PutQuiz(r, u)
           \/ RemoveQuiz(r, u) \/ PostQuestion(r, u) \/ PutQuestion(r, u) \/ RemoveQuestion(r, u)
  BY <1>3 DEF PostQuiz, FetchQuiz, ListQuizzes, PutQuiz, RemoveQuiz, PostQuestion, PutQuestion, RemoveQuestion
<1>4. CASE \/ PostDeck(r, u) \/ FetchDeck(r, u) \/ PutDeck(r, u) \/ RemoveDeck(r, u)
           \/ PostCard(r, u) \/ PutCard(r, u) \/ RemoveCard(r, u)
  BY <1>4 DEF PostDeck, FetchDeck, PutDeck, RemoveDeck, PostCard, PutCard, RemoveCard
<1> QED
  BY <1>1, <1>2, <1>3, <1>4 DEF ContentRequest

(* A set that is inserted lacks nothing, or is being made.                 *)
LEMMA AtFirst ==
    ASSUME NEW q, Shape(q), q.op \in NewOps, Len(q.todo) = q.n + 2, q.n # 0
    PROVE  q.todo # <<>> /\ Head(q.todo) = "child"
<1> PICK t, l, n : t = q.todo /\ l = Len(q.todo) /\ n = q.n
  OBVIOUS
<1>1. n \in Nat /\ Ordered(t) /\ l = n + 2
  BY DEF Shape, NewOps
<1>2. t # <<>> /\ Head(t) = t[1]
  BY <1>1, OrderedHead
<1>3. 1 \in 1..l /\ l - 1 \in 2..(n + 1)
  BY <1>1
<1>4. t[1] = "child"
  BY <1>3 DEF Shape
<1> QED
  BY <1>2, <1>4

LEMMA InsertedHalf ==
    ASSUME Inv, Inv', Grows, NEW r \in Slots, \A z \in Slots \ {r} : req'[z] = req[z],
           Writing(r, "CreateQuiz") \/ Writing(r, "CreateFlashcardDeck"),
           NEW kind \in {Quizzes, Decks}, InsertSet(r, kind)
    PROVE  HalfMade' \subseteq HalfMade
<1> PICK q, n : q = req[r] /\ n = req[r].n
  OBVIOUS
<1>1. Doing(r, "write") /\ q.op \in NewOps
  BY DEF Writing, Op, NewOps
<1>2. /\ Shape(q) /\ Head(q.todo) = "write" /\ Ordered(q.todo) /\ q # Idle /\ q \in Request
  BY <1>1, WritingIs
<1>3. PICK s \in kind : /\ set[s] = NoRow
                        /\ promised' = [promised EXCEPT ![s] = n]
                        /\ Pass(r, [q EXCEPT !.id = s]) /\ born' = born
  BY DEF InsertSet
<1>4. s \in Sets /\ n \in Nat /\ promised \in [Sets -> Nat]
  BY <1>1, <1>2, TablesAre DEF Sets, ContentTables, Shape, NewOps
<1>5. q.id = q.id /\ Len(q.todo) = n + 3
  <2> PICK t, l : t = q.todo /\ l = Len(q.todo)
    OBVIOUS
  <2>1. l \in Nat /\ l >= 1 /\ t[1] = "write" /\ Head(t) = t[1]
    BY <1>2, OrderedHead
  <2>2. 1 \in 1..l
    BY <2>1
  <2>3. l - 1 = n + 2
    BY <1>1, <1>2, <2>1, <2>2 DEF Shape
  <2>4. l = n + 3
    BY <1>4, <2>1, <2>3
  <2> QED
    BY <2>4
<1>6. /\ req'[r].todo = Tail(q.todo) /\ req'[r].op = q.op /\ req'[r].n = n /\ req'[r].id = s /\ req'[r] # Idle
  <2> DEFINE p == [q EXCEPT !.id = s]
  <2>1. p.todo = q.todo /\ p.op = q.op /\ p.n = n /\ p.id = s
    BY <1>2 DEF Request
  <2>2. p \in Request
    <3>1. s \in Rows \cup {Nil}
      BY <1>4 DEF Rows, ContentIds
    <3> QED
      BY <1>2, <3>1 DEF Request
  <2> HIDE DEF p
  <2>3. Pass(r, p)
    BY <1>3 DEF p
  <2> QED
    BY <1>2, <2>1, <2>2, <2>3, PassIs DEF Alike
<1>7. n # 0 => BeingMade(s)'
  <2> SUFFICES ASSUME n # 0 PROVE BeingMade(s)'
    OBVIOUS
  <2>1. Shape(req'[r])
    BY <1>6 DEF Inv, ReqsInv, ReqInv
  <2>2. Len(req'[r].todo) = n + 2
    <3> PICK l, k : l = Len(q.todo) /\ k = Len(req'[r].todo)
      OBVIOUS
    <3>1. k = l - 1
      BY <1>2, <1>6, OrderedTail
    <3>2. l = n + 3
      BY <1>5
    <3>3. k = n + 2
      BY <1>4, <3>1, <3>2
    <3> QED
      BY <3>3
  <2>3. req'[r].todo # <<>> /\ Head(req'[r].todo) = "child"
    BY <1>1, <1>6, <2>1, <2>2, AtFirst
  <2> QED
    BY <1>1, <1>6, <2>3 DEF BeingMade, Op, Doing, NewOps
<1>8. ASSUME NEW x \in HalfMade' PROVE x \in HalfMade
  <2>1. x \in Sets /\ ~ BeingMade(x)' /\ Cardinality(BornIn(x)') < promised'[x]
    BY DEF HalfMade, BornIn
  <2>2. Cardinality(BornIn(x)') \in Nat /\ Cardinality(BornIn(x)') = Cardinality(BornIn(x))
    <3>1. BornIn(x)' = BornIn(x)
      BY <1>3 DEF BornIn
    <3> QED
      BY <2>1, <3>1, BornStays
  <2>3. x # s
    <3> PICK b : b = Cardinality(BornIn(x)')
      OBVIOUS
    <3>1. ASSUME x = s PROVE FALSE
      <4>1. n = 0
        BY <1>7, <2>1, <3>1
      <4>2. promised'[x] = 0
        BY <1>3, <1>4, <3>1, <4>1
      <4>3. b \in Nat /\ b < 0
        BY <2>1, <2>2, <4>2
      <4> QED
        BY <4>3
    <3> QED
      BY <3>1
  <2>4. promised'[x] = promised[x]
    BY <1>3, <1>4, <2>1, <2>3
  <2>5. ~ BeingMade(x)
    <3> SUFFICES ASSUME BeingMade(x) PROVE FALSE
      OBVIOUS
    <3>1. PICK z \in Slots : Op(z) \in NewOps /\ Doing(z, "child") /\ req[z].id = x
      BY DEF BeingMade, NewOps
    <3>2. z # r
      BY <1>1, <3>1, DoingOne
    <3>3. req'[z] = req[z]
      BY <3>2
    <3> QED
      BY <2>1, <3>1, <3>3 DEF BeingMade, NewOps, Op, Doing
  <2> QED
    BY <2>1, <2>2, <2>4, <2>5 DEF HalfMade, BornIn
<1> QED
  BY <1>8

LEMMA AtLastChild ==
    ASSUME NEW q, Shape(q), q.op \in NewOps, Head(q.todo) = "child", Head(Tail(q.todo)) # "child"
    PROVE  Len(q.todo) = 3
<1> PICK t, l, n : t = q.todo /\ l = Len(q.todo) /\ n = q.n
  OBVIOUS
<1>1. n \in Nat /\ Ordered(t) /\ Head(t) = "child"
  BY DEF Shape, NewOps
<1>2. l \in Nat /\ l >= 1 /\ t[1] = "child"
  BY <1>1, OrderedHead
<1>3. l - 1 \in 2..(n + 1)
  <2>1. 1 \in 1..l
    BY <1>2
  <2> QED
    BY <1>2, <2>1 DEF Shape
<1>4. Tail(t) # <<>> /\ Head(Tail(t)) = t[2]
  <2>1. Ordered(Tail(t)) /\ Tail(t)[1] = t[2]
    <3>1. /\ Ordered(Tail(t)) /\ \A j \in 1..(Len(t) - 1) : Tail(t)[j] = t[j + 1]
      BY <1>1, OrderedTail
    <3>2. 1 \in 1..(Len(t) - 1)
      BY <1>1, <1>2, <1>3
    <3> QED
      BY <3>1, <3>2
  <2> QED
    BY <2>1, OrderedHead
<1>5. ~ (l - 2 \in 2..(n + 1))
  <2>1. 2 \in 1..l
    BY <1>2, <1>3
  <2> QED
    BY <1>4, <2>1 DEF Shape
<1>6. l = 3
  <2>1. l - 1 >= 2 /\ l - 1 <= n + 1
    BY <1>1, <1>2, <1>3
  <2>2. l - 2 <= n + 1
    BY <1>1, <1>2, <2>1
  <2>3. l - 2 < 2
    BY <1>1, <1>2, <1>5, <2>2
  <2>4. \A k \in Nat : k - 1 >= 2 /\ k - 2 < 2 => k = 3
    OBVIOUS
  <2> QED
    BY <1>2, <2>1, <2>3, <2>4, Zenon
<1> QED
  BY <1>6

LEMMA ChildHalf ==
    ASSUME Inv, Inv', Grows, NEW r \in Slots, \A z \in Slots \ {r} : req'[z] = req[z],
           Doing(r, "child"), NEW kind, kind \subseteq Items, AddItem(r, kind)
    PROVE  HalfMade' \subseteq HalfMade
<1> SUFFICES ASSUME NEW s \in HalfMade', s \notin HalfMade PROVE FALSE
  OBVIOUS
<1> PICK q : q = req[r]
  OBVIOUS
<1>1. promised' = promised /\ InsertItem(req[r].id, kind) /\ Done(r)
      /\ UNCHANGED <<course, material, set, promised, callbacks>>
  BY DEF AddItem
<1>2. /\ q.op \in NewOps /\ q.id = s /\ ~ (Op(r) \in NewOps /\ Doing(r, "child") /\ req[r].id = s)'
  BY <1>1, HalfStays DEF Op
<1>3. /\ Shape(q) /\ Head(q.todo) = "child" /\ Ordered(q.todo) /\ q # Idle /\ q \in Request /\ NewInv(q)
  BY DoingIs DEF ReqInv
<1>4. req'[r].todo = Tail(q.todo) /\ req'[r].op = q.op /\ req'[r].id = s /\ req'[r] # Idle
  BY <1>1, <1>2, <1>3, PassIs DEF Alike, Done
<1>5. Head(Tail(q.todo)) # "child"
  <2>1. Tail(q.todo) # <<>>
    BY <1>3, OrderedTail DEF Ordered
  <2> QED
    BY <1>2, <1>4, <2>1 DEF Op, Doing
<1>6. Len(q.todo) = 3
  BY <1>2, <1>3, <1>5, AtLastChild
<1>7. set[s] # NoRow /\ Cardinality(BornIn(s)) + Len(q.todo) - 2 >= promised[s]
  BY <1>2, <1>3, AtChild DEF NewInv, Past
<1>8. s \in Sets
  BY DEF HalfMade
<1>9. PICK i \in kind : born[i] = Nil /\ born' = [born EXCEPT ![i] = s]
  BY <1>1, <1>2 DEF InsertItem
<1>10. i \in Items /\ s # Nil /\ born \in [Items -> Sets \cup {Nil}]
  BY <1>8, <1>9, TablesAre, Kinds DEF ContentTables
<1> PICK b, bb : b = BornIn(s) /\ bb = BornIn(s)'
  OBVIOUS
<1>11. bb = b \cup {i} /\ i \notin b /\ IsFiniteSet(b)
  <2>1. bb = b \cup {i} /\ i \notin b
    BY <1>9, <1>10 DEF BornIn
  <2> QED
    BY <1>8, <2>1, BornStays
<1>12. Cardinality(bb) = Cardinality(b) + 1 /\ Cardinality(b) \in Nat
  BY <1>11, FS_AddElement, FS_CardinalityType
<1>13. Cardinality(bb) < promised[s]
  BY <1>1 DEF HalfMade, BornIn
<1> PICK c, cc, p : c = Cardinality(b) /\ cc = Cardinality(bb) /\ p = promised[s]
  OBVIOUS
<1>14. c + 3 - 2 >= p /\ cc = c + 1 /\ cc < p /\ c \in Nat /\ p \in Nat
  BY <1>6, <1>7, <1>8, <1>12, <1>13, TablesAre DEF ContentTables
<1> QED
  BY <1>14

(* A step that inserts no set and makes none.                              *)
LEMMA BesideHalf ==
    ASSUME Inv, Grows, promised' = promised, NEW r, \A z \in Slots \ {r} : req'[z] = req[z],
           ~ Doing(r, "child")
    PROVE  HalfMade' \subseteq HalfMade
BY HalfStays

LEMMA ContentStatementHalf ==
    ASSUME Inv, Inv', HalfMadePaidFor, Track, NEW r \in Slots, ContentStatement(r), UNCHANGED <<attempt, today, goal>>,
           faults \in Nat, faults' = faults \/ faults' = faults + 1
    PROVE  HalfMadePaidFor'
<1>1. Grows /\ \A z \in Slots \ {r} : req'[z] = req[z]
  BY ContentStatementKeeps DEF Keeps, OneActs
<1>2. Questions \subseteq Items /\ Cards \subseteq Items
  BY DEF Items
<1>3. CASE Writing(r, "CreateQuiz") /\ InsertSet(r, Quizzes)
  BY <1>1, <1>3, InsertedHalf, HalfPaid
<1>4. CASE Writing(r, "CreateFlashcardDeck") /\ InsertSet(r, Decks)
  BY <1>1, <1>4, InsertedHalf, HalfPaid
<1>5. CASE Doing(r, "child") /\ (AddItem(r, Questions) \/ AddItem(r, Cards))
  BY <1>1, <1>2, <1>5, ChildHalf, HalfPaid
<1>6. CASE WriteFails(r)
  <2>1. promised' = promised /\ faults' = faults + 1
    BY <1>6 DEF WriteFails, Fails, contentVars
  <2>2. HalfMade' \subseteq HalfMade \cup {req[r].id}
    BY <1>1, <2>1, HalfStays
  <2> QED
    BY <2>1, <2>2, HalfPaid
<1>7. CASE /\ ~ (Writing(r, "CreateQuiz") /\ InsertSet(r, Quizzes))
           /\ ~ (Writing(r, "CreateFlashcardDeck") /\ InsertSet(r, Decks))
           /\ ~ (Doing(r, "child") /\ (AddItem(r, Questions) \/ AddItem(r, Cards)))
           /\ ~ WriteFails(r)
  <2>1. promised' = promised
    BY <1>7 DEF contentVars, ContentStatement,
       ReadRow, CheckCourse, CheckMaterial, ReadItem, CheckParent, ReloadSet, ListRows,
       CreateCourse, UpdateCourse, DeleteCourse, CreateMaterial, UpdateMaterial, DeleteMaterial,
       CreateQuiz, UpdateQuiz, DeleteQuiz, AddQuizQuestion, UpdateQuizQuestion, DeleteQuizQuestion,
       CreateFlashcardDeck, UpdateFlashcardDeck, DeleteFlashcardDeck, AddFlashcard, UpdateFlashcard, DeleteFlashcard,
       AddItem, SaveSet, SaveItem, DeleteSet, RemoveItem
  <2>2. ~ Doing(r, "child")
    <3>1. \E s \in {"row", "course", "material", "item", "parent", "write", "reload", "list"} : Doing(r, s)
      BY <1>7 DEF Writing, ContentStatement,
       ReadRow, CheckCourse, CheckMaterial, ReadItem, CheckParent, ReloadSet, ListRows,
       CreateCourse, UpdateCourse, DeleteCourse, CreateMaterial, UpdateMaterial, DeleteMaterial,
       CreateQuiz, UpdateQuiz, DeleteQuiz, AddQuizQuestion, UpdateQuizQuestion, DeleteQuizQuestion,
       CreateFlashcardDeck, UpdateFlashcardDeck, DeleteFlashcardDeck, AddFlashcard, UpdateFlashcard, DeleteFlashcard
    <3> QED
      BY <3>1, DoingOne
  <2> QED
    BY <1>1, <2>1, <2>2, BesideHalf, HalfPaid
<1> QED
  BY <1>3, <1>4, <1>5, <1>6, <1>7

LEMMA CalmHalf ==
    ASSUME HalfMadePaidFor, UNCHANGED <<born, promised, req>>, faults \in Nat, faults' = faults \/ faults' = faults + 1
    PROVE  HalfMadePaidFor'
<1>1. HalfMade' \subseteq HalfMade
  BY DEF HalfMade, BeingMade, Op, Doing
<1> QED
  BY <1>1, HalfPaid

LEMMA HalfMadeStep ==
    ASSUME Inv, Inv', HalfMadePaidFor, [Next]_vars
    PROVE  HalfMadePaidFor'
<1>0. faults \in Nat /\ (faults' = faults \/ faults' = faults + 1)
  BY FaultsGrow
<1>1. ASSUME NEW r \in Slots, ~ Doing(r, "child"), Grows, OneActs(r), promised' = promised
      PROVE  HalfMadePaidFor'
  BY <1>0, <1>1, BesideHalf, HalfPaid DEF OneActs
<1>2. ASSUME NEW r \in Slots, NEW u \in Users, ContentRequest(r, u), Cascade PROVE HalfMadePaidFor'
  <2>1. UNCHANGED contentVars /\ UNCHANGED <<attempt, today, goal>> /\ promised' = promised
    BY <1>2 DEF ContentRequest, Cascade, contentVars
  <2>2. ~ Doing(r, "child")
    BY <1>2, BeginsIdle, IdleDoesNothing
  <2> QED
    BY <1>1, <1>2, <2>1, <2>2, CalmTables, ContentRequestActs
<1>3. ASSUME NEW r \in Slots, NEW u \in Users, AnalyticsRequest(r, u) PROVE HalfMadePaidFor'
  <2>1. UNCHANGED contentVars /\ UNCHANGED <<attempt, today, goal>> /\ promised' = promised
    BY <1>3 DEF AnalyticsRequest, contentVars, analyticsVars
  <2>2. ~ Doing(r, "child")
    BY <1>3, BeginsIdle, IdleDoesNothing
  <2> QED
    BY <1>1, <1>3, <2>1, <2>2, CalmTables, AnalyticsRequestActs
<1>4. ASSUME NEW r \in Slots, ContentStatement(r), Cascade, Track PROVE HalfMadePaidFor'
  BY <1>0, <1>4, ContentStatementHalf DEF Cascade
<1>5. ASSUME NEW r \in Slots, AnalyticsStatement(r), Track PROVE HalfMadePaidFor'
  <2>1. KeepsResults(r) /\ UNCHANGED contentVars
    BY <1>5, AnalyticsStatementKeeps
  <2>2. ~ Doing(r, "child")
    <3>1. \E s \in AnalyticsHeads \cup {"session", "count"} : Doing(r, s)
      BY <1>5, HeadsAre DEF FindSession, SaveSession
    <3> QED
      BY <3>1, DoingOne DEF AnalyticsHeads
  <2> QED
    BY <1>1, <2>1, <2>2 DEF KeepsResults, contentVars
<1>6. ASSUME NEW m, NEW word, UpdateProcessingStatus(m, word) PROVE HalfMadePaidFor'
  BY <1>0, <1>6, CalmHalf DEF UpdateProcessingStatus, requestVars
<1>7. ASSUME NEW r \in Slots, Return(r), UNCHANGED contentVars, UNCHANGED analyticsVars PROVE HalfMadePaidFor'
  <2>1. UNCHANGED <<attempt, today, goal>> /\ promised' = promised
    BY <1>7 DEF contentVars, analyticsVars
  <2>2. ~ Doing(r, "child")
    BY <1>7, DoingOne DEF Return
  <2> QED
    BY <1>1, <1>7, <2>1, <2>2, CalmTables, ReturnActs
<1>8. ASSUME UNCHANGED vars PROVE HalfMadePaidFor'
  BY <1>0, <1>8, CalmHalf DEF vars, requestVars, contentVars
<1> QED
  BY <1>2, <1>3, <1>4, <1>5, <1>6, <1>7, <1>8 DEF Next, ContentNext, AnalyticsNext

-----------------------------------------------------------------------------
(* What is lost is paid for: completions that are not counted.             *)
LEMMA NextIs ==
    ASSUME NEW t, Ordered(t), NEW s, NEW e, Head(t) = s, s \notin {"answer", "child"}, Ahead(t, e), Rank(e) = Rank(s) + 1
    PROVE  Tail(t) # <<>> /\ Head(Tail(t)) = e
<1> PICK h : h = Head(Tail(t))
  OBVIOUS
<1>1. Ordered(Tail(t)) /\ Tail(t) # <<>> /\ Ahead(Tail(t), h)
  BY OrderedTail, OrderedHead
<1>2. Ahead(t, h) /\ h # s
  BY <1>1, OrderedTail
<1>3. s \in Statements /\ e \in Statements /\ h \in Statements /\ Rank(s) < Rank(h)
  BY <1>2, OrderedHead
<1>4. Rank(s) \in 0..6 /\ Rank(e) \in 0..6 /\ Rank(h) \in 0..6
  BY <1>3, Ranks
<1>5. e # s
  BY <1>4
<1>6. Ahead(Tail(t), e)
  BY <1>5, OrderedTail
<1>7. ASSUME h # e PROVE FALSE
  <2>1. Rank(h) < Rank(e)
    BY <1>1, <1>6, <1>7, OrderedHead
  <2> PICK i, j, k : i = Rank(s) /\ j = Rank(h) /\ k = Rank(e)
    OBVIOUS
  <2>2. i \in 0..6 /\ j \in 0..6 /\ i < j /\ j < k /\ k = i + 1
    BY <1>3, <1>4, <2>1
  <2>3. \A x, y, z \in 0..6 : ~ (x < y /\ y < z /\ z = x + 1)
    OBVIOUS
  <2>4. k \in 0..6
    BY <1>4
  <2> QED
    BY <2>2, <2>3, <2>4, Zenon
<1> QED
  BY <1>1, <1>7

AttemptsOf(u) ==
    {a \in Attempts : Live(attempt[a]) /\ attempt[a].owner = u /\ attempt[a].status = "completed"}
LEMMA CompletedIs == \A u : Completed(u) = Cardinality(AttemptsOf(u)) /\ Completed(u)' = Cardinality(AttemptsOf(u)')
BY DEF Completed, AttemptsOf

(* Of the two sides of the balance, all are numbers.                       *)
LEMMA NumbersAre ==
    ASSUME NEW u \in Users
    PROVE  /\ Inv => /\ Completed(u) \in Nat /\ Number(today[u]) \in Nat /\ lost[u] \in Int
                     /\ faults \in Nat /\ Cardinality(Counting(u)) \in Nat
           /\ Inv' => /\ Completed(u)' \in Nat /\ Number(today'[u]) \in Nat /\ lost'[u] \in Int
                      /\ faults' \in Nat /\ Cardinality(Counting(u)') \in Nat
           /\ IsFiniteSet(AttemptsOf(u)) /\ IsFiniteSet(AttemptsOf(u)')
           /\ IsFiniteSet(Counting(u)) /\ IsFiniteSet(Counting(u)')
<1>1. IsFiniteSet(AttemptsOf(u)) /\ IsFiniteSet(AttemptsOf(u)')
  <2>1. AttemptsOf(u) \subseteq Attempts /\ AttemptsOf(u)' \subseteq Attempts
    BY DEF AttemptsOf
  <2> QED
    BY <2>1, FS_Subset, AnalyticsAssumption
<1>2. IsFiniteSet(Counting(u)) /\ IsFiniteSet(Counting(u)')
  <2>1. Counting(u) \subseteq Slots /\ Counting(u)' \subseteq Slots
    BY DEF Counting
  <2> QED
    BY <2>1, FS_Subset, RequestsAssumption
<1>3. /\ Completed(u) \in Nat /\ Completed(u)' \in Nat
      /\ Cardinality(Counting(u)) \in Nat /\ Cardinality(Counting(u)') \in Nat
  BY <1>1, <1>2, CompletedIs, FS_CardinalityType
<1>4. Inv => Number(today[u]) \in Nat /\ lost[u] \in Int /\ faults \in Nat
  BY AnalyticsAssumption DEF Inv, RowsInv, Number
<1>5. Inv' => Number(today'[u]) \in Nat /\ lost'[u] \in Int /\ faults' \in Nat
  BY AnalyticsAssumption DEF Inv, RowsInv, Number
<1> QED
  BY <1>1, <1>2, <1>3, <1>4, <1>5

Counted(u) == Completed(u) <= Number(today[u]) + lost[u] + faults + Cardinality(Counting(u))

LEMMA PaidSum ==
    ASSUME NEW c \in Nat, NEW t \in Nat, NEW l \in Int, NEW f \in Nat, NEW k \in Nat,
           NEW cc \in Nat, NEW tt \in Nat, NEW ll \in Int, NEW ff \in Nat, NEW kk \in Nat,
           NEW more \in Nat, NEW less \in Nat, NEW d \in Int,
           c <= t + l + f + k, cc <= c + more, kk >= k + more - less, tt + ll = t + l + d,
           (ff = f /\ d >= less) \/ (ff = f + 1 /\ d + 1 >= less)
    PROVE  cc <= tt + ll + ff + kk
<1>1. ff + d >= f + less
  OBVIOUS
<1> QED
  BY <1>1

(* What a step adds to the completed attempts it adds to the other side.   *)
LEMMA CountedKeeps ==
    ASSUME Inv, Inv', NEW u \in Users, Counted(u), NEW more \in Nat, NEW less \in Nat, NEW d \in Int,
           Completed(u)' <= Completed(u) + more,
           Cardinality(Counting(u)') >= Cardinality(Counting(u)) + more - less,
           Number(today'[u]) + lost'[u] = Number(today[u]) + lost[u] + d,
           \/ faults' = faults /\ d >= less
           \/ faults' = faults + 1 /\ d + 1 >= less
    PROVE  Counted(u)'
<1> PICK c, t, l, f, k : /\ c = Completed(u) /\ t = Number(today[u]) /\ l = lost[u] /\ f = faults
                         /\ k = Cardinality(Counting(u))
  OBVIOUS
<1> PICK cc, tt, ll, ff, kk : /\ cc = Completed(u)' /\ tt = Number(today'[u]) /\ ll = lost'[u] /\ ff = faults'
                              /\ kk = Cardinality(Counting(u)')
  OBVIOUS
<1>1. /\ c \in Nat /\ t \in Nat /\ l \in Int /\ f \in Nat /\ k \in Nat
      /\ cc \in Nat /\ tt \in Nat /\ ll \in Int /\ ff \in Nat /\ kk \in Nat
  BY NumbersAre
<1>2. c <= t + l + f + k /\ cc <= c + more /\ kk >= k + more - less /\ tt + ll = t + l + d
  BY DEF Counted
<1>3. (ff = f /\ d >= less) \/ (ff = f + 1 /\ d + 1 >= less)
  OBVIOUS
<1>4. cc <= tt + ll + ff + kk
  BY <1>1, <1>2, <1>3, PaidSum
<1> QED
  BY <1>4 DEF Counted

(* A step of a request that is not at the study session of the day.        *)
LEMMA CountingStays ==
    ASSUME NEW u, NEW r, \A z \in Slots \ {r} : req'[z] = req[z],
           ~ Doing(r, "session") /\ ~ Doing(r, "count")
    PROVE  Counting(u) \subseteq Counting(u)'
<1> SUFFICES ASSUME NEW z \in Counting(u) PROVE z \in Counting(u)'
  OBVIOUS
<1>1. z \in Slots /\ z # r
  BY DEF Counting
<1>2. req'[z] = req[z]
  BY <1>1
<1> QED
  BY <1>2 DEF Counting, Op, Doing

LEMMA BesideCounted ==
    ASSUME Inv, Inv', NEW u \in Users, Counted(u), UNCHANGED <<attempt, today, lost>>,
           faults' = faults \/ faults' = faults + 1, Counting(u) \subseteq Counting(u)'
    PROVE  Counted(u)'
<1> PICK a, aa : a = Counting(u) /\ aa = Counting(u)'
  OBVIOUS
<1>1. Cardinality(a) <= Cardinality(aa) /\ Cardinality(a) \in Nat /\ Cardinality(aa) \in Nat
  BY NumbersAre, FS_Subset
<1>2. AttemptsOf(u)' = AttemptsOf(u)
  BY DEF AttemptsOf
<1>3. Completed(u)' = Completed(u)
  BY <1>2, CompletedIs
<1> PICK c, t, l, k, kk, f : /\ c = Completed(u) /\ t = Number(today[u]) /\ l = lost[u] /\ f = faults
                             /\ k = Cardinality(a) /\ kk = Cardinality(aa)
  OBVIOUS
<1>4. c \in Nat /\ t \in Nat /\ l \in Int /\ k \in Nat /\ kk \in Nat /\ f \in Nat /\ k <= kk
  BY <1>1, NumbersAre
<1>5. c <= c + 0 /\ kk >= k + 0 - 0 /\ t + l = t + l + 0
  BY <1>4
<1>6. \/ faults' = f /\ 0 >= 0
      \/ faults' = f + 1 /\ 0 + 1 >= 0
  OBVIOUS
<1>7. /\ Completed(u)' <= Completed(u) + 0
      /\ Cardinality(Counting(u)') >= Cardinality(Counting(u)) + 0 - 0
      /\ Number(today'[u]) + lost'[u] = Number(today[u]) + lost[u] + 0
  BY <1>3, <1>5
<1> QED
  BY <1>6, <1>7, CountedKeeps

LEMMA OneMore ==
    ASSUME NEW s, IsFiniteSet(s), NEW a, NEW ss, ss \subseteq s \cup {a}
    PROVE  IsFiniteSet(ss) /\ Cardinality(ss) <= Cardinality(s) + 1
<1> PICK more : more = s \cup {a}
  OBVIOUS
<1>1. IsFiniteSet(more) /\ (Cardinality(more) = Cardinality(s) \/ Cardinality(more) = Cardinality(s) + 1)
  <2>1. CASE a \in s
    <3>1. more = s
      BY <2>1
    <3> QED
      BY <3>1
  <2>2. CASE a \notin s
    BY <2>2, FS_AddElement
  <2> QED
    BY <2>1, <2>2
<1>2. IsFiniteSet(ss) /\ Cardinality(ss) <= Cardinality(more)
  BY <1>1, FS_Subset
<1>3. Cardinality(s) \in Nat /\ Cardinality(ss) \in Nat /\ Cardinality(more) \in Nat
  BY <1>1, <1>2, FS_CardinalityType
<1> PICK x, y, z : x = Cardinality(s) /\ y = Cardinality(ss) /\ z = Cardinality(more)
  OBVIOUS
<1>4. y <= x + 1
  BY <1>1, <1>2, <1>3
<1> QED
  BY <1>2, <1>4

LEMMA OneAtLeast ==
    ASSUME NEW kk, IsFiniteSet(kk), NEW k, NEW r, k \cup {r} \subseteq kk, r \notin k
    PROVE  Cardinality(kk) >= Cardinality(k) + 1
<1> PICK more : more = k \cup {r}
  OBVIOUS
<1>1. IsFiniteSet(k)
  BY FS_Subset
<1>2. Cardinality(more) = Cardinality(k) + 1
  BY <1>1, FS_AddElement
<1>3. Cardinality(more) <= Cardinality(kk)
  BY FS_Subset
<1>4. Cardinality(k) \in Nat /\ Cardinality(kk) \in Nat
  BY <1>1, FS_CardinalityType
<1> PICK x, y, z : x = Cardinality(k) /\ y = Cardinality(kk) /\ z = Cardinality(more)
  OBVIOUS
<1> QED
  BY <1>2, <1>3, <1>4

LEMMA StartCounted ==
    ASSUME Inv, Inv', Track, NEW r \in Slots, StartQuizAttempt(r), NEW u \in Users, Counted(u)
    PROVE  Counted(u)'
<1>1. /\ Doing(r, "save") /\ UNCHANGED <<today, lost>> /\ faults' = faults
      /\ \A z \in Slots \ {r} : req'[z] = req[z]
  <2>1. KeepsResults(r)
    BY StartQuizAttemptKeeps
  <2> QED
    BY <2>1 DEF StartQuizAttempt, Works, Done, KeepsResults, OneActs
<1>2. Counting(u) \subseteq Counting(u)'
  BY <1>1, DoingOne, CountingStays
<1>3. AttemptsOf(u)' = AttemptsOf(u)
  <2>1. CASE UNCHANGED attempt
    BY <2>1 DEF AttemptsOf
  <2>2. ASSUME NEW a \in Attempts, attempt[a] = NoRow, attempt' = [attempt EXCEPT ![a] = AttemptRow(req[r].user)]
        PROVE  AttemptsOf(u)' = AttemptsOf(u)
    <3>1. \A b \in Attempts : b # a => attempt'[b] = attempt[b]
      BY <2>2, TablesAre DEF AnalyticsTables
    <3>2. ~ Live(attempt[a]) /\ attempt'[a].status = "in_progress"
      BY <2>2, TablesAre DEF AnalyticsTables, AttemptRow, NoRow, Live
    <3> QED
      BY <3>1, <3>2 DEF AttemptsOf
  <2> QED
    BY <2>1, <2>2 DEF StartQuizAttempt
<1>4. Completed(u)' = Completed(u)
  BY <1>3, CompletedIs
<1> PICK a, aa : a = Counting(u) /\ aa = Counting(u)'
  OBVIOUS
<1> PICK c, t, l, k, kk : /\ c = Completed(u) /\ t = Number(today[u]) /\ l = lost[u]
                          /\ k = Cardinality(a) /\ kk = Cardinality(aa)
  OBVIOUS
<1>5. c \in Nat /\ t \in Nat /\ l \in Int /\ k \in Nat /\ kk \in Nat /\ k <= kk
  BY <1>2, NumbersAre, FS_Subset
<1>6. c <= c + 0 /\ kk >= k + 0 - 0 /\ t + l = t + l + 0
  BY <1>5
<1>7. faults' = faults /\ 0 >= 0
  BY <1>1
<1>8. /\ Completed(u)' <= Completed(u) + 0
      /\ Cardinality(Counting(u)') >= Cardinality(Counting(u)) + 0 - 0
      /\ Number(today'[u]) + lost'[u] = Number(today[u]) + lost[u] + 0
  BY <1>1, <1>4, <1>6
<1> QED
  BY <1>7, <1>8, CountedKeeps

LEMMA CompleteCounted ==
    ASSUME Inv, Inv', Track, NEW r \in Slots, CompleteQuizAttempt(r), NEW u \in Users, Counted(u)
    PROVE  Counted(u)'
<1> PICK q, a : q = req[r] /\ a = req[r].id
  OBVIOUS
<1>1. /\ Doing(r, "save") /\ q.op = "CompleteQuizAttempt" /\ UNCHANGED <<today, lost>> /\ faults' = faults
      /\ \A z \in Slots \ {r} : req'[z] = req[z]
  <2>1. KeepsResults(r)
    BY CompleteQuizAttemptKeeps
  <2> QED
    BY <2>1 DEF CompleteQuizAttempt, Works, Done, Op, KeepsResults, OneActs
<1>2. Counting(u) \subseteq Counting(u)'
  BY <1>1, DoingOne, CountingStays
<1>3. CASE UNCHANGED attempt
  BY <1>1, <1>2, <1>3, BesideCounted
<1>4. CASE attempt' = [attempt EXCEPT ![a] = [q.copy.row EXCEPT !.status = "completed"]] /\ Done(r)
  <2>1. /\ q # Idle /\ q \in Request /\ Shape(q) /\ Ordered(q.todo) /\ Head(q.todo) = "save"
        /\ a \in Attempts /\ q.copy.row \in AttemptRows /\ q.copy.row.owner = q.user
    <3>1. a \in Attempts /\ AttemptRead(q)
      BY <1>1, SavingIs DEF AttemptOps
    <3> QED
      BY <1>1, <3>1, SavingIs DEF AttemptRead
  <2>2. AttemptsOf(u)' \subseteq AttemptsOf(u) \cup {a} /\ (u # q.user => AttemptsOf(u)' \subseteq AttemptsOf(u))
    <3>1. \A b \in Attempts : b # a => attempt'[b] = attempt[b]
      BY <1>4, TablesAre DEF AnalyticsTables
    <3>2. attempt'[a].owner = q.user
      BY <1>4, <2>1, TablesAre DEF AnalyticsTables, AttemptRows
    <3> QED
      BY <3>1, <3>2 DEF AttemptsOf
  <2>3. CASE u # q.user
    <3> PICK s, ss, k, kk : s = AttemptsOf(u) /\ ss = AttemptsOf(u)' /\ k = Counting(u) /\ kk = Counting(u)'
      OBVIOUS
    <3> PICK c, cc, t, l, n, nn : /\ c = Completed(u) /\ cc = Completed(u)' /\ t = Number(today[u]) /\ l = lost[u]
                                  /\ n = Cardinality(k) /\ nn = Cardinality(kk)
      OBVIOUS
    <3>1. c \in Nat /\ cc \in Nat /\ t \in Nat /\ l \in Int /\ n \in Nat /\ nn \in Nat
      BY NumbersAre
    <3>2. cc <= c
      BY <2>2, <2>3, CompletedIs, NumbersAre, FS_Subset
    <3>3. n <= nn
      BY <1>2, NumbersAre, FS_Subset
    <3>4. cc <= c + 0 /\ nn >= n + 0 - 0 /\ t + l = t + l + 0
      BY <3>1, <3>2, <3>3
    <3>5. faults' = faults /\ 0 >= 0
      BY <1>1
    <3>6. /\ Completed(u)' <= Completed(u) + 0
          /\ Cardinality(Counting(u)') >= Cardinality(Counting(u)) + 0 - 0
          /\ Number(today'[u]) + lost'[u] = Number(today[u]) + lost[u] + 0
      BY <1>1, <3>4
    <3> QED
      BY <3>5, <3>6, CountedKeeps
  <2>4. CASE u = q.user
    <3>1. /\ req'[r].todo = Tail(q.todo) /\ req'[r].op = q.op /\ req'[r].user = q.user
      BY <1>4, <2>1, PassIs DEF Alike, Done
    <3>2. Tail(q.todo) # <<>> /\ Head(Tail(q.todo)) = "session"
      <4>1. Ahead(q.todo, "session")
        BY <1>1, <2>1, OrderedHead DEF Shape, Trailing
      <4>2. Rank("session") = Rank("save") + 1
        BY RanksAre
      <4> QED
        BY <2>1, <4>1, <4>2, NextIs
    <3>3. Counting(u) \cup {r} \subseteq Counting(u)' /\ r \notin Counting(u)
      <4>1. r \in Counting(u)'
        BY <1>1, <2>4, <3>1, <3>2 DEF Counting, Op, Doing
      <4>2. r \notin Counting(u)
        BY <1>1, DoingOne DEF Counting
      <4> QED
        BY <1>2, <4>1, <4>2
    <3> PICK s, ss, k, kk : s = AttemptsOf(u) /\ ss = AttemptsOf(u)' /\ k = Counting(u) /\ kk = Counting(u)'
      OBVIOUS
    <3> PICK c, cc, t, l, n, nn : /\ c = Completed(u) /\ cc = Completed(u)' /\ t = Number(today[u]) /\ l = lost[u]
                                  /\ n = Cardinality(k) /\ nn = Cardinality(kk)
      OBVIOUS
    <3>4. c \in Nat /\ cc \in Nat /\ t \in Nat /\ l \in Int /\ n \in Nat /\ nn \in Nat
      BY NumbersAre
    <3>5. cc <= c + 1
      <4>1. IsFiniteSet(s) /\ ss \subseteq s \cup {a} /\ c = Cardinality(s) /\ cc = Cardinality(ss)
        BY <2>2, CompletedIs, NumbersAre
      <4> QED
        BY <4>1, OneMore
    <3>6. nn >= n + 1
      <4>1. IsFiniteSet(kk) /\ k \cup {r} \subseteq kk /\ r \notin k
        BY <3>3, NumbersAre
      <4> QED
        BY <4>1, OneAtLeast
    <3>7. cc <= c + 1 /\ nn >= n + 1 - 0 /\ t + l = t + l + 0
      BY <3>4, <3>5, <3>6
    <3>8. faults' = faults /\ 0 >= 0
      BY <1>1
    <3>9. /\ Completed(u)' <= Completed(u) + 1
          /\ Cardinality(Counting(u)') >= Cardinality(Counting(u)) + 1 - 0
          /\ Number(today'[u]) + lost'[u] = Number(today[u]) + lost[u] + 0
      BY <1>1, <3>7
    <3> QED
      BY <3>8, <3>9, CountedKeeps
  <2> QED
    BY <2>3, <2>4
<1> QED
  BY <1>3, <1>4 DEF CompleteQuizAttempt

LEMMA FindCounted ==
    ASSUME Inv, Inv', Track, NEW r \in Slots, FindSession(r), NEW u \in Users, Counted(u)
    PROVE  Counted(u)'
<1> PICK q : q = req[r]
  OBVIOUS
<1>1. /\ q # Idle /\ q \in Request /\ Shape(q) /\ Ordered(q.todo) /\ Head(q.todo) = "session" /\ Doing(r, "session")
      /\ Ahead(q.todo, "session")
  BY DoingIs DEF FindSession
<1>2. /\ UNCHANGED <<attempt, today, lost>> /\ (faults' = faults \/ faults' = faults + 1)
      /\ \E c : Pass(r, [q EXCEPT !.copy = c])
  BY DEF FindSession, analyticsVars, Works
<1>3. PICK c : Pass(r, [q EXCEPT !.copy = c])
  BY <1>2
<1>4. req'[r].todo = Tail(q.todo) /\ req'[r].op = q.op /\ req'[r].user = q.user
      /\ \A z \in Slots \ {r} : req'[z] = req[z]
  <2> DEFINE p == [q EXCEPT !.copy = c]
  <2>1. /\ p.todo = q.todo /\ p.op = q.op /\ p.user = q.user
        /\ "todo" \in DOMAIN p /\ "begun" \in DOMAIN p /\ "op" \in DOMAIN p /\ "user" \in DOMAIN p
    BY <1>1 DEF Request
  <2> HIDE DEF p
  <2>2. req' = [req EXCEPT ![r] = [p EXCEPT !.todo = Tail(p.todo), !.begun = TRUE]]
    BY <1>3 DEF Pass, p
  <2>3. req \in [Slots -> Request \cup {Idle}]
    BY DEF Inv, RowsInv
  <2>4. req'[r] = [p EXCEPT !.todo = Tail(p.todo), !.begun = TRUE]
    BY <2>2, <2>3
  <2>5. \A z \in Slots \ {r} : req'[z] = req[z]
    BY <2>2, <2>3
  <2> QED
    BY <2>1, <2>4, <2>5
<1>5. Counting(u) \subseteq Counting(u)'
  <2> SUFFICES ASSUME NEW z \in Counting(u) PROVE z \in Counting(u)'
    OBVIOUS
  <2>1. CASE z # r
    <3>1. z \in Slots /\ req'[z] = req[z]
      BY <1>4, <2>1 DEF Counting
    <3> QED
      BY <3>1 DEF Counting, Op, Doing
  <2>2. CASE z = r
    <3>1. q.op = "CompleteQuizAttempt" /\ q.user = u
      BY <2>2 DEF Counting, Op
    <3>2. Ahead(q.todo, "count")
      BY <1>1, <3>1 DEF Shape, Trailing
    <3>3. Rank("count") = Rank("session") + 1
      BY RanksAre
    <3>4. Tail(q.todo) # <<>> /\ Head(Tail(q.todo)) = "count"
      BY <1>1, <3>2, <3>3, NextIs
    <3> QED
      BY <1>4, <2>2, <3>1, <3>4 DEF Counting, Op, Doing
  <2> QED
    BY <2>1, <2>2
<1> QED
  BY <1>2, <1>5, BesideCounted

(* The session of the day saved: what it adds is what its request stood for*)
LEMMA SaveCounted ==
    ASSUME Inv, Inv', Track, NEW r \in Slots, SaveSession(r), NEW u \in Users, Counted(u)
    PROVE  Counted(u)'
<1> PICK v, n, read : v = req[r].user /\ n = req[r].n /\ read = req[r].copy.today
  OBVIOUS
<1>1. /\ Doing(r, "count") /\ UNCHANGED attempt /\ \A z \in Slots \ {r} : req'[z] = req[z]
  <2>1. KeepsResults(r)
    BY SaveSessionKeeps
  <2> QED
    BY <2>1 DEF SaveSession, KeepsResults, OneActs
<1>2. /\ req[r] # Idle /\ v \in Users /\ n \in Nat /\ Shape(req[r])
      /\ read \in Nat \cup {Nil} /\ (read # Nil => today[v] # Nil)
  BY <1>1, CountingIs, DoingIs DEF SessionRead
<1>3. today \in [Users -> Nat \cup {Nil}] /\ lost \in [Users -> Int] /\ Nil \notin Nat /\ faults \in Nat
  BY TablesAre, AnalyticsAssumption DEF AnalyticsTables, Inv, RowsInv
<1>4. Completed(u)' = Completed(u)
  <2>1. AttemptsOf(u)' = AttemptsOf(u)
    BY <1>1 DEF AttemptsOf
  <2> QED
    BY <2>1, CompletedIs
<1> PICK less : less = IF r \in Counting(u) THEN 1 ELSE 0
  OBVIOUS
<1>5. /\ less \in {0, 1} /\ (less = 1 => u = v /\ n = 1)
  <2>1. r \in Counting(u) => u = v /\ req[r].op = "CompleteQuizAttempt"
    BY DEF Counting, Op
  <2>2. r \in Counting(u) => n = 1
    BY <1>2, <2>1 DEF Shape
  <2> QED
    BY <2>1, <2>2
<1>6. Cardinality(Counting(u)') >= Cardinality(Counting(u)) - less
  <2> PICK k, kk : k = Counting(u) /\ kk = Counting(u)'
    OBVIOUS
  <2>1. k \ {r} \subseteq kk /\ IsFiniteSet(k) /\ IsFiniteSet(kk)
    <3>1. ASSUME NEW z \in Counting(u) \ {r} PROVE z \in Counting(u)'
      <4>1. z \in Slots /\ req'[z] = req[z]
        BY <1>1 DEF Counting
      <4> QED
        BY <4>1 DEF Counting, Op, Doing
    <3> QED
      BY <3>1, NumbersAre
  <2>2. CASE r \in k
    <3> PICK x, y : x = Cardinality(k) /\ y = Cardinality(kk)
      OBVIOUS
    <3>1. k \subseteq kk \cup {r}
      BY <2>1
    <3>2. x <= y + 1
      BY <2>1, <3>1, OneMore
    <3>3. x \in Nat /\ y \in Nat /\ less = 1
      BY <2>1, <2>2, FS_CardinalityType
    <3>4. y >= x - less
      BY <3>2, <3>3
    <3> QED
      BY <3>4
  <2>3. CASE r \notin k
    <3> PICK x, y : x = Cardinality(k) /\ y = Cardinality(kk)
      OBVIOUS
    <3>1. k \subseteq kk
      BY <2>1, <2>3
    <3>2. x <= y /\ x \in Nat /\ y \in Nat
      BY <2>1, <3>1, FS_Subset, FS_CardinalityType
    <3>3. less = 0
      BY <2>3
    <3>4. y >= x - less
      BY <3>2, <3>3
    <3> QED
      BY <3>4
  <2> QED
    BY <2>2, <2>3
<1>7. ASSUME NEW d \in Int, Number(today'[u]) + lost'[u] = Number(today[u]) + lost[u] + d,
             \/ faults' = faults /\ d >= less
             \/ faults' = faults + 1 /\ d + 1 >= less
      PROVE  Counted(u)'
  <2> PICK c, k, kk : c = Completed(u) /\ k = Cardinality(Counting(u)) /\ kk = Cardinality(Counting(u)')
    OBVIOUS
  <2>1. c \in Nat /\ k \in Nat /\ kk \in Nat
    BY NumbersAre
  <2>2. c <= c + 0 /\ k + 0 - less = k - less
    BY <1>5, <2>1
  <2>3. /\ Completed(u)' <= Completed(u) + 0
        /\ Cardinality(Counting(u)') >= Cardinality(Counting(u)) + 0 - less
    BY <1>4, <1>6, <2>2
  <2>4. less \in Nat /\ 0 \in Nat
    BY <1>5
  <2> QED
    BY <1>7, <2>3, <2>4, CountedKeeps
<1>8. ASSUME today'[v] \in Nat \cup {Nil}, lost'[v] \in Int, faults' = faults,
             Number(today'[v]) + lost'[v] = Number(today[v]) + lost[v] + n,
             u # v => today'[u] = today[u] /\ lost'[u] = lost[u]
      PROVE  Counted(u)'
  <2>1. CASE u = v
    <3>1. n >= less /\ n \in Int
      BY <1>2, <1>5
    <3> QED
      BY <1>7, <1>8, <2>1, <3>1
  <2>2. CASE u # v
    <3> PICK t, l : t = Number(today[u]) /\ l = lost[u]
      OBVIOUS
    <3>1. t \in Nat /\ l \in Int
      BY NumbersAre
    <3>2. t + l = t + l + 0 /\ 0 \in Int /\ less = 0 /\ 0 >= less
      BY <1>5, <2>2, <3>1
    <3>3. Number(today'[u]) + lost'[u] = Number(today[u]) + lost[u] + 0
      BY <1>8, <2>2, <3>2
    <3> QED
      BY <1>7, <1>8, <3>2, <3>3
  <2> QED
    BY <2>1, <2>2
<1>9. CASE /\ read # Nil /\ today' = [today EXCEPT ![v] = read + n]
           /\ lost' = [lost EXCEPT ![v] = lost[v] + (today[v] - read)] /\ Done(r)
  <2>1. read \in Nat /\ today[v] \in Nat /\ lost[v] \in Int
    BY <1>2, <1>3, <1>9
  <2>2. /\ today'[v] = read + n /\ lost'[v] = lost[v] + (today[v] - read) /\ faults' = faults
        /\ u # v => today'[u] = today[u] /\ lost'[u] = lost[u]
    BY <1>2, <1>3, <1>9 DEF Done, Works
  <2> PICK t, l : t = today[v] /\ l = lost[v]
    OBVIOUS
  <2>3. /\ read + n \in Nat /\ l + (t - read) \in Int
        /\ (read + n) + (l + (t - read)) = t + l + n
    BY <1>2, <2>1
  <2>4. Number(today'[v]) = read + n /\ Number(today[v]) = t
    BY <1>3, <2>1, <2>2, <2>3 DEF Number
  <2> QED
    BY <1>8, <2>2, <2>3, <2>4
<1>10. CASE read = Nil /\ today[v] = Nil /\ today' = [today EXCEPT ![v] = n] /\ Done(r) /\ UNCHANGED lost
  <2>1. /\ today'[v] = n /\ lost'[v] = lost[v] /\ faults' = faults /\ lost[v] \in Int
        /\ u # v => today'[u] = today[u] /\ lost'[u] = lost[u]
    BY <1>2, <1>3, <1>10 DEF Done, Works
  <2>2. Number(today'[v]) = n /\ Number(today[v]) = 0
    BY <1>2, <1>3, <1>10, <2>1 DEF Number
  <2> PICK l : l = lost[v]
    OBVIOUS
  <2>3. n + l = 0 + l + n
    BY <1>2, <2>1
  <2> QED
    BY <1>2, <1>8, <2>1, <2>2, <2>3
<1>11. CASE /\ read = Nil /\ today[v] # Nil /\ lost' = [lost EXCEPT ![v] = lost[v] + n]
            /\ Works /\ UNCHANGED today
  <2>1. /\ today'[v] = today[v] /\ lost'[v] = lost[v] + n /\ faults' = faults /\ lost[v] \in Int /\ today[v] \in Nat
        /\ u # v => today'[u] = today[u] /\ lost'[u] = lost[u]
    BY <1>2, <1>3, <1>11 DEF Works
  <2> PICK t, l : t = today[v] /\ l = lost[v]
    OBVIOUS
  <2>2. l + n \in Int /\ t + (l + n) = t + l + n
    BY <1>2, <2>1
  <2>3. Number(today'[v]) = t /\ Number(today[v]) = t
    BY <1>3, <2>1 DEF Number
  <2> QED
    BY <1>8, <2>1, <2>2, <2>3
<1>12. CASE faults' = faults + 1 /\ UNCHANGED <<today, lost>>
  <2> PICK t, l : t = Number(today[u]) /\ l = lost[u]
    OBVIOUS
  <2>1. t \in Nat /\ l \in Int
    BY NumbersAre
  <2>2. t + l = t + l + 0 /\ 0 \in Int /\ 0 + 1 >= less
    BY <1>5, <2>1
  <2>3. Number(today'[u]) + lost'[u] = Number(today[u]) + lost[u] + 0
    BY <1>12, <2>2
  <2> QED
    BY <1>7, <1>12, <2>2, <2>3
<1> QED
  BY <1>9, <1>10, <1>11, <1>12 DEF SaveSession, Fails

LEMMA CompletionsStep ==
    ASSUME Inv, Inv', CompletionsCounted, [Next]_vars
    PROVE  CompletionsCounted'
<1> SUFFICES ASSUME NEW u \in Users PROVE Counted(u)'
  BY DEF CompletionsCounted, Counted
<1>0. Counted(u) /\ faults \in Nat /\ (faults' = faults \/ faults' = faults + 1)
  BY FaultsGrow DEF CompletionsCounted, Counted
<1>1. ASSUME NEW r \in Slots, OneActs(r), ~ Doing(r, "session") /\ ~ Doing(r, "count"),
             UNCHANGED <<attempt, today, lost>>
      PROVE  Counted(u)'
  BY <1>0, <1>1, CountingStays, BesideCounted DEF OneActs
<1>2. ASSUME UNCHANGED <<req, attempt, today, lost>> PROVE Counted(u)'
  <2>1. Counting(u) \subseteq Counting(u)'
    BY <1>2 DEF Counting, Op, Doing
  <2> QED
    BY <1>0, <1>2, <2>1, BesideCounted
<1>3. ASSUME NEW r \in Slots, NEW w \in Users, ContentRequest(r, w), Cascade PROVE Counted(u)'
  BY <1>1, <1>3, ContentRequestActs, BeginsIdle, IdleDoesNothing DEF Cascade
<1>4. ASSUME NEW r \in Slots, NEW w \in Users, AnalyticsRequest(r, w) PROVE Counted(u)'
  BY <1>1, <1>4, AnalyticsRequestActs, BeginsIdle, IdleDoesNothing DEF AnalyticsRequest, analyticsVars
<1>5. ASSUME NEW r \in Slots, ContentStatement(r), Cascade, Track PROVE Counted(u)'
  <2>1. UNCHANGED <<attempt, today, lost>> /\ UNCHANGED <<attempt, today, goal>>
    BY <1>5 DEF Cascade
  <2>2. OneActs(r)
    BY <1>5, <2>1, ContentStatementKeeps DEF Keeps
  <2>3. ~ Doing(r, "session") /\ ~ Doing(r, "count")
    BY <1>5, HeadsAre, DoingOne DEF ContentHeads
  <2> QED
    BY <1>1, <2>1, <2>2, <2>3
<1>6. ASSUME NEW r \in Slots, AnalyticsStatement(r), Track PROVE Counted(u)'
  <2>1. CASE StartQuizAttempt(r) \/ CompleteQuizAttempt(r) \/ FindSession(r) \/ SaveSession(r)
    BY <1>0, <1>6, <2>1, StartCounted, CompleteCounted, FindCounted, SaveCounted
  <2>2. CASE ~ (StartQuizAttempt(r) \/ CompleteQuizAttempt(r) \/ FindSession(r) \/ SaveSession(r))
    <3>1. UNCHANGED <<attempt, today, lost>>
      BY <1>6, <2>2 DEF AnalyticsStatement, ReadAttempt, Grade, ReadGoal, GetLearningGoals,
         ComputeProgress, SaveFails, SubmitAnswer, CreateLearningGoal, UpdateLearningGoal,
         DeleteLearningGoal, MarkComplete, analyticsVars
    <3>2. OneActs(r)
      BY <1>6, AnalyticsStatementKeeps DEF KeepsResults
    <3>3. ~ Doing(r, "session") /\ ~ Doing(r, "count")
      BY <1>6, <2>2, HeadsAre, DoingOne DEF AnalyticsHeads
    <3> QED
      BY <1>1, <3>1, <3>2, <3>3
  <2> QED
    BY <2>1, <2>2
<1>7. ASSUME NEW m, NEW word, UpdateProcessingStatus(m, word), Cascade PROVE Counted(u)'
  BY <1>2, <1>7 DEF UpdateProcessingStatus, requestVars, Cascade
<1>8. ASSUME NEW r \in Slots, Return(r), UNCHANGED analyticsVars PROVE Counted(u)'
  <2>1. ~ Doing(r, "session") /\ ~ Doing(r, "count")
    BY <1>8, DoingOne DEF Return
  <2> QED
    BY <1>1, <1>8, <2>1, ReturnActs DEF analyticsVars
<1>9. ASSUME UNCHANGED vars PROVE Counted(u)'
  BY <1>2, <1>9 DEF vars, requestVars, analyticsVars
<1> QED
  BY <1>3, <1>4, <1>5, <1>6, <1>7, <1>8, <1>9 DEF Next, ContentNext, AnalyticsNext

LEMMA LossesAtFirst == Init => LossesPaidFor
<1> SUFFICES ASSUME Init PROVE LossesPaidFor
  OBVIOUS
<1> PICK w \in Users : ContentInit(w) /\ AnalyticsInit(w)
  BY DEF Init
<1>1. Inv /\ faults = 0 /\ promised = [s \in Sets |-> 0] /\ lost = [v \in Users |-> 0] /\ req = [r \in Slots |-> Idle]
  BY InitHolds DEF Init, RequestsInit, ContentInit, AnalyticsInit
<1>2. HalfMade = {}
  <2> SUFFICES ASSUME NEW s \in HalfMade PROVE FALSE
    OBVIOUS
  <2> PICK b : b = Cardinality(BornIn(s))
    OBVIOUS
  <2>1. s \in Sets /\ b < 0
    BY <1>1 DEF HalfMade, BornIn
  <2>2. IsFiniteSet(BornIn(s))
    <3>1. BornIn(s) \subseteq Items
      BY DEF BornIn
    <3> QED
      BY <3>1, ContentAssumption, FS_Subset
  <2>3. b \in Nat
    BY <2>2, FS_CardinalityType
  <2> QED
    BY <2>1, <2>3
<1>3. HalfMadePaidFor
  BY <1>1, <1>2, FS_EmptySet DEF HalfMadePaidFor
<1>4. ASSUME NEW u \in Users PROVE Counted(u)
  <2>1. AttemptsOf(u) = {}
    BY DEF AttemptsOf, AnalyticsInit, AttemptRow, NoRow, Live
  <2>2. Completed(u) = 0
    BY <2>1, CompletedIs, FS_EmptySet
  <2> PICK t, k : t = Number(today[u]) /\ k = Cardinality(Counting(u))
    OBVIOUS
  <2>3. t \in Nat /\ k \in Nat /\ lost[u] = 0
    BY <1>1, NumbersAre
  <2>4. 0 <= t + 0 + 0 + k
    BY <2>3
  <2> QED
    BY <1>1, <2>2, <2>3, <2>4 DEF Counted
<1> QED
  BY <1>3, <1>4 DEF LossesPaidFor, CompletionsCounted, Counted

(* Sets that lack items they were created with, and completions missing    *)
(* from the day's study session, never outnumber the statements that       *)
(* failed, the counts overwritten in a race and the requests still at it.  *)
THEOREM LossesArePaid == Spec => []LossesPaidFor
<1>1. Inv /\ Inv' /\ LossesPaidFor /\ [Next]_vars => LossesPaidFor'
  BY HalfMadeStep, CompletionsStep DEF LossesPaidFor
<1> QED
  BY <1>1, LossesAtFirst, LearningInductive, PTL DEF Spec
=============================================================================
