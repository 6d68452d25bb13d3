---------------------------- MODULE ContentStore -----------------------------
(***************************************************************************)
(* The content service: courses, materials, quizzes with their questions   *)
(* and flashcard decks with their cards, after content_service.go, the     *)
(* repositories and the handlers, and after the way GORM saves a row that  *)
(* was read with its associations.                                         *)
(*                                                                         *)
(* A quiz or deck is a set, a question or card an item of one.  A row keeps*)
(* what decides: whether it exists or is soft-deleted, its owner, the      *)
(* course and material it points to and the processing status.  Courses,   *)
(* materials and sets are soft-deleted; items are removed.                 *)
(***************************************************************************)
EXTENDS Requests

CONSTANTS
    Courses, Materials, Quizzes, Questions, Decks, Cards,
    Statuses,     \* of processing, "pending" one of them
    Given,        \* the rows that exist at the start
    MaxBatch,     \* bound on the items a quiz or deck is created with
    MaxCallbacks  \* bound on callbacks of the ingestion service

Sets == Quizzes \cup Decks
Items == Questions \cup Cards
ContentIds == Courses \cup Materials \cup Sets \cup Items

(* Every row has an id of its own.                                         *)
ASSUME ContentAssumption ==
    /\ "pending" \in Statuses /\ MaxBatch \in Nat /\ MaxCallbacks \in Nat
    /\ IsFiniteSet(Sets) /\ IsFiniteSet(Items)
    /\ Nil \notin ContentIds
    /\ Courses \cap (Materials \cup Sets \cup Items) = {}
    /\ Materials \cap (Sets \cup Items) = {} /\ Sets \cap Items = {}
    /\ Quizzes \cap Decks = {} /\ Questions \cap Cards = {}

VARIABLES
    course,   \* courses
    material, \* materials
    set,      \* quizzes and flashcard_decks
    item,     \* quiz_questions and flashcards: the set of each, Nil where there is no row
    born,     \* history: items that have had a row, with their set
    promised, \* history: per set, the items asked for when it was created
    callbacks \* history: callbacks made

contentRows == <<course, material, set, item>>
contentVars == <<contentRows, born, promised, callbacks>>

NoRow == [st |-> "none"]

CourseRow(u) == [st |-> "live", owner |-> u]
MaterialRow(u, c) == [st |-> "live", owner |-> u, course |-> c, status |-> "pending"]
SetRow(u, c, m) == [st |-> "live", owner |-> u, course |-> c, material |-> m]

(* A library of user u, kept in a course of u or in none; a course there   *)
(* is may then be of someone else.                                         *)
ContentInit(u) ==
    \E home \in (Courses \cap Given) \cup {Nil}, v \in Users :
        /\ home # Nil => v = u
        /\ course = [c \in Courses |-> IF c \in Given THEN CourseRow(v) ELSE NoRow]
        /\ material = [m \in Materials |-> IF m \in Given THEN MaterialRow(u, home) ELSE NoRow]
        /\ set = [s \in Sets |-> IF s \in Given THEN SetRow(u, home, Nil) ELSE NoRow]
        /\ item \in [Items -> (Sets \cap Given) \cup {Nil}]
        /\ \A i \in Items : /\ item[i] # Nil <=> i \in Given
                            /\ item[i] \in Quizzes => i \in Questions
                            /\ item[i] \in Decks => i \in Cards
        /\ born = item
        /\ promised = [s \in Sets |-> 0]
        /\ callbacks = 0

Live(row) == row.st = "live"
LiveOrNil(x, table) == IF x # Nil /\ Live(table[x]) THEN x ELSE Nil

-----------------------------------------------------------------------------
(* The checks: a row that GORM does not find, deleted_at being set, and a  *)
(* row of someone else.                                                    *)
Owned(row, u, missing) ==
    IF ~ Live(row) THEN missing ELSE IF row.owner # u THEN "denied" ELSE "ok"

GetCourse(u, c) == Owned(course[c], u, "no course")
GetMaterial(u, m) == Owned(material[m], u, "no material")
GetQuiz(u, q) == Owned(set[q], u, "no quiz")
GetFlashcardDeck(u, d) == Owned(set[d], u, "no flashcard")

(* The error where a row is not found, or cannot be read.                  *)
Missing(x) ==
    CASE x \in Courses -> "no course" [] x \in Materials -> "no material"
      [] x \in Quizzes -> "no quiz" [] x \in Questions -> "no question"
      [] OTHER -> "no flashcard"

Get(u, x) ==
    CASE x \in Courses -> GetCourse(u, x) [] x \in Materials -> GetMaterial(u, x)
      [] x \in Quizzes -> GetQuiz(u, x) [] x \in Decks -> GetFlashcardDeck(u, x)

(* What is read with a course: the live materials, quizzes and decks in it.*)
CourseKids(c) ==
    {m \in Materials : Live(material[m]) /\ material[m].course = c} \cup
    {s \in Sets : Live(set[s]) /\ set[s].course = c}

(* What is read with a material, quiz or deck: the course and the material *)
(* it points to, unless they are deleted; and the items of a set.          *)
MaterialCopy(m) == [row |-> material[m], course |-> LiveOrNil(material[m].course, course)]
SetCopy(s) ==
    [row |-> set[s], course |-> LiveOrNil(set[s].course, course),
     material |-> LiveOrNil(set[s].material, material)]
SetKids(s) == {i \in Items : item[i] = s}

Copy(x) ==
    CASE x \in Courses -> [row |-> course[x]] [] x \in Materials -> MaterialCopy(x)
      [] x \in Sets -> SetCopy(x) [] x \in Items -> [row |-> item[x]]
Kids(x) ==
    CASE x \in Courses -> CourseKids(x) [] x \in Sets -> SetKids(x) [] OTHER -> {}

(* The first statement of an operation on a row: it is read and checked.   *)
ReadRow(r) ==
    LET x == req[r].id  e == Get(req[r].user, x) IN
    /\ Doing(r, "row")
    /\ \/ /\ Works
          /\ IF e = "ok" THEN Pass(r, [req[r] EXCEPT !.copy = Copy(x), !.kids = Kids(x)])
                         ELSE Refuse(r, e)
       \/ Fails(r, Missing(x))
    /\ UNCHANGED contentVars

(* Mutant: a course is looked for, and not whose it is.                    *)
CheckCourseOfAnyone(r) ==
    /\ Doing(r, "course")
    /\ \/ Works /\ Judge(r, IF Live(course[req[r].course]) THEN "ok" ELSE "no course")
       \/ Fails(r, "no course")
    /\ UNCHANGED contentVars

(* The checks of the course and the material a request gives.              *)
CheckCourse(r) ==
    /\ Doing(r, "course")
    /\ \/ Works /\ Judge(r, GetCourse(req[r].user, req[r].course))
       \/ Fails(r, "no course")
    /\ UNCHANGED contentVars

CheckMaterial(r) ==
    /\ Doing(r, "material")
    /\ \/ Works /\ Judge(r, GetMaterial(req[r].user, req[r].material))
       \/ Fails(r, "no material")
    /\ UNCHANGED contentVars

(* A question or card is read, and then the quiz or deck it is in.         *)
ReadItem(r) ==
    LET i == req[r].id IN
    /\ Doing(r, "item")
    /\ \/ /\ Works
          /\ IF item[i] = Nil THEN Refuse(r, Missing(i))
             ELSE Pass(r, [req[r] EXCEPT !.copy = Copy(i)])
       \/ Fails(r, Missing(i))
    /\ UNCHANGED contentVars

CheckParent(r) ==
    /\ Doing(r, "parent")
    /\ \/ Works /\ Judge(r, Get(req[r].user, req[r].copy.row))
       \/ Fails(r, Missing(req[r].copy.row))
    /\ UNCHANGED contentVars

(* A write that fails changes nothing.                                     *)
WriteFails(r) ==
    /\ Doing(r, "write") \/ Doing(r, "child") \/ Doing(r, "reload")
    /\ Fails(r, "sql")
    /\ UNCHANGED contentVars

-----------------------------------------------------------------------------
(* GORM.  Saving a row writes every column of it as it was read, with the  *)
(* changes; where an association was read with the row its id replaces the *)
(* foreign key.  An UPDATE that finds no live row is followed by an INSERT *)
(* that overwrites the row of that id, deleted_at with the rest: the two   *)
(* are one step here, and leave the row as it is in memory either way.     *)
(* Rows of a has-many association are inserted, and where they exist only  *)
(* their foreign key is set.                                               *)
ForeignKey(associated, asked, old) ==
    IF associated # Nil THEN associated ELSE IF asked # Nil THEN asked ELSE old

(* Soft deletion of a live row.                                            *)
Deleted(row) == IF Live(row) THEN [row EXCEPT !.st = "deleted"] ELSE row

CreateCourse(r) ==
    /\ Writing(r, "CreateCourse")
    /\ \E c \in Courses : course[c] = NoRow /\ course' = [course EXCEPT ![c] = CourseRow(req[r].user)]
    /\ Done(r)
    /\ UNCHANGED <<material, set, item, born, promised, callbacks>>

UpdateCourse(r) ==
    LET c == req[r].id IN
    /\ Writing(r, "UpdateCourse")
    /\ course' = [course EXCEPT ![c] = req[r].copy.row]
    /\ material' = [m \in Materials |->
         IF m \in req[r].kids THEN [material[m] EXCEPT !.course = c] ELSE material[m]]
    /\ set' = [s \in Sets |-> IF s \in req[r].kids THEN [set[s] EXCEPT !.course = c] ELSE set[s]]
    /\ Done(r)
    /\ UNCHANGED <<item, born, promised, callbacks>>

DeleteCourse(r) ==
    /\ Writing(r, "DeleteCourse")
    /\ course' = [course EXCEPT ![req[r].id] = Deleted(@)]
    /\ Done(r)
    /\ UNCHANGED <<material, set, item, born, promised, callbacks>>

CreateMaterial(r) ==
    /\ Writing(r, "CreateMaterial")
    /\ \E m \in Materials :
         /\ material[m] = NoRow
         /\ material' = [material EXCEPT ![m] = MaterialRow(req[r].user, req[r].course)]
    /\ Done(r)
    /\ UNCHANGED <<course, set, item, born, promised, callbacks>>

UpdateMaterial(r) ==
    LET copy == req[r].copy IN
    /\ Writing(r, "UpdateMaterial")
    /\ material' = [material EXCEPT ![req[r].id] =
         [copy.row EXCEPT !.course = ForeignKey(copy.course, req[r].course, @)]]
    /\ Done(r)
    /\ UNCHANGED <<course, set, item, born, promised, callbacks>>

DeleteMaterial(r) ==
    /\ Writing(r, "DeleteMaterial")
    /\ material' = [material EXCEPT ![req[r].id] = Deleted(@)]
    /\ Done(r)
    /\ UNCHANGED <<course, set, item, born, promised, callbacks>>

(* What the ingestion service calls a status it does not share is pending. *)
DbStatus(word) == IF word \in Statuses THEN word ELSE "pending"

(* Mutant: the callback saves the material instead of updating one column. *)
SaveProcessingStatus(m, word) ==
    /\ callbacks < MaxCallbacks /\ (\A r \in Slots : ~ Urgent(r)) /\ material[m] # NoRow
    /\ callbacks' = callbacks + 1
    /\ material' = [material EXCEPT ![m].status = DbStatus(word), ![m].st = "live"]
    /\ UNCHANGED <<course, set, item, born, promised, requestVars>>

(* The ingestion service's callback: one statement, on a live material of  *)
(* whatever owner, whatever the status was.                                *)
UpdateProcessingStatus(m, word) ==
    /\ callbacks < MaxCallbacks /\ (\A r \in Slots : ~ Urgent(r)) /\ Live(material[m])
    /\ callbacks' = callbacks + 1
    /\ material' = [material EXCEPT ![m].status = DbStatus(word)]
    /\ UNCHANGED <<course, set, item, born, promised, requestVars>>

(* A set is created with one statement, and each of its items with another:*)
(* no transaction holds them together.                                     *)
InsertSet(r, kind) ==
    \E s \in kind :
        /\ set[s] = NoRow
        /\ set' = [set EXCEPT ![s] = SetRow(req[r].user, req[r].course, req[r].material)]
        /\ promised' = [promised EXCEPT ![s] = req[r].n]
        /\ Pass(r, [req[r] EXCEPT !.id = s]) /\ Works
        /\ UNCHANGED <<course, material, item, born, callbacks>>

InsertItem(s, kind) ==
    \E i \in kind :
        /\ born[i] = Nil
        /\ item' = [item EXCEPT ![i] = s]
        /\ born' = [born EXCEPT ![i] = s]

AddItem(r, kind) ==
    /\ InsertItem(req[r].id, kind)
    /\ Done(r)
    /\ UNCHANGED <<course, material, set, promised, callbacks>>

SaveSet(r) ==
    LET s == req[r].id  copy == req[r].copy IN
    /\ set' = [set EXCEPT ![s] =
         [copy.row EXCEPT !.course = ForeignKey(copy.course, req[r].course, @),
                          !.material = ForeignKey(copy.material, req[r].material, @)]]
    /\ item' = [i \in Items |-> IF i \in req[r].kids THEN s ELSE item[i]]
    /\ Done(r)
    /\ UNCHANGED <<course, material, born, promised, callbacks>>

SaveItem(r) ==
    /\ item' = [item EXCEPT ![req[r].id] = req[r].copy.row]
    /\ Done(r)
    /\ UNCHANGED <<course, material, set, born, promised, callbacks>>

DeleteSet(r) ==
    /\ set' = [set EXCEPT ![req[r].id] = Deleted(@)]
    /\ Done(r)
    /\ UNCHANGED <<course, material, item, born, promised, callbacks>>

RemoveItem(r) ==
    /\ item' = [item EXCEPT ![req[r].id] = Nil]
    /\ Done(r)
    /\ UNCHANGED <<course, material, set, born, promised, callbacks>>

(* The operations that write, and the reload of a new set, whose error is  *)
(* passed on as it is.                                                     *)
CreateQuiz(r) ==
    \/ Writing(r, "CreateQuiz") /\ InsertSet(r, Quizzes)
    \/ Doing(r, "child") /\ Op(r) = "CreateQuiz" /\ AddItem(r, Questions)
UpdateQuiz(r) == Writing(r, "UpdateQuiz") /\ SaveSet(r)
DeleteQuiz(r) == Writing(r, "DeleteQuiz") /\ DeleteSet(r)
AddQuizQuestion(r) == Writing(r, "AddQuizQuestion") /\ AddItem(r, Questions)
UpdateQuizQuestion(r) == Writing(r, "UpdateQuizQuestion") /\ SaveItem(r)
DeleteQuizQuestion(r) == Writing(r, "DeleteQuizQuestion") /\ RemoveItem(r)

CreateFlashcardDeck(r) ==
    \/ Writing(r, "CreateFlashcardDeck") /\ InsertSet(r, Decks)
    \/ Doing(r, "child") /\ Op(r) = "CreateFlashcardDeck" /\ AddItem(r, Cards)
UpdateFlashcardDeck(r) == Writing(r, "UpdateFlashcardDeck") /\ SaveSet(r)
DeleteFlashcardDeck(r) == Writing(r, "DeleteFlashcardDeck") /\ DeleteSet(r)
AddFlashcard(r) == Writing(r, "AddFlashcard") /\ AddItem(r, Cards)
UpdateFlashcard(r) == Writing(r, "UpdateFlashcard") /\ SaveItem(r)
DeleteFlashcard(r) == Writing(r, "DeleteFlashcard") /\ RemoveItem(r)

ReloadSet(r) ==
    /\ Doing(r, "reload")
    /\ Works /\ Judge(r, IF Live(set[req[r].id]) THEN "ok" ELSE "gone")
    /\ UNCHANGED contentVars

(* What a listing finds, whoever owns it.                                  *)
GetCourseMaterials(c) == {m \in Materials : Live(material[m]) /\ material[m].course = c}
GetCourseQuizzes(c) == {q \in Quizzes : Live(set[q]) /\ set[q].course = c}

ListRows(r) ==
    /\ Doing(r, "list")
    /\ \/ /\ Works
          /\ Pass(r, [req[r] EXCEPT !.kids = IF Op(r) = "GetCourseMaterials"
                                             THEN GetCourseMaterials(req[r].course)
                                             ELSE GetCourseQuizzes(req[r].course)])
       \/ Fails(r, "sql")
    /\ UNCHANGED contentVars

-----------------------------------------------------------------------------
(* The handlers: the statements a request will make.                       *)
Step(x, s) == IF x = Nil THEN <<>> ELSE <<s>>
OrNil(kind) == kind \cup {Nil}

OnRow(r, u, op, kind) == \E x \in kind : Begin(r, u, Call(op, x, Nil, Nil, 0), <<"row", "write">>)
OnItem(r, u, op, kind) ==
    \E x \in kind : Begin(r, u, Call(op, x, Nil, Nil, 0), <<"item", "parent", "write">>)
ReadOne(r, u, op, kind) == \E x \in kind : Begin(r, u, Call(op, x, Nil, Nil, 0), <<"row">>)
ReadList(r, u, op) == \E c \in Courses : Begin(r, u, Call(op, Nil, c, Nil, 0), <<"course", "list">>)

(* The course and the material a request gives: the one, the other or      *)
(* none.  Their checks follow one another and do not meet.                 *)
Places == {<<Nil, Nil>>} \cup (Courses \X {Nil}) \cup ({Nil} \X Materials)

NewSet(r, u, op) ==
    \E p \in Places, n \in 0..MaxBatch : LET c == p[1]  m == p[2] IN
        Begin(r, u, Call(op, Nil, c, m, n),
              Step(c, "course") \o Step(m, "material") \o <<"write">>
              \o [i \in 1..n |-> "child"] \o <<"reload">>)
ChangedSet(r, u, op, kind) ==
    \E s \in kind, p \in Places : LET c == p[1]  m == p[2] IN
        Begin(r, u, Call(op, s, c, m, 0),
              <<"row">> \o Step(c, "course") \o Step(m, "material") \o <<"write">>)

PostCourse(r, u) == Begin(r, u, Call("CreateCourse", Nil, Nil, Nil, 0), <<"write">>)
FetchCourse(r, u) == ReadOne(r, u, "GetCourse", Courses)
PutCourse(r, u) == OnRow(r, u, "UpdateCourse", Courses)
RemoveCourse(r, u) == OnRow(r, u, "DeleteCourse", Courses)

PostMaterial(r, u) ==
    \E c \in OrNil(Courses) :
        Begin(r, u, Call("CreateMaterial", Nil, c, Nil, 0), Step(c, "course") \o <<"write">>)
FetchMaterial(r, u) == ReadOne(r, u, "GetMaterial", Materials)
ListMaterials(r, u) == ReadList(r, u, "GetCourseMaterials")
PutMaterial(r, u) ==
    \E m \in Materials, c \in OrNil(Courses) :
        Begin(r, u, Call("UpdateMaterial", m, c, Nil, 0),
              <<"row">> \o Step(c, "course") \o <<"write">>)
RemoveMaterial(r, u) == OnRow(r, u, "DeleteMaterial", Materials)

PostQuiz(r, u) == NewSet(r, u, "CreateQuiz")
FetchQuiz(r, u) == ReadOne(r, u, "GetQuiz", Quizzes)
ListQuizzes(r, u) == ReadList(r, u, "GetCourseQuizzes")
PutQuiz(r, u) == ChangedSet(r, u, "UpdateQuiz", Quizzes)
RemoveQuiz(r, u) == OnRow(r, u, "DeleteQuiz", Quizzes)
PostQuestion(r, u) == OnRow(r, u, "AddQuizQuestion", Quizzes)
PutQuestion(r, u) == OnItem(r, u, "UpdateQuizQuestion", Questions)
RemoveQuestion(r, u) == OnItem(r, u, "DeleteQuizQuestion", Questions)

PostDeck(r, u) == NewSet(r, u, "CreateFlashcardDeck")
FetchDeck(r, u) == ReadOne(r, u, "GetFlashcardDeck", Decks)
PutDeck(r, u) == ChangedSet(r, u, "UpdateFlashcardDeck", Decks)
RemoveDeck(r, u) == OnRow(r, u, "DeleteFlashcardDeck", Decks)
PostCard(r, u) == OnRow(r, u, "AddFlashcard", Decks)
PutCard(r, u) == OnItem(r, u, "UpdateFlashcard", Cards)
RemoveCard(r, u) == OnItem(r, u, "DeleteFlashcard", Cards)

ContentRequest(r, u) ==
    /\ \/ PostCourse(r, u) \/ FetchCourse(r, u) \/ PutCourse(r, u) \/ RemoveCourse(r, u)
       \/ PostMaterial(r, u) \/ FetchMaterial(r, u) \/ ListMaterials(r, u)
       \/ PutMaterial(r, u) \/ RemoveMaterial(r, u)
       \/ PostQuiz(r, u) \/ FetchQuiz(r, u) \/ ListQuizzes(r, u) \/ PutQuiz(r, u)
       \/ RemoveQuiz(r, u) \/ PostQuestion(r, u) \/ PutQuestion(r, u) \/ RemoveQuestion(r, u)
       \/ PostDeck(r, u) \/ FetchDeck(r, u) \/ PutDeck(r, u) \/ RemoveDeck(r, u)
       \/ PostCard(r, u) \/ PutCard(r, u) \/ RemoveCard(r, u)
    /\ UNCHANGED contentVars

ContentStatement(r) ==
    \/ ReadRow(r) \/ CheckCourse(r) \/ CheckMaterial(r) \/ ReadItem(r) \/ CheckParent(r)
    \/ ReloadSet(r) \/ ListRows(r) \/ WriteFails(r)
    \/ CreateCourse(r) \/ UpdateCourse(r) \/ DeleteCourse(r)
    \/ CreateMaterial(r) \/ UpdateMaterial(r) \/ DeleteMaterial(r)
    \/ CreateQuiz(r) \/ UpdateQuiz(r) \/ DeleteQuiz(r)
    \/ AddQuizQuestion(r) \/ UpdateQuizQuestion(r) \/ DeleteQuizQuestion(r)
    \/ CreateFlashcardDeck(r) \/ UpdateFlashcardDeck(r) \/ DeleteFlashcardDeck(r)
    \/ AddFlashcard(r) \/ UpdateFlashcard(r) \/ DeleteFlashcard(r)

ContentNext ==
    \/ \E r \in Slots, u \in Users : ContentRequest(r, u)
    \/ \E r \in Slots : Turn(r) /\ ContentStatement(r)
    \/ \E m \in Materials, word \in Statuses \cup {"other"} : UpdateProcessingStatus(m, word)
=============================================================================
