------------------------- MODULE InterventionsProofs -------------------------
(***************************************************************************)
(* Proofs about Interventions, for any number of students, workers, cards  *)
(* and requests: answered dismissals and actions stay recorded, and a      *)
(* timeline hides what its own student dismissed and nothing else.         *)
(***************************************************************************)
EXTENDS Interventions, FiniteSetTheorems, TLAPS

Flags == {"dismissed", "acted"}
Marking(j) == j.pc \in {"find", "update", "insert", "conflict"}

(* What the two properties need of rows and of requests under way: their   *)
(* shape, that a row about to be updated is there and the student's own,   *)
(* and that nothing is dismissed that the student did not want to be.      *)
RowsInv ==
    \A id \in DOMAIN rows :
        /\ {"user", "dismissed", "acted"} \subseteq DOMAIN rows[id]
        /\ rows[id].dismissed \in BOOLEAN
        /\ rows[id].dismissed => <<rows[id].user, id>> \in wanted

JobInv ==
    /\ DOMAIN job = Workers
    /\ \A w \in Workers : Marking(job[w]) =>
        /\ {"pc", "user", "id", "flag"} \subseteq DOMAIN job[w]
        /\ job[w].flag \in Flags
        /\ job[w].flag = "dismissed" => <<job[w].user, job[w].id>> \in wanted
        /\ job[w].pc = "update" => Found(job[w].user, job[w].id)

DoneInv ==
    \A mark \in done : mark.flag \in Flags /\ mark.id \in RowsOf(mark.user) /\ rows[mark.id][mark.flag]

Inv == RowsInv /\ JobInv /\ DoneInv

-----------------------------------------------------------------------------
LEMMA InitInv == Init => Inv
BY DEF Init, Inv, RowsInv, JobInv, DoneInv, Marking, Idle

(* What a step of one worker leaves of the other workers' requests, if     *)
(* every row stays with its student.                                       *)
LEMMA OthersKeep ==
    ASSUME JobInv, NEW w \in Workers, NEW next, Goes(w, next),
           wanted \subseteq wanted',
           \A id \in DOMAIN rows : id \in DOMAIN rows' /\ rows'[id].user = rows[id].user,
           Marking(next) =>
             /\ {"pc", "user", "id", "flag"} \subseteq DOMAIN next
             /\ next.flag \in Flags
             /\ next.flag = "dismissed" => <<next.user, next.id>> \in wanted'
             /\ next.pc = "update" => next.id \in DOMAIN rows' /\ rows'[next.id].user = next.user
    PROVE  JobInv'
<1>1. DOMAIN job' = Workers
  BY DEF JobInv, Goes
<1>2. ASSUME NEW v \in Workers, Marking(job'[v])
      PROVE  /\ {"pc", "user", "id", "flag"} \subseteq DOMAIN job'[v]
             /\ job'[v].flag \in Flags
             /\ job'[v].flag = "dismissed" => <<job'[v].user, job'[v].id>> \in wanted'
             /\ job'[v].pc = "update" => job'[v].id \in DOMAIN rows' /\ rows'[job'[v].id].user = job'[v].user
  <2>1. CASE v = w
    <3>1. job'[v] = next
      BY <2>1 DEF Goes, JobInv
    <3> QED
      BY <3>1, <1>2
  <2>2. CASE v # w
    <3>1. job'[v] = job[v]
      BY <2>2 DEF Goes, JobInv
    <3> QED
      BY <3>1, <1>2 DEF JobInv, Found, RowsOf
  <2> QED
    BY <2>1, <2>2
<1> QED
  BY <1>1, <1>2 DEF JobInv, Found, RowsOf, Marking

(* A step that leaves table and answers alone and only adds to what is     *)
(* wanted.                                                                 *)
LEMMA TableKeeps ==
    ASSUME RowsInv, DoneInv, UNCHANGED <<rows, done>>, wanted \subseteq wanted'
    PROVE  RowsInv' /\ DoneInv'
BY DEF RowsInv, DoneInv, RowsOf

(* A new row, under an id that no row has.                                 *)
LEMMA InsertKeeps ==
    ASSUME Inv, NEW id, NEW row, id \notin DOMAIN rows, Insert(id, row),
           {"user", "dismissed", "acted"} \subseteq DOMAIN row, row.dismissed \in BOOLEAN,
           row.dismissed => <<row.user, id>> \in wanted, wanted' = wanted
    PROVE  /\ RowsInv'
           /\ \A key \in DOMAIN rows : key \in DOMAIN rows' /\ rows'[key] = rows[key]
           /\ id \in DOMAIN rows' /\ rows'[id] = row
<1>1. DOMAIN rows' = DOMAIN rows \cup {id}
  BY DEF Insert
<1>2. \A key \in DOMAIN rows : rows'[key] = rows[key]
  BY DEF Insert
<1>3. rows'[id] = row
  BY DEF Insert
<1> QED
  BY <1>1, <1>2, <1>3 DEF Inv, RowsInv

-----------------------------------------------------------------------------
LEMMA PushStep ==
    ASSUME Inv, NEW w \in Workers, CommitPush(w)
    PROVE  Inv'
<1>1. /\ RowsInv'
      /\ \A key \in DOMAIN rows : key \in DOMAIN rows' /\ rows'[key] = rows[key]
  <2> DEFINE row == Pushed(job[w])
  <2>1. {"user", "dismissed", "acted"} \subseteq DOMAIN row /\ row.dismissed = FALSE
    BY DEF Pushed
  <2> QED
    BY <2>1, InsertKeeps DEF CommitPush
<1>2. DoneInv'
  BY <1>1 DEF CommitPush, Inv, DoneInv, RowsOf
<1>3. JobInv'
  <2>1. ~ Marking(Idle)
    BY DEF Marking, Idle
  <2> QED
    BY <1>1, <2>1, OthersKeep DEF CommitPush, Inv
<1> QED
  BY <1>1, <1>2, <1>3 DEF Inv

(* An existing row gets a flag: it keeps its student and its other flag.   *)
LEMMA UpdateStep ==
    ASSUME Inv, NEW w \in Workers, UpdateRow(w)
    PROVE  Inv'
<1> DEFINE j == job[w]
<1>1. /\ j.id \in DOMAIN rows /\ rows[j.id].user = j.user /\ j.flag \in Flags
      /\ j.flag = "dismissed" => <<j.user, j.id>> \in wanted
  BY DEF UpdateRow, Inv, JobInv, Marking, Found, RowsOf
<1>2. DOMAIN rows' = DOMAIN rows
  BY DEF UpdateRow
<1>3. \A id \in DOMAIN rows : id # j.id => rows'[id] = rows[id]
  BY DEF UpdateRow
<1>4. rows'[j.id] = Updated(rows[j.id], j.flag)
  BY <1>1 DEF UpdateRow
<1>5. /\ DOMAIN rows'[j.id] = DOMAIN rows[j.id]
      /\ rows'[j.id].user = rows[j.id].user
      /\ rows'[j.id][j.flag] = TRUE
      /\ \A flag \in Flags : rows[j.id][flag] => rows'[j.id][flag]
      /\ rows'[j.id].dismissed = (rows[j.id].dismissed \/ j.flag = "dismissed")
  <2>1. {"user", "dismissed", "acted"} \subseteq DOMAIN rows[j.id] /\ rows[j.id].dismissed \in BOOLEAN
    BY <1>1 DEF Inv, RowsInv
  <2> HIDE DEF j
  <2>2. CASE j.flag = "dismissed"
    BY <2>1, <2>2, <1>4 DEF Updated, Flags
  <2>3. CASE j.flag = "acted"
    BY <2>1, <2>3, <1>4 DEF Updated, Flags
  <2> QED
    BY <2>2, <2>3, <1>1 DEF Flags
<1>6. RowsInv'
  <2>1. wanted' = wanted
    BY DEF UpdateRow
  <2> HIDE DEF j
  <2>2. ASSUME NEW id \in DOMAIN rows
        PROVE  /\ {"user", "dismissed", "acted"} \subseteq DOMAIN rows'[id]
               /\ rows'[id].dismissed \in BOOLEAN
               /\ rows'[id].dismissed => <<rows'[id].user, id>> \in wanted
    <3>1. CASE id = j.id
      BY <1>1, <1>5, <3>1 DEF Inv, RowsInv
    <3>2. CASE id # j.id
      BY <1>3, <3>2 DEF Inv, RowsInv
    <3> QED
      BY <3>1, <3>2
  <2> QED
    BY <1>2, <2>1, <2>2 DEF RowsInv
<1>7. DoneInv'
  <2>1. done' = done \cup {[user |-> j.user, id |-> j.id, flag |-> j.flag]}
    BY DEF UpdateRow, Answered
  <2> HIDE DEF j
  <2>2. ASSUME NEW mark \in done
        PROVE  mark.flag \in Flags /\ mark.id \in DOMAIN rows' /\ rows'[mark.id].user = mark.user /\ rows'[mark.id][mark.flag]
    BY <1>2, <1>3, <1>5 DEF Inv, DoneInv, RowsOf
  <2> QED
    BY <2>1, <2>2, <1>1, <1>2, <1>5 DEF DoneInv, RowsOf
<1>8. JobInv'
  <2>1. ~ Marking(Idle)
    BY DEF Marking, Idle
  <2>2. \A id \in DOMAIN rows : id \in DOMAIN rows' /\ rows'[id].user = rows[id].user
    BY <1>2, <1>3, <1>5
  <2> QED
    BY <2>1, <2>2, OthersKeep DEF UpdateRow, Inv
<1> QED
  BY <1>6, <1>7, <1>8 DEF Inv

LEMMA InsertStep ==
    ASSUME Inv, NEW w \in Workers, InsertRow(w)
    PROVE  Inv'
<1> DEFINE j == job[w]
<1>1. /\ {"pc", "user", "id", "flag"} \subseteq DOMAIN j /\ j.flag \in Flags
      /\ j.flag = "dismissed" => <<j.user, j.id>> \in wanted
      /\ wanted' = wanted /\ j.pc = "insert"
  BY DEF InsertRow, Inv, JobInv, Marking
<1>2. CASE j.id \in DOMAIN rows
  <2> DEFINE next == [j EXCEPT !.pc = "conflict"]
  <2>1. Goes(w, next) /\ UNCHANGED <<rows, done>>
    BY <1>2 DEF InsertRow
  <2>2. /\ {"pc", "user", "id", "flag"} \subseteq DOMAIN next /\ next.flag = j.flag
        /\ next.user = j.user /\ next.id = j.id /\ next.pc = "conflict"
    BY <1>1
  <2> HIDE DEF next, j
  <2>3. JobInv'
    BY <1>1, <2>1, <2>2, OthersKeep DEF Inv
  <2> QED
    BY <1>1, <2>1, <2>3, TableKeeps DEF Inv
<1>3. CASE j.id \notin DOMAIN rows
  <2> DEFINE row == Marked(j)
  <2>1. Insert(j.id, row) /\ Goes(w, Idle) /\ Answered(j)
    BY <1>3 DEF InsertRow
  <2>2. /\ {"user", "dismissed", "acted"} \subseteq DOMAIN row /\ row.user = j.user
        /\ row.dismissed = (j.flag = "dismissed") /\ row.acted = (j.flag = "acted")
    BY DEF Marked
  <2> HIDE DEF row, j
  <2>3. /\ RowsInv'
        /\ \A key \in DOMAIN rows : key \in DOMAIN rows' /\ rows'[key] = rows[key]
        /\ j.id \in DOMAIN rows' /\ rows'[j.id] = row
    BY <1>1, <1>3, <2>1, <2>2, InsertKeeps
  <2>4. rows'[j.id][j.flag]
    BY <1>1, <2>2, <2>3 DEF Flags
  <2>5. DoneInv'
    BY <1>1, <2>1, <2>2, <2>3, <2>4 DEF Inv, DoneInv, RowsOf, Answered
  <2>6. JobInv'
    <3>1. ~ Marking(Idle)
      BY DEF Marking, Idle
    <3> QED
      BY <1>1, <2>1, <2>3, <3>1, OthersKeep DEF Inv
  <2> QED
    BY <2>3, <2>5, <2>6 DEF Inv
<1> QED
  BY <1>2, <1>3

-----------------------------------------------------------------------------
(* The steps that leave the table and the answers alone.                   *)
LEMMA RequestStep ==
    ASSUME Inv, NEW w \in Workers, NEW u \in Students, DispatchEvent(w, u) \/ MarkIntervention(w, u)
    PROVE  Inv'
<1>1. CASE DispatchEvent(w, u)
  <2>1. PICK next : Goes(w, next) /\ next.pc \in {"commit", "fatigue"}
    BY <1>1 DEF DispatchEvent
  <2>2. UNCHANGED <<rows, done, wanted>>
    BY <1>1 DEF DispatchEvent
  <2>3. ~ Marking(next)
    BY <2>1 DEF Marking
  <2>4. JobInv'
    BY <2>1, <2>2, <2>3, OthersKeep DEF Inv
  <2> QED
    BY <2>2, <2>4, TableKeeps DEF Inv
<1>2. CASE MarkIntervention(w, u)
  <2>1. PICK id \in Known(u), flag \in Flags :
            /\ Goes(w, [pc |-> "find", user |-> u, id |-> id, flag |-> flag])
            /\ wanted' = IF flag = "dismissed" THEN wanted \cup {<<u, id>>} ELSE wanted
    BY <1>2 DEF MarkIntervention, Flags
  <2>2. UNCHANGED <<rows, done>> /\ wanted \subseteq wanted'
    BY <1>2, <2>1 DEF MarkIntervention
  <2>3. JobInv'
    BY <2>1, <2>2, OthersKeep DEF Inv
  <2> QED
    BY <2>2, <2>3, TableKeeps DEF Inv
<1> QED
  BY <1>1, <1>2

LEMMA CheckStep ==
    ASSUME Inv, NEW w \in Workers, CheckFatigue(w) \/ CheckBudget(w) \/ Fail(w)
    PROVE  Inv'
<1>1. UNCHANGED <<rows, done, wanted>>
  BY DEF CheckFatigue, CheckBudget, Fail
<1>2. PICK next : Goes(w, next) /\ ~ Marking(next)
  <2>1. ~ Marking(Idle)
    BY DEF Marking, Idle
  <2>2. CASE CheckFatigue(w)
    <3>1. ~ Marking([job[w] EXCEPT !.pc = "budget"])
      BY <2>2 DEF CheckFatigue, Marking
    <3> QED
      BY <2>1, <2>2, <3>1 DEF CheckFatigue
  <2>3. CASE CheckBudget(w)
    <3>1. ~ Marking([job[w] EXCEPT !.pc = "commit"])
      BY <2>3 DEF CheckBudget, Marking
    <3> QED
      BY <2>1, <2>3, <3>1 DEF CheckBudget
  <2>4. CASE Fail(w)
    BY <2>1, <2>4 DEF Fail
  <2> QED
    BY <2>2, <2>3, <2>4
<1>3. JobInv'
  BY <1>1, <1>2, OthersKeep DEF Inv
<1> QED
  BY <1>1, <1>3, TableKeeps DEF Inv

LEMMA FindStep ==
    ASSUME Inv, NEW w \in Workers, FindRow(w)
    PROVE  Inv'
<1> DEFINE j == job[w]
           to == IF Found(j.user, j.id) THEN "update" ELSE "insert"
           next == [j EXCEPT !.pc = to]
<1>1. Goes(w, next) /\ UNCHANGED <<rows, done, wanted>>
  BY DEF FindRow
<1>2. /\ {"pc", "user", "id", "flag"} \subseteq DOMAIN j /\ j.flag \in Flags
      /\ j.flag = "dismissed" => <<j.user, j.id>> \in wanted
  BY DEF FindRow, Inv, JobInv, Marking
<1>3. /\ {"pc", "user", "id", "flag"} \subseteq DOMAIN next /\ next.flag = j.flag
      /\ next.user = j.user /\ next.id = j.id
      /\ next.pc = "update" => next.id \in DOMAIN rows' /\ rows'[next.id].user = next.user
  BY <1>1, <1>2 DEF Found, RowsOf
<1> HIDE DEF next, j
<1>4. JobInv'
  BY <1>1, <1>2, <1>3, OthersKeep DEF Inv
<1> QED
  BY <1>1, <1>4, TableKeeps DEF Inv

LEMMA NextInv == Inv /\ [Next]_vars => Inv'
<1> SUFFICES ASSUME Inv, [Next]_vars
             PROVE  Inv'
  OBVIOUS
<1>1. CASE \E w \in Workers : Serve(w)
  BY <1>1, CheckStep, PushStep, FindStep, UpdateStep, InsertStep DEF Serve
<1>2. CASE \E w \in Workers, u \in Students : DispatchEvent(w, u) \/ MarkIntervention(w, u)
  BY <1>2, RequestStep
<1>3. CASE (\E u \in Students, course \in Courses : LearningSignal(u, course)) \/ TimePasses
  <2>1. UNCHANGED <<rows, job, wanted, done>>
    BY <1>3 DEF LearningSignal, TimePasses
  <2> QED
    BY <2>1 DEF Inv, RowsInv, JobInv, DoneInv, Marking, Found, RowsOf
<1>4. CASE UNCHANGED vars
  BY <1>4 DEF vars, Inv, RowsInv, JobInv, DoneInv, Marking, Found, RowsOf
<1> QED
  BY <1>1, <1>2, <1>3, <1>4 DEF Next

-----------------------------------------------------------------------------
(* A dismissal or an action that was answered with success stays recorded, *)
(* however many requests overlap with it.                                  *)
THEOREM AnswersStick == Spec => []AnsweredIsRecorded
<1>1. Inv => AnsweredIsRecorded
  BY DEF Inv, DoneInv, AnsweredIsRecorded
<1> QED
  BY <1>1, InitInv, NextInv, PTL DEF Spec

(* A timeline hides exactly what its student dismissed, whatever cards     *)
(* there are and whoever else dismissed them.                              *)
THEOREM TimelinesArePersonal == Spec => []DismissalIsPersonal
<1>1. Inv => DismissalIsPersonal
  <2> SUFFICES ASSUME Inv, NEW u \in Students
               PROVE  /\ \A id \in Timeline(u) : [user |-> u, id |-> id, flag |-> "dismissed"] \notin done
                      /\ \A id \in Deck(u) \ Timeline(u) : <<u, id>> \in wanted
    BY DEF DismissalIsPersonal
  <2>1. ASSUME NEW id \in Timeline(u), [user |-> u, id |-> id, flag |-> "dismissed"] \in done
        PROVE  FALSE
    <3> DEFINE mark == [user |-> u, id |-> id, flag |-> "dismissed"]
    <3>1. mark.id \in RowsOf(mark.user) /\ rows[mark.id][mark.flag]
      BY <2>1 DEF Inv, DoneInv
    <3>2. id \in Hidden(u)
      BY <3>1 DEF Hidden, RowsOf
    <3> QED
      BY <2>1, <3>2 DEF Timeline
  <2>2. ASSUME NEW id \in Deck(u) \ Timeline(u)
        PROVE  <<u, id>> \in wanted
    <3>1. id \in DOMAIN rows /\ rows[id].user = u /\ rows[id].dismissed
      BY <2>2 DEF Timeline, Hidden
    <3> QED
      BY <3>1 DEF Inv, RowsInv
  <2> QED
    BY <2>1, <2>2
<1> QED
  BY <1>1, InitInv, NextInv, PTL DEF Spec
-----------------------------------------------------------------------------
(* The types: of the rows, of the requests under way, whose update clause  *)
(* is part of the invariant above, and of the rest.  A card of high        *)
(* priority is of an event that counts towards the daily cap.              *)
RowRec == [user : Students, card : CardKind, push : BOOLEAN, force : BOOLEAN,
           dismissed : BOOLEAN, acted : BOOLEAN, at : Moments]
CardFits(card) == card.high => card.counted
RowsTyped == \A id \in DOMAIN rows : rows[id] \in RowRec /\ CardFits(rows[id].card)
PushShape(j) == j \in PushJob /\ CardFits(j.card)
MarkShape(j) ==
    /\ DOMAIN j = {"pc", "user", "id", "flag"} /\ j.user \in Students /\ j.flag \in Flags
    /\ j.pc \in {"find", "update", "insert", "conflict"}
Shaped(j) == j = Idle \/ PushShape(j) \/ MarkShape(j)
JobsTyped == \A w \in Workers : Shaped(job[w])
RestTyped ==
    /\ struggling \subseteq Students \X Courses
    /\ now \in Moments /\ requests \in 0..MaxRequests
    /\ \A pair \in wanted : pair[1] \in Students
    /\ \A mark \in done : mark.user \in Students /\ mark.flag \in Flags
Typed == Inv /\ RowsTyped /\ JobsTyped /\ RestTyped /\ IsFiniteSet(DOMAIN rows)

(* What pc says of the shape of a request.                                 *)
LEMMA Shapes ==
    ASSUME NEW j, Shaped(j)
    PROVE  /\ j.pc \in {"fatigue", "budget", "commit"} => PushShape(j)
           /\ Marking(j) => MarkShape(j)
           /\ j.pc \in {"idle", "fatigue", "budget", "commit", "find", "update", "insert", "conflict"}
BY DEF Shaped, Idle, PushShape, PushJob, MarkShape, Marking

LEMMA TypedIsTypeOK == Typed => TypeOK
<1> SUFFICES ASSUME Typed PROVE TypeOK
  OBVIOUS
<1>1. ASSUME NEW w \in Workers, MarkShape(job[w]) PROVE IsMarkJob(job[w])
  <2>1. job[w].pc = "update" => job[w].id \in RowsOf(job[w].user)
    BY DEF Typed, Inv, JobInv, Marking, Found
  <2> QED
    BY <1>1, <2>1 DEF MarkShape, IsMarkJob, Flags
<1> QED
  BY <1>1 DEF Typed, RowsTyped, RowRec, JobsTyped, Shaped, PushShape, RestTyped, TypeOK, Flags

LEMMA TypedInit == Init => Typed
<1> SUFFICES ASSUME Init PROVE Typed
  OBVIOUS
<1>1. DOMAIN rows = {} /\ IsFiniteSet({})
  BY FS_EmptySet DEF Init
<1>2. requests \in 0..MaxRequests
  BY InterventionsAssumption DEF Init
<1>3. RowsTyped /\ JobsTyped /\ RestTyped
  BY <1>1, <1>2 DEF Init, RowsTyped, JobsTyped, Shaped, RestTyped
<1> QED
  BY <1>1, <1>3, InitInv DEF Typed

(* Every card the dispatcher makes.                                        *)
LEMMA CardsAreKinds ==
    ASSUME NEW event \in Events, NEW near \in Nearness, NEW weak \in BOOLEAN
    PROVE  Card(event, near, weak) \in CardKind /\ CardFits(Card(event, near, weak))
BY DEF Card, CardKind, CardFits, Events, Nearness

(* One worker goes on, the others stay as they are.                        *)
LEMMA OneGoes ==
    ASSUME Typed, NEW w \in Workers, NEW next, Goes(w, next)
    PROVE  /\ DOMAIN job = Workers /\ job'[w] = next
           /\ \A v \in Workers \ {w} : job'[v] = job[v]
           /\ Shaped(next) => JobsTyped'
<1>1. DOMAIN job = Workers
  BY DEF Typed, Inv, JobInv
<1> QED
  BY <1>1 DEF Goes, Typed, JobsTyped

(* A row is put in under an id that no row has.                            *)
LEMMA RowIn ==
    ASSUME Typed, NEW id, NEW row \in RowRec, CardFits(row.card), id \notin DOMAIN rows, Insert(id, row)
    PROVE  /\ DOMAIN rows' = DOMAIN rows \cup {id} /\ rows'[id] = row
           /\ \A key \in DOMAIN rows : rows'[key] = rows[key]
           /\ RowsTyped' /\ IsFiniteSet(DOMAIN rows')
<1>1. /\ DOMAIN rows' = DOMAIN rows \cup {id} /\ rows'[id] = row
      /\ \A key \in DOMAIN rows : rows'[key] = rows[key]
  BY DEF Insert
<1>2. RowsTyped'
  BY <1>1 DEF Typed, RowsTyped
<1>3. IsFiniteSet(DOMAIN rows')
  BY <1>1, FS_AddElement DEF Typed
<1> QED
  BY <1>1, <1>2, <1>3

(* The steps, by what they do to the table and to the requests.            *)
Still == UNCHANGED <<rows, job>>
Passing(w, next) ==
    /\ Goes(w, next) /\ rows' = rows /\ PushShape(next) /\ next.pc = "commit" /\ ~ next.force
    /\ ~ Capped(next.user, next.at, next.card) /\ ~ Cooling(next.user, next.at, next.card)
Going(w, next) == Goes(w, next) /\ Shaped(next) /\ (next.pc = "commit" => next.force)
Pushing(w) ==
    /\ Goes(w, Idle) /\ PushShape(job[w]) /\ job[w].pc = "commit"
    /\ \E id : id \notin DOMAIN rows /\ Insert(id, Pushed(job[w]))
SameTable == rows' = rows
Flagged ==
    /\ DOMAIN rows' = DOMAIN rows
    /\ \A id \in DOMAIN rows :
         /\ rows'[id].user = rows[id].user /\ rows'[id].card = rows[id].card /\ rows'[id].push = rows[id].push
         /\ rows'[id].force = rows[id].force /\ rows'[id].at = rows[id].at /\ rows'[id] \in RowRec
Noted == \E id, row : row \in RowRec /\ CardFits(row.card) /\ ~ row.push /\ id \notin DOMAIN rows /\ Insert(id, row)
Does ==
    \/ Still
    \/ \E w \in Workers : \E next : Passing(w, next)
    \/ \E w \in Workers : \E next : Going(w, next) /\ (SameTable \/ Flagged \/ Noted)
    \/ \E w \in Workers : Pushing(w)

LEMMA RequestDoes ==
    ASSUME Typed, NEW w \in Workers, NEW u \in Students, DispatchEvent(w, u) \/ MarkIntervention(w, u)
    PROVE  Does /\ RestTyped'
<1>1. requests' \in 0..MaxRequests
  <2>1. requests \in 0..MaxRequests /\ requests < MaxRequests /\ requests' = requests + 1
    BY DEF DispatchEvent, MarkIntervention, Arrives, Typed, RestTyped
  <2> QED
    BY <2>1, InterventionsAssumption
<1>2. CASE DispatchEvent(w, u)
  <2>1. PICK event \in Events, near \in Nearness, course \in Courses, force \in BOOLEAN :
          Goes(w, [pc |-> IF force THEN "commit" ELSE "fatigue", user |-> u, at |-> now, force |-> force,
                   card |-> Card(event, near, <<u, course>> \in struggling)])
    BY <1>2 DEF DispatchEvent
  <2> DEFINE card == Card(event, near, <<u, course>> \in struggling)
             next == [pc |-> IF force THEN "commit" ELSE "fatigue", user |-> u, at |-> now, force |-> force, card |-> card]
  <2>2. card \in CardKind /\ CardFits(card)
    <3>1. (<<u, course>> \in struggling) \in BOOLEAN
      OBVIOUS
    <3> QED
      BY <3>1, CardsAreKinds
  <2>3. now \in Moments
    BY DEF Typed, RestTyped
  <2> HIDE DEF card
  <2>4. next \in PushJob /\ next.card = card /\ (next.pc = "commit" => next.force)
    BY <2>2, <2>3 DEF PushJob
  <2>5. Going(w, next)
    BY <2>1, <2>2, <2>4 DEF Going, Shaped, PushShape, card
  <2>6. UNCHANGED <<rows, struggling, now, wanted, done>>
    BY <1>2 DEF DispatchEvent
  <2> HIDE DEF next
  <2> QED
    BY <1>1, <2>5, <2>6 DEF Does, SameTable, Typed, RestTyped
<1>3. CASE MarkIntervention(w, u)
  <2>1. PICK id \in Known(u), flag \in {"dismissed", "acted"} :
          /\ Goes(w, [pc |-> "find", user |-> u, id |-> id, flag |-> flag])
          /\ wanted' = IF flag = "dismissed" THEN wanted \cup {<<u, id>>} ELSE wanted
    BY <1>3 DEF MarkIntervention
  <2> DEFINE next == [pc |-> "find", user |-> u, id |-> id, flag |-> flag]
  <2>2. MarkShape(next) /\ next.pc = "find"
    BY DEF MarkShape, Flags
  <2>3. Going(w, next)
    BY <2>1, <2>2 DEF Going, Shaped
  <2>4. UNCHANGED <<rows, struggling, now, done>>
    BY <1>3 DEF MarkIntervention
  <2>5. \A pair \in wanted' : pair[1] \in Students
    BY <2>1 DEF Typed, RestTyped
  <2> HIDE DEF next
  <2> QED
    BY <1>1, <2>3, <2>4, <2>5 DEF Does, SameTable, Typed, RestTyped
<1> QED
  BY <1>2, <1>3

LEMMA ServeDoes ==
    ASSUME Typed, NEW w \in Workers, Serve(w)
    PROVE  Does /\ RestTyped'
<1> DEFINE j == job[w]
<1>1. Shaped(j) /\ Shaped(Idle) /\ Idle.pc = "idle"
  BY DEF Typed, JobsTyped, Shaped, Idle
<1>2. ASSUME UNCHANGED <<struggling, now, requests, wanted, done>> PROVE RestTyped'
  BY <1>2 DEF Typed, RestTyped
<1>3. ASSUME NEW next, Goes(w, next), Shaped(next), next.pc # "commit", rows' = rows PROVE Does
  BY <1>3 DEF Does, Going, SameTable
<1>4. Marking(j) => MarkShape(j)
  BY <1>1, Shapes
<1>5. j.pc \in {"fatigue", "budget", "commit"} => PushShape(j)
  BY <1>1, Shapes
<1>6. CASE CheckFatigue(w)
  <2>1. Goes(w, Idle) \/ Goes(w, [j EXCEPT !.pc = "budget"])
    BY <1>6 DEF CheckFatigue
  <2>2. rows' = rows /\ UNCHANGED <<struggling, now, requests, wanted, done>>
    BY <1>6 DEF CheckFatigue
  <2>3. PushShape(j)
    BY <1>5, <1>6 DEF CheckFatigue
  <2> HIDE DEF j
  <2>4. [j EXCEPT !.pc = "budget"] \in PushJob /\ [j EXCEPT !.pc = "budget"].card = j.card /\ [j EXCEPT !.pc = "budget"].pc = "budget"
    BY <2>3 DEF PushShape, PushJob
  <2>5. Shaped([j EXCEPT !.pc = "budget"])
    BY <2>3, <2>4 DEF Shaped, PushShape
  <2> QED
    BY <1>1, <1>2, <1>3, <2>1, <2>2, <2>4, <2>5
<1>7. CASE CheckBudget(w)
  <2> DEFINE next == [j EXCEPT !.pc = "commit"]
  <2>1. \/ Goes(w, Idle)
        \/ Goes(w, next) /\ ~ Capped(j.user, j.at, j.card) /\ ~ Cooling(j.user, j.at, j.card)
    BY <1>7 DEF CheckBudget
  <2>2. rows' = rows /\ UNCHANGED <<struggling, now, requests, wanted, done>>
    BY <1>7 DEF CheckBudget
  <2>3. PushShape(j) /\ j.pc = "budget"
    BY <1>5, <1>7 DEF CheckBudget
  <2> HIDE DEF j
  <2>4. /\ next \in PushJob /\ next.card = j.card /\ next.pc = "commit"
        /\ next.user = j.user /\ next.at = j.at /\ next.force = j.force
    BY <2>3 DEF PushShape, PushJob
  <2>5. PushShape(next)
    BY <2>3, <2>4 DEF PushShape
  <2>6. CASE Goes(w, Idle)
    BY <1>1, <1>2, <1>3, <2>2, <2>6
  <2>7. CASE Goes(w, next) /\ ~ Capped(j.user, j.at, j.card) /\ ~ Cooling(j.user, j.at, j.card)
    <3> HIDE DEF next
    <3>1. CASE next.force
      BY <1>2, <2>2, <2>5, <2>7, <3>1 DEF Does, Going, Shaped, SameTable
    <3>2. CASE ~ next.force
      BY <1>2, <2>2, <2>4, <2>5, <2>7, <3>2 DEF Does, Passing
    <3> QED
      BY <3>1, <3>2
  <2> QED
    BY <2>1, <2>6, <2>7
<1>8. CASE CommitPush(w)
  BY <1>2, <1>5, <1>8 DEF CommitPush, Does, Pushing
<1>9. CASE FindRow(w)
  <2>1. PICK to \in {"update", "insert"} : Goes(w, [j EXCEPT !.pc = to])
    BY <1>9 DEF FindRow
  <2>2. rows' = rows /\ UNCHANGED <<struggling, now, requests, wanted, done>>
    BY <1>9 DEF FindRow
  <2>3. MarkShape(j)
    BY <1>4, <1>9 DEF FindRow, Marking
  <2> HIDE DEF j
  <2>4. MarkShape([j EXCEPT !.pc = to]) /\ [j EXCEPT !.pc = to].pc = to
    BY <2>3 DEF MarkShape
  <2> QED
    BY <1>2, <1>3, <2>1, <2>2, <2>4 DEF Shaped
<1>10. CASE UpdateRow(w)
  <2>1. /\ rows' = [rows EXCEPT ![j.id] = Updated(@, j.flag)]
        /\ done' = done \cup {[user |-> j.user, id |-> j.id, flag |-> j.flag]}
        /\ Goes(w, Idle) /\ UNCHANGED <<struggling, now, requests, wanted>> /\ j.pc = "update"
    BY <1>10 DEF UpdateRow, Answered
  <2>2. MarkShape(j)
    BY <1>4, <2>1 DEF Marking
  <2> HIDE DEF j
  <2>3. RestTyped'
    BY <2>1, <2>2 DEF Typed, RestTyped, MarkShape
  <2>4. ASSUME NEW id \in DOMAIN rows
        PROVE  /\ rows'[id].user = rows[id].user /\ rows'[id].card = rows[id].card /\ rows'[id].push = rows[id].push
               /\ rows'[id].force = rows[id].force /\ rows'[id].at = rows[id].at /\ rows'[id] \in RowRec
    <3>1. rows[id] \in RowRec
      BY DEF Typed, RowsTyped
    <3>2. rows'[id] \in {rows[id], [rows[id] EXCEPT !.dismissed = TRUE], [rows[id] EXCEPT !.acted = TRUE]}
      BY <2>1 DEF Updated
    <3> QED
      BY <3>1, <3>2 DEF RowRec
  <2>5. Flagged
    BY <2>1, <2>4 DEF Flagged
  <2> QED
    BY <1>1, <2>1, <2>3, <2>5 DEF Does, Going
<1>11. CASE InsertRow(w)
  <2>1. MarkShape(j) /\ UNCHANGED <<struggling, now, requests, wanted>>
    BY <1>4, <1>11 DEF InsertRow, Marking
  <2>2. CASE j.id \in DOMAIN rows
    <3>1. Goes(w, [j EXCEPT !.pc = "conflict"]) /\ UNCHANGED <<rows, done>>
      BY <1>11, <2>2 DEF InsertRow
    <3> HIDE DEF j
    <3>2. MarkShape([j EXCEPT !.pc = "conflict"]) /\ [j EXCEPT !.pc = "conflict"].pc = "conflict"
      BY <2>1 DEF MarkShape
    <3> QED
      BY <1>2, <1>3, <2>1, <3>1, <3>2 DEF Shaped
  <2>3. CASE j.id \notin DOMAIN rows
    <3>1. /\ Insert(j.id, Marked(j)) /\ Goes(w, Idle)
          /\ done' = done \cup {[user |-> j.user, id |-> j.id, flag |-> j.flag]}
      BY <1>11, <2>3 DEF InsertRow, Answered
    <3> HIDE DEF j
    <3>2. RestTyped'
      BY <2>1, <3>1 DEF Typed, RestTyped, MarkShape
    <3>3. now \in Moments
      BY DEF Typed, RestTyped
    <3>4. Marked(j) \in RowRec /\ CardFits(Marked(j).card) /\ ~ Marked(j).push
      BY <2>1, <3>3 DEF Marked, RowRec, CardKind, NoCard, CardFits, MarkShape
    <3> QED
      BY <1>1, <2>3, <3>1, <3>2, <3>4 DEF Does, Going, Noted
  <2> QED
    BY <2>2, <2>3
<1>12. CASE Fail(w)
  BY <1>1, <1>2, <1>3, <1>12 DEF Fail
<1> QED
  BY <1>6, <1>7, <1>8, <1>9, <1>10, <1>11, <1>12 DEF Serve

LEMMA TypedStep == Typed /\ [Next]_vars => Typed' /\ Does
<1> SUFFICES ASSUME Typed, [Next]_vars PROVE Typed' /\ Does
  OBVIOUS
<1>1. Does /\ RestTyped'
  <2>1. CASE \E w \in Workers : Serve(w)
    BY <2>1, ServeDoes
  <2>2. CASE \E w \in Workers, u \in Students : DispatchEvent(w, u) \/ MarkIntervention(w, u)
    BY <2>2, RequestDoes
  <2>3. ASSUME NEW u \in Students, NEW course \in Courses, LearningSignal(u, course)
        PROVE  Does /\ RestTyped'
    BY <2>3 DEF LearningSignal, Does, Still, Typed, RestTyped
  <2>4. CASE TimePasses
    BY <2>4 DEF TimePasses, Does, Still, Typed, RestTyped
  <2>5. CASE UNCHANGED vars
    BY <2>5 DEF vars, Does, Still, Typed, RestTyped
  <2> QED
    BY <2>1, <2>2, <2>3, <2>4, <2>5 DEF Next
<1>2. Inv'
  BY NextInv DEF Typed
<1>3. RowsTyped /\ JobsTyped /\ IsFiniteSet(DOMAIN rows) /\ Shaped(Idle)
  BY DEF Typed, Shaped
<1>4. RowsTyped' /\ JobsTyped' /\ IsFiniteSet(DOMAIN rows')
  <2>1. CASE Still
    BY <1>3, <2>1 DEF Still, RowsTyped, JobsTyped
  <2>2. ASSUME NEW w \in Workers, NEW next, Passing(w, next)
        PROVE  RowsTyped' /\ JobsTyped' /\ IsFiniteSet(DOMAIN rows')
    BY <1>3, <2>2, OneGoes DEF Passing, Shaped, RowsTyped
  <2>3. SameTable \/ Flagged \/ Noted => RowsTyped' /\ IsFiniteSet(DOMAIN rows')
    <3>1. SameTable => RowsTyped' /\ IsFiniteSet(DOMAIN rows')
      BY <1>3 DEF SameTable, RowsTyped
    <3>2. Flagged => RowsTyped' /\ IsFiniteSet(DOMAIN rows')
      BY <1>3 DEF Flagged, RowsTyped, CardFits
    <3>3. Noted => RowsTyped' /\ IsFiniteSet(DOMAIN rows')
      BY RowIn DEF Noted
    <3> QED
      BY <3>1, <3>2, <3>3
  <2>4. ASSUME NEW w \in Workers, NEW next, Going(w, next), SameTable \/ Flagged \/ Noted
        PROVE  RowsTyped' /\ JobsTyped' /\ IsFiniteSet(DOMAIN rows')
    BY <2>3, <2>4, OneGoes DEF Going
  <2>5. ASSUME NEW w \in Workers, Pushing(w)
        PROVE  RowsTyped' /\ JobsTyped' /\ IsFiniteSet(DOMAIN rows')
    <3>1. JobsTyped'
      BY <1>3, <2>5, OneGoes DEF Pushing
    <3>2. Pushed(job[w]) \in RowRec /\ CardFits(Pushed(job[w]).card)
      BY <2>5 DEF Pushing, PushShape, PushJob, Pushed, RowRec
    <3> QED
      BY <2>5, <3>1, <3>2, RowIn DEF Pushing
  <2> QED
    BY <1>1, <2>1, <2>2, <2>4, <2>5 DEF Does
<1> QED
  BY <1>1, <1>2, <1>4 DEF Typed

(* Rows, requests and histories keep their types.                          *)
THEOREM TypeCorrect == Spec => []TypeOK
BY TypedInit, TypedStep, TypedIsTypeOK, PTL DEF Spec

-----------------------------------------------------------------------------
(* The governor's two limits are of one kind: of the pushes to a student   *)
(* that a limit is about, those within a window of its length.  Counted    *)
(* are those in the table and those that are past the checks and not yet   *)
(* in it; the window may begin at any time.                                *)
Limits == {"cool_off", "daily_cap"}
Limited(limit, card) == IF limit = "cool_off" THEN ~ card.imminent ELSE card.high
Hours(limit) == IF limit = "cool_off" THEN CoolOff ELSE Day
Grant(limit) == IF limit = "cool_off" THEN 0 ELSE MaxDaily - 1
Falls(limit, at, from) == from <= at /\ at <= from + Hours(limit)
Given(limit, u, from) ==
    {id \in Unsolicited(u) : Limited(limit, rows[id].card) /\ Falls(limit, rows[id].at, from)}
Waits(limit, u, from, j) ==
    j.pc = "commit" /\ ~ j.force /\ j.user = u /\ Limited(limit, j.card) /\ Falls(limit, j.at, from)
Waiting(limit, u, from) == {w \in Workers : Waits(limit, u, from, job[w])}

(* What passes the checks finds no more in the window than the limit       *)
(* grants, and with it wait at most all the others: the rest is moved from *)
(* the workers into the table.                                             *)
Governed ==
    \A limit \in Limits, u \in Students, from \in Nat :
        Cardinality(Given(limit, u, from)) + Cardinality(Waiting(limit, u, from))
            <= Grant(limit) + Cardinality(Workers)

(* The numbers of which that speaks.                                       *)
LEMMA GovernorCounts ==
    ASSUME Typed, NEW limit \in Limits, NEW u \in Students, NEW from \in Nat
    PROVE  /\ IsFiniteSet(Given(limit, u, from)) /\ Cardinality(Given(limit, u, from)) \in Nat
           /\ IsFiniteSet(Waiting(limit, u, from)) /\ Cardinality(Waiting(limit, u, from)) \in Nat
           /\ Cardinality(Waiting(limit, u, from)) <= Cardinality(Workers)
           /\ Cardinality(Workers) \in Nat /\ Grant(limit) \in Nat /\ Hours(limit) \in Nat
<1>1. Given(limit, u, from) \subseteq DOMAIN rows /\ Waiting(limit, u, from) \subseteq Workers
  BY DEF Given, Unsolicited, RowsOf, Waiting
<1>2. IsFiniteSet(DOMAIN rows) /\ IsFiniteSet(Workers)
  BY InterventionsAssumption DEF Typed
<1>3. IsFiniteSet(Given(limit, u, from)) /\ IsFiniteSet(Waiting(limit, u, from))
      /\ Cardinality(Waiting(limit, u, from)) <= Cardinality(Workers)
  BY <1>1, <1>2, FS_Subset
<1>4. Grant(limit) \in Nat /\ Hours(limit) \in Nat
  BY InterventionsAssumption DEF Grant, Hours, Limits, Day
<1> QED
  BY <1>2, <1>3, <1>4, FS_CardinalityType

(* What a step does to the pushes of one window.                           *)
PaceKept(limit, u, from) ==
    Given(limit, u, from)' = Given(limit, u, from) /\ Waiting(limit, u, from)' \subseteq Waiting(limit, u, from)
PaceGranted(limit, u, from) ==
    Given(limit, u, from)' = Given(limit, u, from) /\ Cardinality(Given(limit, u, from)) <= Grant(limit)
PaceSpent(limit, u, from) ==
    \E w \in Waiting(limit, u, from) : \E id :
        /\ Given(limit, u, from)' = Given(limit, u, from) \cup {id}
        /\ Waiting(limit, u, from)' = Waiting(limit, u, from) \ {w}

(* A table that is the same but for flags and for rows that are no pushes. *)
LEMMA SameGiven ==
    ASSUME Typed, Typed', SameTable \/ Flagged \/ Noted, NEW limit, NEW u, NEW from
    PROVE  Given(limit, u, from)' = Given(limit, u, from)
<1>1. CASE SameTable
  BY <1>1 DEF SameTable, Given, Unsolicited, RowsOf
<1>2. CASE Flagged
  BY <1>2 DEF Flagged, Given, Unsolicited, RowsOf
<1>3. CASE Noted
  <2>1. PICK id, row : row \in RowRec /\ CardFits(row.card) /\ ~ row.push /\ id \notin DOMAIN rows /\ Insert(id, row)
    BY <1>3 DEF Noted
  <2>2. /\ DOMAIN rows' = DOMAIN rows \cup {id} /\ rows'[id] = row
        /\ \A key \in DOMAIN rows : rows'[key] = rows[key]
    BY <2>1, RowIn
  <2> QED
    BY <2>1, <2>2 DEF Given, Unsolicited, RowsOf
<1> QED
  BY <1>1, <1>2, <1>3

(* What passes the checks finds no more in the window than is granted.     *)
LEMMA PassedGrants ==
    ASSUME Typed, NEW limit \in Limits, NEW u \in Students, NEW from \in Nat, NEW j, PushShape(j),
           Waits(limit, u, from, j), ~ Capped(j.user, j.at, j.card), ~ Cooling(j.user, j.at, j.card)
    PROVE  Cardinality(Given(limit, u, from)) <= Grant(limit)
<1>1. /\ Moments \subseteq Nat /\ CoolOff \in Nat /\ MaxDaily \in Nat \ {0}
      /\ \A id \in DOMAIN rows : rows[id] \in RowRec /\ CardFits(rows[id].card)
      /\ j.at \in Moments /\ j.user = u /\ CardFits(j.card)
  BY InterventionsAssumption DEF Typed, RowsTyped, PushShape, PushJob, Waits
<1>2. ASSUME NEW id \in Given(limit, u, from)
      PROVE  /\ id \in RowsOf(u) /\ Limited(limit, rows[id].card)
             /\ rows[id].at + Hours(limit) >= j.at /\ rows[id].at \in Nat
  <2>1. id \in RowsOf(u) /\ id \in DOMAIN rows /\ Limited(limit, rows[id].card) /\ from <= rows[id].at
    BY DEF Given, Unsolicited, RowsOf, Falls
  <2>2. rows[id].at \in Nat /\ j.at \in Nat /\ Hours(limit) \in Nat
    BY <1>1, <2>1, GovernorCounts DEF RowRec
  <2>3. j.at <= from + Hours(limit)
    BY DEF Waits, Falls
  <2> QED
    BY <2>1, <2>2, <2>3
<1>3. CASE limit = "cool_off"
  <2>1. ~ j.card.imminent
    BY <1>3 DEF Waits, Limited
  <2>2. Given(limit, u, from) = {}
    BY <1>1, <1>2, <1>3, <2>1 DEF Cooling, Hours
  <2> QED
    BY <1>3, <2>2, FS_EmptySet DEF Grant
<1>4. CASE limit = "daily_cap"
  <2> DEFINE counted == {id \in RowsOf(u) : rows[id].card.counted /\ rows[id].at + Day >= j.at}
  <2>1. j.card.high
    BY <1>4 DEF Waits, Limited
  <2>2. ~ (Cardinality(counted) >= MaxDaily)
    BY <1>1, <2>1 DEF Capped
  <2>3. Given(limit, u, from) \subseteq counted
    <3>1. ASSUME NEW id \in Given(limit, u, from) PROVE rows[id].card.counted
      BY <1>1, <1>2, <1>4 DEF Limited, CardFits, RowsOf
    <3> QED
      BY <1>2, <1>4, <3>1 DEF Hours
  <2>4. IsFiniteSet(counted)
    <3>1. counted \subseteq DOMAIN rows /\ IsFiniteSet(DOMAIN rows)
      BY DEF RowsOf, Typed
    <3> QED
      BY <3>1, FS_Subset
  <2> HIDE DEF counted
  <2>5. Cardinality(Given(limit, u, from)) <= Cardinality(counted)
    BY <2>3, <2>4, FS_Subset
  <2>6. Cardinality(counted) \in Nat /\ Cardinality(Given(limit, u, from)) \in Nat
    BY <2>4, FS_CardinalityType, GovernorCounts
  <2>7. Grant(limit) = MaxDaily - 1
    BY <1>4 DEF Grant
  <2> QED
    BY <1>1, <2>2, <2>5, <2>6, <2>7
<1> QED
  BY <1>3, <1>4 DEF Limits

(* A push that is put into the table was waiting before.                   *)
LEMMA PushSpends ==
    ASSUME Typed, Typed', NEW limit \in Limits, NEW u \in Students, NEW from \in Nat, NEW w \in Workers, Pushing(w)
    PROVE  PaceKept(limit, u, from) \/ PaceSpent(limit, u, from)
<1> DEFINE j == job[w]
<1>1. PICK id : id \notin DOMAIN rows /\ Insert(id, Pushed(j))
  BY DEF Pushing
<1>2. PushShape(j) /\ j.pc = "commit" /\ Goes(w, Idle) /\ j.force \in BOOLEAN
  BY DEF Pushing, PushShape, PushJob
<1>3. job'[w] = Idle /\ \A v \in Workers \ {w} : job'[v] = job[v]
  BY <1>2, OneGoes
<1>4. ~ Waits(limit, u, from, Idle)
  BY DEF Waits, Idle
<1>5. Waiting(limit, u, from)' = Waiting(limit, u, from) \ {w}
  BY <1>3, <1>4 DEF Waiting
<1> HIDE DEF j
<1>6. Pushed(j) \in RowRec /\ CardFits(Pushed(j).card)
  BY <1>2 DEF PushShape, PushJob, Pushed, RowRec
<1>7. /\ DOMAIN rows' = DOMAIN rows \cup {id} /\ rows'[id] = Pushed(j)
      /\ \A key \in DOMAIN rows : rows'[key] = rows[key]
  BY <1>1, <1>6, RowIn
<1>8. /\ rows'[id].user = j.user /\ rows'[id].push /\ rows'[id].force = j.force
      /\ rows'[id].card = j.card /\ rows'[id].at = j.at
  BY <1>7 DEF Pushed
<1>9. Given(limit, u, from)' = Given(limit, u, from) \cup (IF Waits(limit, u, from, j) THEN {id} ELSE {})
  <2>1. \A key \in DOMAIN rows : key \in Given(limit, u, from)' <=> key \in Given(limit, u, from)
    BY <1>7 DEF Given, Unsolicited, RowsOf
  <2>2. id \in Given(limit, u, from)' <=> Waits(limit, u, from, j)
    BY <1>2, <1>7, <1>8 DEF Given, Unsolicited, RowsOf, Waits
  <2>3. Given(limit, u, from)' \subseteq DOMAIN rows \cup {id} /\ Given(limit, u, from) \subseteq DOMAIN rows
    BY <1>7 DEF Given, Unsolicited, RowsOf
  <2> QED
    BY <2>1, <2>2, <2>3
<1>10. CASE Waits(limit, u, from, j)
  <2>1. w \in Waiting(limit, u, from)
    BY <1>10 DEF Waiting, j
  <2> QED
    BY <1>5, <1>9, <1>10, <2>1 DEF PaceSpent
<1>11. CASE ~ Waits(limit, u, from, j)
  BY <1>5, <1>9, <1>11 DEF PaceKept
<1> QED
  BY <1>10, <1>11

LEMMA Paces ==
    ASSUME Typed, Typed', Does, NEW limit \in Limits, NEW u \in Students, NEW from \in Nat
    PROVE  PaceKept(limit, u, from) \/ PaceGranted(limit, u, from) \/ PaceSpent(limit, u, from)
<1>1. CASE Still
  BY <1>1 DEF Still, PaceKept, Given, Unsolicited, RowsOf, Waiting
<1>2. ASSUME NEW w \in Workers, NEW next, Goes(w, next), ~ Waits(limit, u, from, next), SameTable \/ Flagged \/ Noted
      PROVE  PaceKept(limit, u, from)
  <2>1. job'[w] = next /\ \A v \in Workers \ {w} : job'[v] = job[v]
    BY <1>2, OneGoes
  <2>2. Waiting(limit, u, from)' \subseteq Waiting(limit, u, from)
    BY <1>2, <2>1 DEF Waiting
  <2> QED
    BY <1>2, <2>2, SameGiven DEF PaceKept
<1>3. ASSUME NEW w \in Workers, NEW next, Passing(w, next)
      PROVE  PaceKept(limit, u, from) \/ PaceGranted(limit, u, from)
  <2>1. Goes(w, next) /\ SameTable
    BY <1>3 DEF Passing, SameTable
  <2>2. CASE Waits(limit, u, from, next)
    BY <1>3, <2>1, <2>2, PassedGrants, SameGiven DEF Passing, PaceGranted
  <2>3. CASE ~ Waits(limit, u, from, next)
    BY <1>2, <2>1, <2>3
  <2> QED
    BY <2>2, <2>3
<1>4. ASSUME NEW w \in Workers, NEW next, Going(w, next), SameTable \/ Flagged \/ Noted
      PROVE  PaceKept(limit, u, from)
  <2>1. ~ Waits(limit, u, from, next)
    BY <1>4 DEF Going, Waits
  <2> QED
    BY <1>2, <1>4, <2>1 DEF Going
<1> QED
  BY <1>1, <1>3, <1>4, PushSpends DEF Does

LEMMA GovernedStep ==
    ASSUME Typed, Typed', Does, Governed
    PROVE  Governed'
<1> SUFFICES ASSUME NEW limit \in Limits, NEW u \in Students, NEW from \in Nat
             PROVE  Cardinality(Given(limit, u, from)') + Cardinality(Waiting(limit, u, from)')
                      <= Grant(limit) + Cardinality(Workers)
  BY DEF Governed
<1> DEFINE G == Given(limit, u, from)
           W == Waiting(limit, u, from)
           GG == Given(limit, u, from)'
           WW == Waiting(limit, u, from)'
           g == Cardinality(G)
           w == Cardinality(W)
           gg == Cardinality(GG)
           ww == Cardinality(WW)
           n == Cardinality(Workers)
           grant == Grant(limit)
<1>1. IsFiniteSet(G) /\ IsFiniteSet(W) /\ g \in Nat /\ w \in Nat /\ n \in Nat /\ grant \in Nat
  BY GovernorCounts
<1>2. IsFiniteSet(Workers) /\ WW \subseteq Workers
  BY InterventionsAssumption DEF Waiting
<1>3. g + w <= grant + n
  BY DEF Governed
<1>4. PaceKept(limit, u, from) \/ PaceGranted(limit, u, from) \/ PaceSpent(limit, u, from)
  BY Paces
<1>5. IsFiniteSet(WW) /\ ww <= n /\ ww \in Nat
  <2>1. IsFiniteSet(WW) /\ ww <= n
    BY <1>2, FS_Subset
  <2> QED
    BY <2>1, FS_CardinalityType
<1>6. ASSUME PaceKept(limit, u, from) PROVE gg + ww <= grant + n
  <2>1. gg <= g /\ gg \in Nat
    BY <1>1, <1>6 DEF PaceKept
  <2>2. ww <= w
    <3>1. WW \subseteq W
      BY <1>6 DEF PaceKept
    <3> QED
      BY <1>1, <3>1, FS_Subset
  <2> HIDE DEF g, w, gg, ww, n, grant
  <2> QED
    BY <1>1, <1>3, <1>5, <2>1, <2>2
<1>7. ASSUME PaceGranted(limit, u, from) PROVE gg + ww <= grant + n
  <2>1. gg <= grant /\ gg \in Nat
    BY <1>1, <1>7 DEF PaceGranted
  <2> HIDE DEF g, w, gg, ww, n, grant
  <2> QED
    BY <1>1, <1>5, <2>1
<1>8. ASSUME PaceSpent(limit, u, from) PROVE gg + ww <= grant + n
  <2>0. PICK v \in W : \E id : GG = G \cup {id} /\ WW = W \ {v}
    BY <1>8 DEF PaceSpent
  <2>1. PICK id : GG = G \cup {id} /\ WW = W \ {v}
    BY <2>0
  <2> HIDE DEF G, W, GG, WW
  <2>2. gg = g \/ gg = g + 1
    BY <1>1, <2>1, FS_AddElement
  <2>3. ww = w - 1
    BY <1>1, <2>1, FS_RemoveElement
  <2>4. gg <= g + 1 /\ gg \in Nat /\ ww + 1 <= w
    BY <1>1, <2>2, <2>3
  <2> HIDE DEF g, w, gg, ww, n, grant
  <2> QED
    BY <1>1, <1>3, <1>5, <2>4
<1> QED
  BY <1>4, <1>6, <1>7, <1>8

LEMMA GovernedInit == Init => Governed
<1> SUFFICES ASSUME Init, NEW limit \in Limits, NEW u \in Students, NEW from \in Nat
             PROVE  Cardinality(Given(limit, u, from)) + Cardinality(Waiting(limit, u, from))
                      <= Grant(limit) + Cardinality(Workers)
  BY DEF Governed
<1>1. Given(limit, u, from) = {} /\ Waiting(limit, u, from) = {}
  BY DEF Init, Given, Unsolicited, RowsOf, Waiting, Waits, Idle
<1>2. Cardinality({}) = 0
  BY FS_EmptySet
<1>3. Grant(limit) \in Nat /\ Cardinality(Workers) \in Nat
  BY TypedInit, GovernorCounts
<1> QED
  BY <1>1, <1>2, <1>3

(* Requests that overlap can make a student get one push more than the     *)
(* governor allows for every worker there is, and no more: one per worker  *)
(* within the cool-off, and fewer than MaxDaily and one per worker of high *)
(* priority within a day, for any number of requests and workers.          *)
THEOREM OverlapIsTheLimit == Spec => []GovernedUpToOverlap
<1>1. Typed /\ Governed => GovernedUpToOverlap
  <2> SUFFICES ASSUME Typed, Governed PROVE GovernedUpToOverlap
    OBVIOUS
  <2>1. ASSUME NEW id \in DOMAIN rows PROVE rows[id].at \in Nat
    BY InterventionsAssumption DEF Typed, RowsTyped, RowRec
  <2>2. ASSUME NEW limit \in Limits, NEW u \in Students, NEW from \in Nat
        PROVE  Cardinality(Given(limit, u, from)) <= Grant(limit) + Cardinality(Workers)
    BY GovernorCounts DEF Governed
  <2>3. CoolOffUpToOverlap
    <3> SUFFICES ASSUME NEW u \in Students,
                        NEW id \in {i \in Unsolicited(u) : ~ rows[i].card.imminent}
                 PROVE  Cardinality(Within({i \in Unsolicited(u) : ~ rows[i].card.imminent}, id, CoolOff))
                          <= Cardinality(Workers)
      BY DEF CoolOffUpToOverlap
    <3>1. rows[id].at \in Nat
      BY <2>1 DEF Unsolicited, RowsOf
    <3>2. Within({i \in Unsolicited(u) : ~ rows[i].card.imminent}, id, CoolOff) = Given("cool_off", u, rows[id].at)
      BY DEF Within, Given, Limited, Falls, Hours
    <3>3. Grant("cool_off") = 0 /\ Cardinality(Workers) \in Nat
      BY <3>1, GovernorCounts DEF Grant, Limits
    <3> QED
      BY <2>2, <3>1, <3>2, <3>3 DEF Limits
  <2>4. DailyCapUpToOverlap
    <3> SUFFICES ASSUME NEW u \in Students,
                        NEW id \in {i \in Unsolicited(u) : rows[i].card.high}
                 PROVE  Cardinality(Within({i \in Unsolicited(u) : rows[i].card.high}, id, Day))
                          < MaxDaily + Cardinality(Workers)
      BY DEF DailyCapUpToOverlap
    <3>1. rows[id].at \in Nat
      BY <2>1 DEF Unsolicited, RowsOf
    <3>2. Within({i \in Unsolicited(u) : rows[i].card.high}, id, Day) = Given("daily_cap", u, rows[id].at)
      BY DEF Within, Given, Limited, Falls, Hours
    <3> DEFINE g == Cardinality(Given("daily_cap", u, rows[id].at))
               n == Cardinality(Workers)
    <3>3. Grant("daily_cap") = MaxDaily - 1 /\ n \in Nat /\ g \in Nat /\ MaxDaily \in Nat
      BY <3>1, GovernorCounts, InterventionsAssumption DEF Grant, Limits
    <3>4. g <= Grant("daily_cap") + n
      BY <2>2, <3>1 DEF Limits
    <3> HIDE DEF g, n
    <3>5. g < MaxDaily + n
      BY <3>3, <3>4
    <3> QED
      BY <3>2, <3>5 DEF g, n
  <2> QED
    BY <2>3, <2>4 DEF GovernedUpToOverlap
<1>2. Typed /\ Governed /\ [Next]_vars => (Typed /\ Governed)'
  BY TypedStep, GovernedStep
<1> QED
  BY <1>1, <1>2, TypedInit, GovernedInit, PTL DEF Spec
==============================================================================
