---------------------------- MODULE Interventions ----------------------------
(***************************************************************************)
(* The proactive engine of the academic service,                           *)
(* services/proactive_engine.py: the "today" timeline of a student, the    *)
(* pushes that the governor lets through, and the student's dismissals of  *)
(* and actions on both, all kept in one table, proactive_interventions.    *)
(*                                                                         *)
(* Every endpoint is a plain function, so FastAPI runs each request in a   *)
(* thread of its own with a database session of its own: a request is a    *)
(* worker that goes from query to query, and other requests go on between  *)
(* two of its queries.  A request may fail at any of them without having   *)
(* changed anything, for its changes are flushed by the commit that ends   *)
(* it.  Every student is enrolled in every course.                         *)
(*                                                                         *)
(* The governor's cap and cool-off are two queries but one step here: both *)
(* only refuse, for the same captured time, and a row once there stays, so *)
(* what passes the one query and then the other would have passed both at  *)
(* the time of the first.                                                  *)
(***************************************************************************)
EXTENDS Naturals, FiniteSets, FiniteSetsExt

CONSTANTS
    Students, Courses, Workers,
    Slots,        \* the timetable: records [course, start, end], in hours
    Deadlines,    \* academic events: records [course, due], in hours
    Moments,      \* the hours at which anything happens
    CoolOff,      \* COOL_OFF_HOURS, 4
    MaxDaily,     \* MAX_DAILY_HIGH_PRIORITY, 2
    Fatigue,      \* FATIGUE_DISMISSAL_THRESHOLD, 3
    MaxRequests   \* bound on the requests

ASSUME InterventionsAssumption ==
    /\ Moments \subseteq Nat
    /\ \A slot \in Slots : slot.course \in Courses /\ slot.start \in Nat /\ slot.end \in Nat
    /\ \A deadline \in Deadlines : deadline.course \in Courses /\ deadline.due \in Nat
    /\ CoolOff \in Nat /\ MaxDaily \in Nat \ {0} /\ Fatigue \in Nat \ {0}
    /\ MaxRequests \in Nat /\ IsFiniteSet(Workers)

Day == 24

VARIABLES
    rows,        \* proactive_interventions, by primary key
    job,         \* per worker, the request it serves
    struggling,  \* <<student, course>> with a weak topic and an open gap
    now,         \* the hour
    requests,    \* history: how many requests there were
    wanted,      \* history: <<student, id>> of the dismissals requested
    done         \* history: [user, id, flag] answered with success

vars == <<rows, job, struggling, now, requests, wanted, done>>

Idle == [pc |-> "idle"]

Init ==
    /\ rows = [id \in {} |-> Idle] /\ job = [w \in Workers |-> Idle]
    /\ struggling = {} /\ now \in Moments
    /\ requests = 0 /\ wanted = {} /\ done = {}

-----------------------------------------------------------------------------
(* The timeline.  The id of a card says what it is about and, for a class, *)
(* on which day it is shown; only a gap's id is of one student.            *)
Today == now \div Day

ClassCard(u) ==
    LET upcoming == {slot \in Slots : slot.start > now}
        next == CHOOSE slot \in upcoming : \A other \in upcoming : slot.start <= other.start
        prepare == next.start <= now + 1 /\ <<u, next.course>> \in struggling
    IN IF upcoming = {} THEN {}
       ELSE {<<IF prepare THEN "preclass" ELSE "countdown", next.course, Today>>}

FollowUps == {<<"postclass", slot.course, Today>> :
                slot \in {s \in Slots : s.end <= now /\ s.start \div Day = Today}}

GapCards(u) == {<<"gap", pair[2], u>> : pair \in {p \in struggling : p[1] = u}}

DeadlineCards == {<<"event", deadline.course, deadline.due>> :
                    deadline \in {d \in Deadlines : now <= d.due /\ d.due <= now + 2 * Day}}

Deck(u) == ClassCard(u) \cup FollowUps \cup GapCards(u) \cup DeadlineCards

(* Mutant: whoever dismissed it.                                           *)
HiddenForAll(u) == {id \in DOMAIN rows : rows[id].dismissed}

Hidden(u) == {id \in DOMAIN rows : rows[id].user = u /\ rows[id].dismissed}

Timeline(u) == Deck(u) \ Hidden(u)

-----------------------------------------------------------------------------
(* The card of an event: whether the governor counts the event towards the *)
(* daily cap, whether its priority is 1, and whether it is a class within  *)
(* 15 minutes.  How near the event is: at most 15 or 30 minutes, an hour   *)
(* or more for a class; for a deadline and a gap only "later" is not high. *)
Events == {"CLASS_APPROACHING", "CLASS_ENDED", "DEADLINE_APPROACHING", "GAP_DETECTED"}
Nearness == {"now", "soon", "hour", "later"}

Card(event, near, weak) ==
    [counted |-> event # "CLASS_ENDED",
     high |-> CASE event = "CLASS_APPROACHING" -> near \in {"now", "soon"} \/ (weak /\ near = "hour")
                [] event = "CLASS_ENDED" -> FALSE
                [] OTHER -> near # "later",
     imminent |-> event = "CLASS_APPROACHING" /\ near = "now"]

NoCard == [counted |-> FALSE, high |-> FALSE, imminent |-> FALSE]

RowsOf(u) == {id \in DOMAIN rows : rows[id].user = u}

(* The newest Fatigue rows; of equally old ones, any.                      *)
Newest(u) == {ids \in kSubset(Fatigue, RowsOf(u)) :
                \A id \in ids, other \in RowsOf(u) \ ids : rows[other].at <= rows[id].at}

Spurned(ids) == \A id \in ids : rows[id].dismissed /\ ~ rows[id].acted

FatigueBlocks(card) == ~ card.high

Capped(u, at, card) ==
    card.high /\ Cardinality({id \in RowsOf(u) : rows[id].card.counted /\ rows[id].at + Day >= at}) >= MaxDaily

(* Mutant: only what was delivered within the hour.                        *)
CoolingShort(u, at, card) ==
    /\ \E id \in RowsOf(u) : rows[id].at >= at
    /\ ~ card.imminent

Cooling(u, at, card) ==
    /\ \E id \in RowsOf(u) : rows[id].at + CoolOff >= at
    /\ ~ card.imminent

-----------------------------------------------------------------------------
(* A request arrives at a free worker.                                     *)
Arrives(w) == job[w] = Idle /\ requests < MaxRequests /\ requests' = requests + 1
Goes(w, next) == job' = [job EXCEPT ![w] = next]

DispatchEvent(w, u) ==
    /\ Arrives(w)
    /\ \E event \in Events, near \in Nearness, course \in Courses, force \in BOOLEAN :
         Goes(w, [pc |-> IF force THEN "commit" ELSE "fatigue", user |-> u, at |-> now, force |-> force,
                  card |-> Card(event, near, <<u, course>> \in struggling)])
    /\ UNCHANGED <<rows, struggling, now, wanted, done>>

CheckFatigue(w) ==
    /\ job[w].pc = "fatigue"
    /\ \/ /\ \E ids \in Newest(job[w].user) : Spurned(ids)
          /\ FatigueBlocks(job[w].card)
          /\ Goes(w, Idle)
       \/ /\ \/ Newest(job[w].user) = {} \/ ~ FatigueBlocks(job[w].card)
             \/ \E ids \in Newest(job[w].user) : ~ Spurned(ids)
          /\ Goes(w, [job[w] EXCEPT !.pc = "budget"])
    /\ UNCHANGED <<rows, struggling, now, requests, wanted, done>>

CheckBudget(w) ==
    /\ job[w].pc = "budget"
    /\ LET j == job[w]
       IN Goes(w, IF Capped(j.user, j.at, j.card) \/ Cooling(j.user, j.at, j.card)
                  THEN Idle ELSE [j EXCEPT !.pc = "commit"])
    /\ UNCHANGED <<rows, struggling, now, requests, wanted, done>>

(* The row of a push, and of a timeline card that is dismissed or acted on. *)
Pushed(j) == [user |-> j.user, card |-> j.card, push |-> TRUE, force |-> j.force,
              dismissed |-> FALSE, acted |-> FALSE, at |-> j.at]
Marked(j) == [user |-> j.user, card |-> NoCard, push |-> FALSE, force |-> FALSE,
              dismissed |-> j.flag = "dismissed", acted |-> j.flag = "acted", at |-> now]

Insert(id, row) == rows' = [key \in DOMAIN rows \cup {id} |-> IF key = id THEN row ELSE rows[key]]

(* A push has an id of its own, here the number of the pushes before it.   *)
PushId == <<"push", Cardinality({id \in DOMAIN rows : rows[id].push}), Day>>

CommitPush(w) ==
    /\ job[w].pc = "commit" /\ PushId \notin DOMAIN rows
    /\ Insert(PushId, Pushed(job[w]))
    /\ Goes(w, Idle)
    /\ UNCHANGED <<struggling, now, requests, wanted, done>>

-----------------------------------------------------------------------------
(* dismiss_intervention and act_on_intervention, for a card on the         *)
(* student's timeline or a push to the student.                            *)
Known(u) == Deck(u) \cup {id \in RowsOf(u) : rows[id].push}

MarkIntervention(w, u) ==
    /\ Arrives(w)
    /\ \E id \in Known(u), flag \in {"dismissed", "acted"} :
         /\ Goes(w, [pc |-> "find", user |-> u, id |-> id, flag |-> flag])
         /\ wanted' = IF flag = "dismissed" THEN wanted \cup {<<u, id>>} ELSE wanted
    /\ UNCHANGED <<rows, struggling, now, done>>

Found(u, id) == id \in RowsOf(u)

FindRow(w) ==
    /\ job[w].pc = "find"
    /\ Goes(w, [job[w] EXCEPT !.pc = IF Found(job[w].user, job[w].id) THEN "update" ELSE "insert"])
    /\ UNCHANGED <<rows, struggling, now, requests, wanted, done>>

Answered(j) == done' = done \cup {[user |-> j.user, id |-> j.id, flag |-> j.flag]}

(* Mutant: both flags are written, the other as it is for a new row.       *)
UpdatedWhole(row, flag) == [row EXCEPT !.dismissed = flag = "dismissed", !.acted = flag = "acted"]

(* Only the flag that was set is written.                                  *)
Updated(row, flag) == IF flag = "dismissed" THEN [row EXCEPT !.dismissed = TRUE]
                                            ELSE [row EXCEPT !.acted = TRUE]

UpdateRow(w) ==
    /\ job[w].pc = "update"
    /\ LET j == job[w]
       IN rows' = [rows EXCEPT ![j.id] = Updated(@, j.flag)] /\ Answered(j)
    /\ Goes(w, Idle)
    /\ UNCHANGED <<struggling, now, requests, wanted>>

(* The id alone is the primary key.                                        *)
InsertRow(w) ==
    /\ job[w].pc = "insert"
    /\ LET j == job[w]
       IN IF j.id \in DOMAIN rows
          THEN Goes(w, [j EXCEPT !.pc = "conflict"]) /\ UNCHANGED <<rows, done>>
          ELSE Insert(j.id, Marked(j)) /\ Answered(j) /\ Goes(w, Idle)
    /\ UNCHANGED <<struggling, now, requests, wanted>>

(* A request fails: at any query, or because of the key.                   *)
Fail(w) ==
    /\ job[w] # Idle /\ Goes(w, Idle)
    /\ UNCHANGED <<rows, struggling, now, requests, wanted, done>>

-----------------------------------------------------------------------------
(* What a student answers opens a gap or resolves it.                      *)
LearningSignal(u, course) ==
    /\ struggling' = IF <<u, course>> \in struggling THEN struggling \ {<<u, course>>}
                                                    ELSE struggling \cup {<<u, course>>}
    /\ UNCHANGED <<rows, job, now, requests, wanted, done>>

TimePasses ==
    /\ \E moment \in Moments : moment > now /\ \A other \in Moments : other > now => moment <= other
                              /\ now' = moment
    /\ UNCHANGED <<rows, job, struggling, requests, wanted, done>>

Serve(w) ==
    \/ CheckFatigue(w) \/ CheckBudget(w) \/ CommitPush(w)
    \/ FindRow(w) \/ UpdateRow(w) \/ InsertRow(w) \/ Fail(w)

Next ==
    \/ \E w \in Workers : Serve(w)
    \/ \E w \in Workers, u \in Students : DispatchEvent(w, u) \/ MarkIntervention(w, u)
    \/ \E u \in Students, course \in Courses : LearningSignal(u, course)
    \/ TimePasses

Spec == Init /\ [][Next]_vars

-----------------------------------------------------------------------------
CardKind == [counted : BOOLEAN, high : BOOLEAN, imminent : BOOLEAN]
PushJob == [pc : {"fatigue", "budget", "commit"}, user : Students, at : Moments, force : BOOLEAN, card : CardKind]
IsMarkJob(j) ==
    /\ DOMAIN j = {"pc", "user", "id", "flag"}
    /\ j.pc \in {"find", "update", "insert", "conflict"} /\ j.user \in Students
    /\ j.flag \in {"dismissed", "acted"}
    /\ j.pc = "update" => j.id \in RowsOf(j.user)

(* Types, and a row that a request is about to update is there.            *)
TypeOK ==
    /\ \A id \in DOMAIN rows : rows[id] \in [user : Students, card : CardKind, push : BOOLEAN, force : BOOLEAN,
                                            dismissed : BOOLEAN, acted : BOOLEAN, at : Moments]
    /\ \A w \in Workers : job[w] = Idle \/ job[w] \in PushJob \/ IsMarkJob(job[w])
    /\ struggling \subseteq Students \X Courses
    /\ now \in Moments /\ requests \in 0..MaxRequests
    /\ \A pair \in wanted : pair[1] \in Students
    /\ \A mark \in done : mark.user \in Students /\ mark.flag \in {"dismissed", "acted"}

Unsolicited(u) == {id \in RowsOf(u) : rows[id].push /\ ~ rows[id].force}
Within(ids, id, hours) == {other \in ids : rows[id].at <= rows[other].at /\ rows[other].at <= rows[id].at + hours}

(* evaluate and the INSERT of dispatch_event are not one transaction, so   *)
(* requests that overlap each find the cool-off over: a student gets at    *)
(* most one push per worker, not one, within COOL_OFF_HOURS, the           *)
(* exception for classes about to start aside.                             *)
CoolOffUpToOverlap ==
    \A u \in Students : LET paced == {id \in Unsolicited(u) : ~ rows[id].card.imminent}
                        IN \A id \in paced : Cardinality(Within(paced, id, CoolOff)) <= Cardinality(Workers)

(* Of high-priority pushes within a day a student gets at most             *)
(* MAX_DAILY_HIGH_PRIORITY and one more for every other worker.            *)
DailyCapUpToOverlap ==
    \A u \in Students : LET high == {id \in Unsolicited(u) : rows[id].card.high}
                        IN \A id \in high : Cardinality(Within(high, id, Day)) < MaxDaily + Cardinality(Workers)

(* Both: what overlapping requests can make of the governor's limits.      *)
GovernedUpToOverlap == CoolOffUpToOverlap /\ DailyCapUpToOverlap

(* A dismissal or an action that was answered with success stays recorded, *)
(* whatever overlaps with it: each of the two writes its own flag.         *)
AnsweredIsRecorded ==
    \A mark \in done : mark.id \in RowsOf(mark.user) /\ rows[mark.id][mark.flag]

(* The timeline leaves out a card if and only if this student dismissed    *)
(* it: always once the dismissal is answered, and never before the student *)
(* asked for it, whoever else dismissed a card with this id.               *)
DismissalIsPersonal ==
    \A u \in Students :
        /\ \A id \in Timeline(u) : [user |-> u, id |-> id, flag |-> "dismissed"] \notin done
        /\ \A id \in Deck(u) \ Timeline(u) : <<u, id>> \in wanted
=============================================================================
