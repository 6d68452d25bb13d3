------------------------- MODULE NotificationWorker -------------------------
(***************************************************************************)
(* The background worker of the notification service, workers/worker.go:   *)
(* one goroutine that queues a notification for every due reminder, puts   *)
(* the next occurrence of a recurring one into the table, and sends what   *)
(* the queue holds, while users create and cancel reminders and other      *)
(* services queue notifications.                                           *)
(*                                                                         *)
(* Every statement on the database is a step and may fail, with or without *)
(* having taken effect; the process may die between any two.  The model    *)
(* has one daily reminder with an end date; days are numbered, and a       *)
(* weekly one is the same with a longer day.  The worker takes at most 50  *)
(* reminders and 100 notifications at a time, more than the model has, and *)
(* works on those it has taken in any order.  Preferences are data.        *)
(***************************************************************************)
EXTENDS Naturals, Sequences, FiniteSets

CONSTANTS
    LastDay,     \* the reminder's recurrence_end_date
    MaxRetries,  \* 3 in the query of processPendingNotifications
    MaxLoad,     \* bound on direct notifications and days of the reminder together
    MaxFaults,   \* bound on failed statements
    MaxCrashes   \* bound on deaths of the process

ASSUME WorkerAssumption ==
    /\ LastDay \in Nat \ {0} /\ MaxRetries \in Nat \ {0}
    /\ MaxLoad \in Nat /\ MaxFaults \in Nat /\ MaxCrashes \in Nat

Days == 1..LastDay

VARIABLES
    rows,     \* scheduled_reminders: sequence of [day, active, sent]
    notes,    \* queue: sequence of [day, due, status, retries, tries]
    now,      \* today
    work,     \* the worker: [pc, left, id], left being taken and not begun
    broken,   \* history: a next occurrence was not put into the table
    faults,   \* history: failed statements
    crashes   \* history: deaths of the process

vars == <<rows, notes, now, work, broken, faults, crashes>>

Idle == [pc |-> "idle", left |-> {}, id |-> 0]

Init ==
    /\ rows = <<>> /\ notes = <<>> /\ now = 0 /\ work = Idle
    /\ broken = FALSE /\ faults = 0 /\ crashes = 0

-----------------------------------------------------------------------------
(* A statement: whether it takes effect and whether it reports an error.   *)
Answers == {[done |-> TRUE, error |-> FALSE]}
           \cup (IF faults < MaxFaults THEN [done : BOOLEAN, error : {TRUE}] ELSE {})
Count(answer) == faults' = IF answer.error THEN faults + 1 ELSE faults

(* A row of the queue: of which day's reminder (0: a direct one), from     *)
(* which day on it is due, its retry_count, and how often it was tried.    *)
Note(day, due) == [day |-> day, due |-> due, status |-> "pending", retries |-> 0, tries |-> 0]
Row(day) == [day |-> day, active |-> TRUE, sent |-> FALSE]

Direct == Cardinality({n \in DOMAIN notes : notes[n].day = 0})
DaysFrom(day) == LastDay + 1 - day

(* The handlers; what they answer to the caller is left out.               *)
CreateReminder ==
    /\ rows = <<>>
    /\ \E day \in Days : DaysFrom(day) + Direct <= MaxLoad /\ rows' = <<Row(day)>>
    /\ UNCHANGED <<notes, now, work, broken, faults, crashes>>

(* Of a row that is sent nobody reads whether it is active.                *)
CancelReminder(i) ==
    /\ rows[i].active /\ ~ rows[i].sent
    /\ rows' = [rows EXCEPT ![i].active = FALSE]
    /\ UNCHANGED <<notes, now, work, broken, faults, crashes>>

SendNotification ==
    /\ Direct + (IF rows = <<>> THEN 0 ELSE DaysFrom(rows[1].day)) < MaxLoad
    /\ \E due \in {0, LastDay} : notes' = Append(notes, Note(0, due))
    /\ UNCHANGED <<rows, now, work, broken, faults, crashes>>

NextDay ==
    /\ now < LastDay
    /\ now' = now + 1
    /\ UNCHANGED <<rows, notes, work, broken, faults, crashes>>

-----------------------------------------------------------------------------
(* Mutant: cancelled reminders are taken too.                              *)
LiveAlways(i) == ~ rows[i].sent

Live(i) == rows[i].active /\ ~ rows[i].sent

DueRows == {i \in DOMAIN rows : Live(i) /\ rows[i].day <= now}

(* The worker goes on with those it has taken, if any is left.             *)
GoOn(pc, left) == IF left = {} THEN Idle ELSE [pc |-> pc, left |-> left, id |-> 0]

TakeReminders ==
    /\ work = Idle /\ DueRows # {}
    /\ work' = GoOn("reminder", DueRows)
    /\ UNCHANGED <<rows, notes, now, broken, faults, crashes>>

(* processReminder: it returns if the INSERT into the queue fails ...      *)
QueueReminder ==
    /\ work.pc = "reminder"
    /\ \E i \in work.left, answer \in Answers :
        /\ notes' = IF answer.done THEN Append(notes, Note(rows[i].day, 0)) ELSE notes
        /\ work' = IF answer.error
                   THEN GoOn("reminder", work.left \ {i})
                   ELSE [pc |-> "mark", left |-> work.left \ {i}, id |-> i]
        /\ Count(answer)
    /\ UNCHANGED <<rows, now, broken, crashes>>

(* Mutant: sent_at is not set.                                             *)
MarkedNever(row) == row

Marked(row) == [row EXCEPT !.sent = TRUE]

(* ... but not if sent_at cannot be set.                                   *)
MarkReminder ==
    /\ work.pc = "mark"
    /\ \E answer \in Answers :
        /\ rows' = IF answer.done THEN [rows EXCEPT ![work.id] = Marked(@)] ELSE rows
        /\ Count(answer)
    /\ work' = [work EXCEPT !.pc = "next"]
    /\ UNCHANGED <<notes, now, broken, crashes>>

(* Mutant: the end date itself is left out.                                *)
RecursEarly(day) == day + 1 < LastDay

Recurs(day) == day + 1 <= LastDay

(* A row that is marked and has no successor is the end of the reminder.   *)
Abandons == rows[work.id].sent /\ Recurs(rows[work.id].day)

(* scheduleNextRecurrence, from the row as it was when it was taken.       *)
ScheduleNext ==
    /\ work.pc = "next"
    /\ LET day == rows[work.id].day
       IN IF Recurs(day)
          THEN \E answer \in Answers :
                 /\ rows' = IF answer.done THEN Append(rows, Row(day + 1)) ELSE rows
                 /\ broken' = (broken \/ (~ answer.done /\ Abandons))
                 /\ Count(answer)
          ELSE UNCHANGED <<rows, broken, faults>>
    /\ work' = GoOn("reminder", work.left)
    /\ UNCHANGED <<notes, now, crashes>>

-----------------------------------------------------------------------------
RetriesLeft(note) == note.retries < MaxRetries

DueNotes == {n \in DOMAIN notes : /\ notes[n].status = "pending"
                                  /\ notes[n].due <= now
                                  /\ RetriesLeft(notes[n])}

TakeNotes ==
    /\ work = Idle /\ DueNotes # {}
    /\ work' = GoOn("note", DueNotes)
    /\ UNCHANGED <<rows, notes, now, broken, faults, crashes>>

(* processNotification: whatever is wrong with the query for the user's    *)
(* preferences and address, the notification is to be marked as failed.    *)
ReadPreferences ==
    /\ work.pc = "note"
    /\ \E n \in work.left, answer \in Answers :
        /\ \A k \in work.left : notes[n].due < notes[k].due \/ (notes[n].due = notes[k].due /\ n <= k)
        /\ work' = [pc |-> IF answer.error THEN "failed" ELSE "send",
                    left |-> work.left \ {n}, id |-> n]
        /\ Count(answer)
    /\ UNCHANGED <<rows, notes, now, broken, crashes>>

MaxTries == MaxRetries + MaxFaults + MaxCrashes + 1   \* where tries stops counting

(* FCM or SMTP is asked, unless the user has switched it off.              *)
Send ==
    /\ work.pc = "send"
    /\ notes' = [notes EXCEPT ![work.id].tries = IF @ = MaxTries THEN @ ELSE @ + 1]
    /\ \E pc \in {"sent", "retry"} : work' = [work EXCEPT !.pc = pc]
    /\ UNCHANGED <<rows, now, broken, faults, crashes>>

(* markSent, markFailed, and retryOrFail, which never marks as failed.     *)
Outcome(note, pc) ==
    IF pc = "retry" THEN [note EXCEPT !.retries = @ + 1] ELSE [note EXCEPT !.status = pc]

Record ==
    /\ work.pc \in {"sent", "retry", "failed"}
    /\ \E answer \in Answers :
        /\ notes' = IF answer.done THEN [notes EXCEPT ![work.id] = Outcome(@, work.pc)] ELSE notes
        /\ Count(answer)
    /\ work' = GoOn("note", work.left)
    /\ UNCHANGED <<rows, now, broken, crashes>>

(* The process dies and is started again; what it had taken is forgotten.  *)
Crash ==
    /\ work # Idle /\ crashes < MaxCrashes
    /\ crashes' = crashes + 1
    /\ work' = Idle
    /\ broken' = (broken \/ (work.pc = "next" /\ Abandons))
    /\ UNCHANGED <<rows, notes, now, faults>>

Reminders == QueueReminder \/ MarkReminder \/ ScheduleNext
Notifications == ReadPreferences \/ Send \/ Record
Worker == Reminders \/ Notifications

Next ==
    \/ CreateReminder \/ SendNotification \/ NextDay
    \/ \E i \in DOMAIN rows : CancelReminder(i)
    \/ TakeReminders \/ TakeNotes \/ Worker
    \/ Crash

Spec == Init /\ [][Next]_vars

(* What the worker has taken it works off; each of its two tickers fires   *)
(* again and again, and select picks at random between them.  Days pass.   *)
FairSpec ==
    /\ Spec
    /\ WF_vars(Worker) /\ SF_vars(TakeReminders) /\ SF_vars(TakeNotes)
    /\ WF_vars(NextDay)

-----------------------------------------------------------------------------
(* Every variable has its type; a retry is only counted below the limit.   *)
TypeOK ==
    /\ rows \in Seq([day : Days, active : BOOLEAN, sent : BOOLEAN])
    /\ notes \in Seq([day : 0..LastDay, due : 0..LastDay, status : {"pending", "sent", "failed"},
                      retries : 0..MaxRetries, tries : 0..MaxTries])
    /\ now \in 0..LastDay
    /\ work \in [pc : {"idle", "reminder", "mark", "next", "note", "send", "sent", "retry", "failed"},
                 left : SUBSET (DOMAIN rows \cup DOMAIN notes), id : 0..(Len(rows) + Len(notes))]
    /\ broken \in BOOLEAN /\ faults \in 0..MaxFaults /\ crashes \in 0..MaxCrashes

(* Of any one day the user is reminded once, and once more at most for     *)
(* every failed statement and death: a reminder that was queued and could  *)
(* not be marked is queued again, and so are then all those after it.      *)
Reminded(day) == {n \in DOMAIN notes : notes[n].day = day}
RemindersPaidFor ==
    \A day \in Days :
        /\ Cardinality({i \in DOMAIN rows : rows[i].day = day}) <= 1 + faults
        /\ Cardinality(Reminded(day)) <= 1 + faults + crashes

(* A notification is sent out MaxRetries times at most, once more for      *)
(* every failed statement and death.  One that succeeds at once is sent    *)
(* once, and none is given up without a fault.                             *)
TriesPaidFor ==
    \A n \in DOMAIN notes :
        /\ notes[n].tries <= MaxRetries + faults + crashes
        /\ notes[n].status = "sent" => notes[n].tries <= 1 + notes[n].retries + faults + crashes
        /\ notes[n].status = "failed" => faults > 0

(* All three: types, and nothing is done twice but for a fault.            *)
DuplicatesPaidFor == TypeOK /\ RemindersPaidFor /\ TriesPaidFor

(* A cancelled reminder is over: when no row is live and the worker has    *)
(* none in hand, no row ever gets live and no reminder is queued again.    *)
Over ==
    /\ rows # <<>> /\ \A i \in DOMAIN rows : ~ (rows[i].active /\ ~ rows[i].sent)
    /\ work.pc \notin {"reminder", "mark", "next"}
CancelSticks ==
    [][Over => Over' /\ \A day \in Days : Reminded(day)' = Reminded(day)]_vars

(* Until its end date the user is reminded of every day, unless a row was  *)
(* cancelled or a next occurrence could not be put into the table.         *)
EveryDayReminded ==
    <>[] \/ rows = <<>> \/ broken \/ \E i \in DOMAIN rows : ~ rows[i].active
         \/ \A day \in rows[1].day..LastDay : Reminded(day) # {}

(* In the end every notification is sent or given up.                      *)
EveryNoteDecided ==
    <>[] \A n \in DOMAIN notes : notes[n].status # "pending" \/ ~ RetriesLeft(notes[n])

(* Both: what was asked for gets done.                                     *)
NothingForgotten == EveryDayReminded /\ EveryNoteDecided
=============================================================================
