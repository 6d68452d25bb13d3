-------------------------------- MODULE AIJobs --------------------------------
(***************************************************************************)
(* The asynchronous jobs of the AI service, ai_service/jobs: the queue     *)
(* manager (queue_manager.py), called by the handlers of the process, and  *)
(* the worker (worker.py), a thread of the same process.                   *)
(*                                                                         *)
(* A job is a row in PostgreSQL, a hash in Redis that get_job_status reads *)
(* first, and an entry of a list, each written by a call of its own.  The  *)
(* handlers are coroutines that await nothing, so that one of them is      *)
(* under way at a time (api).  There are four lists by priority, which the *)
(* caller chooses: any job that is listed may be the next.  Writing one    *)
(* value into a row that is read first is one step, since SQLAlchemy       *)
(* leaves out an UPDATE that would change nothing.  Redis is there when    *)
(* the service starts.                                                     *)
(***************************************************************************)
EXTENDS Naturals

CONSTANTS
    Jobs,        \* ids of jobs
    NoJob,       \* none
    MaxErrors,   \* bound on calls that report an error
    MaxRestarts  \* bound on deaths of the process

ASSUME JobsAssumption == NoJob \notin Jobs /\ MaxErrors \in Nat /\ MaxRestarts \in Nat

VARIABLES
    row,       \* ai.jobs: the status of a job, "none" without a row
    shown,     \* ai:job:<id>: its status in Redis
    listed,    \* how often a job is in a list
    api,       \* the handler under way: [pc, job]
    hand,      \* the worker: [pc, job, stage, to], with the update it makes
    pushed,    \* history: how often a job was put into a list
    ran,       \* history: how often the pipeline was asked for a job
    undone,    \* history: jobs cancelled before the worker looked at their row
    crossed,   \* history: jobs the worker held while they were cancelled
    faulted,   \* history: jobs with a failed call, or in hand when the process died
    errors,    \* history: calls that reported an error
    restarts   \* history: deaths of the process

jobVars == <<row, shown, listed, api, hand, pushed, ran, undone, crossed, faulted, errors, restarts>>

Free == [pc |-> "idle", job |-> NoJob]
AtRest == [pc |-> "idle", job |-> NoJob, stage |-> "claim", to |-> "running"]

JobsInit ==
    /\ row = [j \in Jobs |-> "none"] /\ shown = row /\ ran = [j \in Jobs |-> 0]
    /\ api = Free /\ hand = AtRest
    /\ listed = ran /\ pushed = ran /\ undone = {} /\ crossed = {} /\ faulted = {} /\ errors = 0 /\ restarts = 0

(* A call on Redis or the database: whether it takes effect, and whether   *)
(* it reports an error.                                                    *)
Replies == {[done |-> TRUE, error |-> FALSE]}
           \cup (IF errors < MaxErrors THEN [done : BOOLEAN, error : {TRUE}] ELSE {})
Costs(reply, j) ==
    /\ errors' = errors + (IF reply.error THEN 1 ELSE 0)
    /\ faulted' = faulted \cup (IF reply.error THEN {j} ELSE {})
Set(status, j, value, reply) == IF reply.done THEN [status EXCEPT ![j] = value] ELSE status
Crosses(j) == crossed' = crossed \cup (IF hand.job = j THEN {j} ELSE {})

-----------------------------------------------------------------------------
(* enqueue_job: an error of the database is the caller's, one of Redis is  *)
(* only logged.                                                            *)
EnqueueJob(j) ==
    /\ api = Free /\ row[j] = "none"
    /\ \E reply \in Replies :
        /\ row' = Set(row, j, "queued", reply)
        /\ api' = IF reply.error THEN Free ELSE [pc |-> "hash", job |-> j]
        /\ Costs(reply, j)
    /\ UNCHANGED <<shown, listed, hand, pushed, ran, undone, crossed, restarts>>

StoreHash ==
    /\ api.pc = "hash"
    /\ \E reply \in Replies :
        /\ shown' = Set(shown, api.job, "queued", reply)
        /\ api' = IF reply.error THEN Free ELSE [api EXCEPT !.pc = "push"]
        /\ Costs(reply, api.job)
    /\ UNCHANGED <<row, listed, hand, pushed, ran, undone, crossed, restarts>>

(* The client repeats a command that has timed out once (retry_on_timeout  *)
(* in redis_client.py); where it matters is here, the others say the same  *)
(* thing again.                                                            *)
Push ==
    /\ api.pc = "push" /\ api' = Free
    /\ \E reply \in Replies, times \in 0..2 :
        /\ reply.error \/ times = 1
        /\ listed' = [listed EXCEPT ![api.job] = @ + times]
        /\ pushed' = [pushed EXCEPT ![api.job] = @ + times]
        /\ Costs(reply, api.job)
    /\ UNCHANGED <<row, shown, hand, ran, undone, crossed, restarts>>

(* cancel_job asks neither for the status nor for the worker.              *)
CancelJob(j) ==
    /\ api = Free /\ row[j] # "none"
    /\ \E reply \in Replies :
        /\ shown' = Set(shown, j, "cancelled", reply)
        /\ api' = IF reply.error THEN Free ELSE [pc |-> "cancel", job |-> j]
        /\ Costs(reply, j)
    /\ Crosses(j)
    /\ UNCHANGED <<row, listed, hand, pushed, ran, undone, restarts>>

Looked(j) == hand.job = j /\ hand.pc # "check"

CancelRow ==
    LET j == api.job IN
    /\ api.pc = "cancel" /\ api' = Free
    /\ \E reply \in Replies :
        /\ row' = Set(row, j, "cancelled", reply)
        /\ undone' = undone \cup (IF reply.done /\ ran[j] = 0 /\ ~ Looked(j) THEN {j} ELSE {})
        /\ Costs(reply, j)
    /\ Crosses(j)
    /\ UNCHANGED <<shown, listed, hand, pushed, ran, restarts>>

-----------------------------------------------------------------------------
(* _run_loop: BRPOP takes a job off its list for good.                     *)
Pop(j) ==
    /\ hand = AtRest /\ listed[j] > 0
    /\ \E reply \in Replies :
        /\ listed' = IF reply.done THEN [listed EXCEPT ![j] = @ - 1] ELSE listed
        /\ hand' = IF reply.error THEN AtRest ELSE [AtRest EXCEPT !.pc = "check", !.job = j]
        /\ crossed' = crossed \cup (IF api.job = j THEN {j} ELSE {})
        /\ Costs(reply, j)
    /\ UNCHANGED <<row, shown, api, pushed, ran, undone, restarts>>

(* Mutant: only a missing row is a reason not to run.                      *)
WithdrawnMissing(status) == status = "none"

Withdrawn(status) == status \in {"none", "cancelled"}

Updates(stage, to) == hand' = [hand EXCEPT !.pc = "show", !.stage = stage, !.to = to]
Fails == Updates("fail", "failed")

(* _process_job: the status is looked at once.                             *)
Check ==
    /\ hand.pc = "check"
    /\ \E reply \in Replies :
        /\ IF reply.error \/ Withdrawn(row[hand.job]) THEN hand' = AtRest ELSE Updates("claim", "running")
        /\ Costs(reply, hand.job)
    /\ UNCHANGED <<row, shown, listed, api, pushed, ran, undone, crossed, restarts>>

(* _update_job writes the hash, whatever comes of it, and then the row.    *)
Show ==
    /\ hand.pc = "show" /\ hand' = [hand EXCEPT !.pc = "store"]
    /\ \E reply \in Replies :
        /\ shown' = Set(shown, hand.job, hand.to, reply)
        /\ Costs(reply, hand.job)
    /\ UNCHANGED <<row, listed, api, pushed, ran, undone, crossed, restarts>>

(* An error of the first update, or of that of a failure, is the loop's,   *)
(* which goes on with the next job; one in between is a failure.           *)
Stored(error) ==
    CASE hand.stage = "claim" /\ ~ error -> Updates("begin", "running") \/ Fails
      [] hand.stage = "begin" /\ ~ error -> hand' = [hand EXCEPT !.pc = "run"]
      [] hand.stage \in {"begin", "end"} /\ error -> Fails
      [] OTHER -> hand' = AtRest

Store ==
    /\ hand.pc = "store"
    /\ \E reply \in Replies :
        /\ row' = Set(row, hand.job, hand.to, reply)
        /\ Stored(reply.error)
        /\ Costs(reply, hand.job)
    /\ UNCHANGED <<shown, listed, api, pushed, ran, undone, crossed, restarts>>

(* Mutant: an answer that is no success is not recorded.                   *)
DecideSuccess == Updates("end", "completed") \/ hand' = AtRest \/ Fails

(* The pipeline answers with a success or a failure, or raises.            *)
Decide == (\E to \in {"completed", "failed"} : Updates("end", to)) \/ Fails

Run ==
    /\ hand.pc = "run" /\ Decide
    /\ ran' = [ran EXCEPT ![hand.job] = @ + 1]
    /\ UNCHANGED <<row, shown, listed, api, pushed, undone, crossed, faulted, errors, restarts>>

-----------------------------------------------------------------------------
(* The process ends, or is stopped while the worker is busy: its thread is *)
(* a daemon.  It is started again.                                         *)
Restart ==
    /\ restarts < MaxRestarts /\ restarts' = restarts + 1
    /\ api' = Free /\ hand' = AtRest
    /\ faulted' = faulted \cup ({api.job, hand.job} \ {NoJob})
    /\ UNCHANGED <<row, shown, listed, pushed, ran, undone, crossed, errors>>

JobsNext ==
    \/ \E j \in Jobs : EnqueueJob(j) \/ CancelJob(j) \/ Pop(j)
    \/ StoreHash \/ Push \/ CancelRow
    \/ Check \/ Show \/ Store \/ Run
    \/ Restart

JobsSpec == JobsInit /\ [][JobsNext]_jobVars

-----------------------------------------------------------------------------
Statuses == {"none", "queued", "running", "completed", "failed", "cancelled"}

JobsTypeOK ==
    /\ row \in [Jobs -> Statuses] /\ shown \in [Jobs -> Statuses]
    /\ listed \in [Jobs -> Nat] /\ pushed \in [Jobs -> Nat] /\ ran \in [Jobs -> Nat]
    /\ api \in {Free} \cup [pc : {"hash", "push", "cancel"}, job : Jobs]
    /\ hand \in {AtRest} \cup [pc : {"check", "show", "store", "run"}, job : Jobs,
                               stage : {"claim", "begin", "end", "fail"}, to : Statuses]
    /\ undone \subseteq Jobs /\ crossed \subseteq Jobs /\ faulted \subseteq Jobs
    /\ errors \in 0..MaxErrors /\ restarts \in 0..MaxRestarts

(* A job waits in a list or is in somebody's hands until it is decided,    *)
(* unless a call for it failed or the process died over it.  It is run     *)
(* no more often than it was listed, whatever fails: twice only if the     *)
(* call that lists it was repeated.                                        *)
InHands(j) == hand.job = j \/ (api.job = j /\ api.pc \in {"hash", "push"})
Stuck == {j \in Jobs : row[j] \in {"queued", "running"} /\ listed[j] = 0 /\ ~ InHands(j)}
JobsAccountedFor ==
    /\ JobsTypeOK
    /\ Stuck \subseteq faulted
    /\ \A j \in Jobs : ran[j] <= pushed[j]

(* A job cancelled before the worker has looked at it stays so and is not  *)
(* run, and what get_job_status shows of a job nobody is at is what the    *)
(* row says, unless the worker held the job while it was cancelled, or a   *)
(* call for it failed, or the process died over it.                        *)
Quiet(j) == hand.job # j /\ api.job # j
StatusTold ==
    /\ \A j \in undone : row[j] = "cancelled" /\ ran[j] = 0
    /\ \A j \in Jobs : Quiet(j) /\ j \notin crossed \cup faulted => shown[j] = row[j]
=============================================================================
