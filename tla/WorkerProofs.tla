---------------------------- MODULE WorkerProofs -----------------------------
(***************************************************************************)
(* What holds of the two background workers, for every number of jobs,     *)
(* days, notifications, failed statements and deaths: the AI service's     *)
(* (AIJobs) in the first half, the notification service's                  *)
(* (NotificationWorker) in the second.  They share no state.               *)
(***************************************************************************)
EXTENDS NotificationWorker, AIJobs, FiniteSetTheorems, SequenceTheorems, TLAPS

(* What the worker is to write fits the stage it is at.                    *)
StageFits ==
    /\ hand.pc = "check" => hand.stage = "claim"
    /\ hand.pc = "run" => hand.stage = "begin"
    /\ hand.stage \in {"claim", "begin"} => hand.to = "running"
    /\ hand.stage \in {"end", "fail"} => hand.to \in {"completed", "failed"}

(* A job that is in the worker's hands and still to be run counts as one   *)
(* of those that were put into a list.                                     *)
ToBeRun(j) == IF hand.job = j /\ hand.stage \in {"claim", "begin"} THEN 1 ELSE 0
EachPushOnce == \A j \in Jobs : ran[j] + listed[j] + ToBeRun(j) <= pushed[j]

AccountInv == StageFits /\ Stuck \subseteq faulted /\ EachPushOnce

(* What a job cancelled before the worker looked at it never gets.         *)
UndoneInv == \A j \in undone : row[j] = "cancelled" /\ ran[j] = 0 /\ ~ Looked(j)

(* A job without a row is unknown to everybody.                            *)
UnknownInv ==
    \A j \in Jobs \ faulted : row[j] = "none" => listed[j] = 0 /\ hand.job # j /\ api.job # j

(* Between the write of the hash and that of the row the two differ: the   *)
(* one that is about to make the second write knows what it will be.       *)
Told(j) ==
    /\ ~ (api.job = j /\ hand.job = j)
    /\ api.job = j => CASE api.pc = "hash" -> row[j] = "queued"
                        [] api.pc = "push" -> row[j] = "queued" /\ shown[j] = "queued"
                        [] OTHER -> shown[j] = "cancelled"
    /\ hand.job = j => shown[j] = IF hand.pc = "store" THEN hand.to ELSE row[j]
    /\ Quiet(j) => shown[j] = row[j]
ToldInv == \A j \in Jobs \ (crossed \cup faulted) : Told(j)

-----------------------------------------------------------------------------
(* A call that reports no error has taken effect; one that does makes its  *)
(* job a faulted one.                                                      *)
LEMMA ReplyFacts ==
    ASSUME NEW reply \in Replies, NEW j, Costs(reply, j), errors \in 0..MaxErrors
    PROVE  /\ reply.done \in BOOLEAN /\ reply.error \in BOOLEAN
           /\ ~ reply.error => reply.done /\ faulted' = faulted
           /\ reply.error => faulted' = faulted \cup {j}
           /\ errors' \in 0..MaxErrors
<1>1. errors \in Nat /\ MaxErrors \in Nat /\ errors <= MaxErrors
  BY JobsAssumption, SMT
<1>2. /\ reply.done \in BOOLEAN /\ reply.error \in BOOLEAN
      /\ ~ reply.error => reply.done
      /\ reply.error => errors < MaxErrors
  <2>1. CASE reply = [done |-> TRUE, error |-> FALSE]
    BY <2>1
  <2>2. CASE errors < MaxErrors /\ reply \in [done : BOOLEAN, error : {TRUE}]
    BY <2>2
  <2> QED
    BY <2>1, <2>2 DEF Replies
<1>3. errors' \in 0..MaxErrors
  BY <1>1, <1>2, SMT DEF Costs
<1> QED
  BY <1>2, <1>3 DEF Costs

(* A worker that is not at rest has a job in its hands.                    *)
Held == [pc : {"check", "show", "store", "run"}, job : Jobs,
         stage : {"claim", "begin", "end", "fail"}, to : Statuses]
(* What the worker holds while it is at work is of one shape.              *)
LEMMA HandFacts ==
    ASSUME JobsTypeOK, hand.pc # "idle"
    PROVE  hand \in Held /\ hand.job \in Jobs
BY SMT DEF JobsTypeOK, AtRest, Held

(* What an update of the worker leaves in its hands.                       *)
LEMMA UpdateFacts ==
    ASSUME JobsTypeOK, hand.pc # "idle", NEW stage \in {"claim", "begin", "end", "fail"},
           NEW to \in Statuses, Updates(stage, to)
    PROVE  /\ hand' \in Held
           /\ hand'.pc = "show" /\ hand'.job = hand.job /\ hand'.stage = stage /\ hand'.to = to
<1>1. hand \in Held
  BY HandFacts
<1>2. hand' = [hand EXCEPT !.pc = "show", !.stage = stage, !.to = to]
  BY DEF Updates
<1>3. hand' = [pc |-> "show", job |-> hand.job, stage |-> stage, to |-> to]
  BY <1>1, <1>2, Zenon DEF Held
<1> QED
  BY <1>1, <1>3 DEF Held

LEMMA JobsInitType == JobsInit => JobsTypeOK
BY JobsAssumption, SMT DEF JobsInit, JobsTypeOK, Statuses, Free, AtRest

LEMMA JobsTypeStep == JobsTypeOK /\ [JobsNext]_jobVars => JobsTypeOK'
<1> SUFFICES ASSUME JobsTypeOK, [JobsNext]_jobVars PROVE JobsTypeOK'
  OBVIOUS
<1> USE DEF JobsTypeOK, Statuses, Free, AtRest
<1>1. ASSUME NEW j \in Jobs, EnqueueJob(j) PROVE JobsTypeOK'
  <2> PICK reply \in Replies : /\ row' = Set(row, j, "queued", reply)
                               /\ api' = IF reply.error THEN Free ELSE [pc |-> "hash", job |-> j]
                               /\ Costs(reply, j)
    BY <1>1 DEF EnqueueJob
  <2> QED
    BY <1>1, ReplyFacts DEF EnqueueJob, Set
<1>2. ASSUME NEW j \in Jobs, CancelJob(j) PROVE JobsTypeOK'
  <2> PICK reply \in Replies : /\ shown' = Set(shown, j, "cancelled", reply)
                               /\ api' = IF reply.error THEN Free ELSE [pc |-> "cancel", job |-> j]
                               /\ Costs(reply, j)
    BY <1>2 DEF CancelJob
  <2> QED
    BY <1>2, ReplyFacts DEF CancelJob, Set, Crosses
<1>3. CASE StoreHash
  <2> PICK reply \in Replies : /\ shown' = Set(shown, api.job, "queued", reply)
                               /\ api' = IF reply.error THEN Free ELSE [api EXCEPT !.pc = "push"]
                               /\ Costs(reply, api.job)
    BY <1>3 DEF StoreHash
  <2> QED
    BY <1>3, ReplyFacts DEF StoreHash, Set
<1>4. CASE Push
  <2> PICK reply \in Replies, times \in 0..2 :
        /\ listed' = [listed EXCEPT ![api.job] = @ + times]
        /\ pushed' = [pushed EXCEPT ![api.job] = @ + times]
        /\ Costs(reply, api.job)
    BY <1>4 DEF Push
  <2> QED
    BY <1>4, ReplyFacts DEF Push
<1>5. CASE CancelRow
  <2> PICK reply \in Replies : /\ row' = Set(row, api.job, "cancelled", reply)
                               /\ Costs(reply, api.job)
                               /\ undone' \subseteq undone \cup {api.job}
    BY <1>5 DEF CancelRow
  <2> QED
    BY <1>5, ReplyFacts DEF CancelRow, Set, Crosses
<1>6. ASSUME NEW j \in Jobs, Pop(j) PROVE JobsTypeOK'
  <2> PICK reply \in Replies :
        /\ listed' = IF reply.done THEN [listed EXCEPT ![j] = @ - 1] ELSE listed
        /\ hand' = IF reply.error THEN AtRest ELSE [AtRest EXCEPT !.pc = "check", !.job = j]
        /\ crossed' = crossed \cup (IF api.job = j THEN {j} ELSE {})
        /\ Costs(reply, j)
    BY <1>6 DEF Pop
  <2>1. listed[j] \in Nat /\ listed[j] > 0
    BY <1>6 DEF Pop
  <2>2. listed[j] - 1 \in Nat
    BY <2>1, SMT
  <2>3. listed' \in [Jobs -> Nat]
    BY <2>2
  <2>4. hand' \in {AtRest} \cup Held
    BY DEF Held
  <2> QED
    BY <1>6, <2>3, <2>4, ReplyFacts DEF Pop, Held
<1>7. CASE Check
  <2> PICK reply \in Replies :
        /\ IF reply.error \/ Withdrawn(row[hand.job]) THEN hand' = AtRest ELSE Updates("claim", "running")
        /\ Costs(reply, hand.job)
    BY <1>7 DEF Check
  <2>1. hand.pc # "idle" /\ hand.job \in Jobs
    BY <1>7, HandFacts DEF Check
  <2>2. hand' \in {AtRest} \cup Held
    BY <2>1, UpdateFacts
  <2> QED
    BY <1>7, <2>1, <2>2, ReplyFacts DEF Check, Held
<1>8. CASE Show
  <2> PICK reply \in Replies : shown' = Set(shown, hand.job, hand.to, reply) /\ Costs(reply, hand.job)
    BY <1>8 DEF Show
  <2> QED
    BY <1>8, ReplyFacts DEF Show, Set
<1>9. CASE Store
  <2> PICK reply \in Replies : /\ row' = Set(row, hand.job, hand.to, reply)
                               /\ Stored(reply.error)
                               /\ Costs(reply, hand.job)
    BY <1>9 DEF Store
  <2>1. hand.pc # "idle" /\ hand \in Held /\ hand.job \in Jobs
    BY <1>9, HandFacts DEF Store
  <2>2. CASE hand' = AtRest
    BY <1>9, <2>1, <2>2, ReplyFacts DEF Store, Set, Held
  <2>3. CASE hand' \in Held
    BY <1>9, <2>1, <2>3, ReplyFacts DEF Store, Set, Held
  <2>4. hand' = AtRest \/ hand' \in Held
    <3>1. CASE Updates("begin", "running") \/ Fails
      BY <2>1, <3>1, UpdateFacts DEF Fails
    <3>2. CASE hand' = [hand EXCEPT !.pc = "run"]
      BY <2>1, <3>2 DEF Held
    <3> QED
      BY <3>1, <3>2 DEF Stored
  <2> QED
    BY <2>2, <2>3, <2>4
<1>10. CASE Run
  <2>1. hand.pc # "idle" /\ hand.job \in Jobs
    BY <1>10, HandFacts DEF Run
  <2>2. hand' \in Held
    BY <1>10, <2>1, UpdateFacts DEF Run, Decide, Fails
  <2>3. ran' \in [Jobs -> Nat]
    BY <1>10, <2>1 DEF Run
  <2> QED
    BY <1>10, <2>2, <2>3 DEF Run, Held
<1>11. CASE Restart
  BY <1>11, JobsAssumption DEF Restart
<1>12. CASE UNCHANGED jobVars
  BY <1>12 DEF jobVars
<1> QED
  BY <1>1, <1>2, <1>3, <1>4, <1>5, <1>6, <1>7, <1>8, <1>9, <1>10, <1>11, <1>12 DEF JobsNext
-----------------------------------------------------------------------------
(* No step takes the worker to a stage that does not fit what it is to     *)
(* write.                                                                  *)
LEMMA StageFitsStep ==
    ASSUME JobsTypeOK, JobsTypeOK', StageFits, [JobsNext]_jobVars
    PROVE  StageFits'
<1> USE DEF StageFits
<1>1. ASSUME hand' = hand PROVE StageFits'
  BY <1>1
<1>2. ASSUME hand' = AtRest PROVE StageFits'
  BY <1>2 DEF AtRest
<1>3. ASSUME NEW stage \in {"claim", "begin"}, Updates(stage, "running"), hand.pc # "idle"
      PROVE  StageFits'
  BY <1>3, UpdateFacts DEF Statuses
<1>4. ASSUME NEW stage \in {"end", "fail"}, NEW to \in {"completed", "failed"}, Updates(stage, to), hand.pc # "idle"
      PROVE  StageFits'
  BY <1>4, UpdateFacts DEF Statuses
<1>5. ASSUME NEW j \in Jobs, Pop(j) PROVE StageFits'
  <2>1. hand' = AtRest \/ hand' = [AtRest EXCEPT !.pc = "check", !.job = j]
    BY <1>5 DEF Pop
  <2> QED
    BY <1>2, <2>1 DEF AtRest
<1>6. CASE Check
  BY <1>2, <1>3, <1>6 DEF Check
<1>7. CASE Show
  <2>1. hand \in Held /\ hand' = [hand EXCEPT !.pc = "store"]
    BY <1>7, HandFacts DEF Show
  <2> QED
    BY <2>1 DEF Held
<1>8. CASE Store
  <2>1. hand.pc = "store" /\ hand \in Held
    BY <1>8, HandFacts DEF Store
  <2>2. PICK error : Stored(error)
    BY <1>8 DEF Store
  <2>3. CASE hand.stage = "begin" /\ hand' = [hand EXCEPT !.pc = "run"]
    BY <2>1, <2>3 DEF Held
  <2> QED
    BY <1>2, <1>3, <1>4, <2>1, <2>2, <2>3 DEF Stored, Fails
<1>9. CASE Run
  BY <1>4, <1>9 DEF Run, Decide, Fails
<1> QED
  BY <1>1, <1>2, <1>5, <1>6, <1>7, <1>8, <1>9
  DEF JobsNext, jobVars, EnqueueJob, CancelJob, StoreHash, Push, CancelRow, Restart
-----------------------------------------------------------------------------
(* A job gets stuck only where a call that concerns it has failed.         *)
LEMMA StuckStep ==
    ASSUME JobsTypeOK, JobsTypeOK', StageFits, Stuck \subseteq faulted, [JobsNext]_jobVars
    PROVE  Stuck' \subseteq faulted'
<1> SUFFICES ASSUME NEW k \in Jobs, k \notin faulted', row'[k] \in {"queued", "running"},
                    listed'[k] = 0, ~ InHands(k)'
             PROVE  FALSE
  BY DEF Stuck
<1>1. k \notin faulted => row[k] \notin {"queued", "running"} \/ listed[k] # 0 \/ InHands(k)
  BY DEF Stuck
<1>2. errors \in 0..MaxErrors /\ k # NoJob
  BY JobsAssumption DEF JobsTypeOK
<1>3. row \in [Jobs -> Statuses] /\ listed \in [Jobs -> Nat]
  BY DEF JobsTypeOK
<1> USE DEF InHands, Set
<1>4. ASSUME NEW j \in Jobs, EnqueueJob(j) PROVE FALSE
  BY <1>1, <1>2, <1>3, <1>4, ReplyFacts DEF EnqueueJob, Free
<1>5. ASSUME NEW j \in Jobs, CancelJob(j) PROVE FALSE
  BY <1>1, <1>2, <1>5, ReplyFacts DEF CancelJob, Free
<1>6. CASE StoreHash
  <2>1. api \in [pc : {"hash", "push", "cancel"}, job : Jobs]
    BY <1>6 DEF StoreHash, JobsTypeOK, Free
  <2> QED
    BY <1>1, <1>2, <1>6, <2>1, ReplyFacts DEF StoreHash, Free
<1>7. CASE Push
  <2>1. api.job \in Jobs
    BY <1>7 DEF Push, JobsTypeOK, Free
  <2>2. PICK reply \in Replies, times \in 0..2 :
        /\ reply.error \/ times = 1
        /\ listed' = [listed EXCEPT ![api.job] = @ + times]
        /\ Costs(reply, api.job)
    BY <1>7 DEF Push
  <2>3. api.job = k => listed'[k] # 0
    <3>1. api.job = k => times = 1
      BY <1>2, <2>2, ReplyFacts
    <3>2. listed[api.job] \in Nat
      BY <1>3, <2>1
    <3> QED
      BY <1>3, <2>1, <2>2, <3>1, <3>2, SMT
  <2> QED
    BY <1>1, <1>2, <1>3, <1>7, <2>1, <2>2, <2>3, ReplyFacts DEF Push, Free
<1>8. CASE CancelRow
  BY <1>1, <1>2, <1>3, <1>8, ReplyFacts DEF CancelRow, Free
<1>9. ASSUME NEW j \in Jobs, Pop(j) PROVE FALSE
  BY <1>1, <1>2, <1>3, <1>9, ReplyFacts DEF Pop, AtRest
<1>10. CASE Check
  <2>1. PICK reply \in Replies :
          /\ IF reply.error \/ Withdrawn(row[hand.job]) THEN hand' = AtRest ELSE Updates("claim", "running")
          /\ Costs(reply, hand.job)
    BY <1>10 DEF Check
  <2>2. reply.error \/ row[hand.job] \in {"none", "cancelled"} \/ hand'.job = hand.job
    BY <1>10, <2>1, UpdateFacts DEF Check, Withdrawn, Statuses
  <2> QED
    BY <1>1, <1>2, <1>10, <2>1, <2>2, ReplyFacts DEF Check
<1>11. CASE Show
  <2>1. hand \in Held
    BY <1>11, HandFacts DEF Show
  <2> QED
    BY <1>1, <1>2, <1>11, <2>1, ReplyFacts DEF Show, Held
<1>12. CASE Store
  <2>1. hand \in Held /\ hand.job \in Jobs
    BY <1>12, HandFacts DEF Store
  <2>2. PICK reply \in Replies : /\ row' = Set(row, hand.job, hand.to, reply)
                                 /\ Stored(reply.error)
                                 /\ Costs(reply, hand.job)
    BY <1>12 DEF Store
  <2>3. hand'.job = hand.job \/ (hand.stage \in {"end", "fail"} \/ reply.error)
    BY <2>1, <2>2 DEF Stored, Updates, Fails, Held
  <2>4. CASE hand.job = k
    BY <1>2, <1>3, <2>1, <2>2, <2>3, <2>4, ReplyFacts DEF StageFits
  <2> QED
    BY <1>1, <1>2, <1>3, <1>12, <2>2, <2>4, ReplyFacts DEF Store
<1>13. CASE Run
  <2>1. hand \in Held /\ hand'.job = hand.job
    BY <1>13, HandFacts, UpdateFacts DEF Run, Decide, Fails, Statuses
  <2> QED
    BY <1>1, <1>13, <2>1 DEF Run
<1>14. CASE Restart
  BY <1>1, <1>2, <1>14 DEF Restart
<1>15. CASE UNCHANGED jobVars
  BY <1>1, <1>15 DEF jobVars
<1> QED
  BY <1>4, <1>5, <1>6, <1>7, <1>8, <1>9, <1>10, <1>11, <1>12, <1>13, <1>14, <1>15 DEF JobsNext

(* A run uses up the entry that the worker has taken out of the list.      *)
LEMMA EachPushOnceStep ==
    ASSUME JobsTypeOK, JobsTypeOK', StageFits, EachPushOnce, [JobsNext]_jobVars
    PROVE  EachPushOnce'
<1> SUFFICES ASSUME NEW k \in Jobs
             PROVE  (ran[k] + listed[k] + ToBeRun(k) <= pushed[k])'
  BY DEF EachPushOnce
<1>1. ran[k] + listed[k] + ToBeRun(k) <= pushed[k]
  BY DEF EachPushOnce
<1>2. /\ ran[k] \in Nat /\ listed[k] \in Nat /\ pushed[k] \in Nat
      /\ ran \in [Jobs -> Nat] /\ listed \in [Jobs -> Nat] /\ pushed \in [Jobs -> Nat]
      /\ errors \in 0..MaxErrors /\ k # NoJob
  BY JobsAssumption DEF JobsTypeOK
<1>3. ToBeRun(k) \in {0, 1} /\ ToBeRun(k)' \in {0, 1}
  BY DEF ToBeRun
<1>4. ASSUME UNCHANGED <<ran, listed, pushed>>, ToBeRun(k)' <= ToBeRun(k)
      PROVE  (ran[k] + listed[k] + ToBeRun(k) <= pushed[k])'
  BY <1>1, <1>2, <1>3, <1>4, SMT
<1>5. ASSUME NEW j \in Jobs, EnqueueJob(j) \/ CancelJob(j)
      PROVE  (ran[k] + listed[k] + ToBeRun(k) <= pushed[k])'
  BY <1>1, <1>5 DEF EnqueueJob, CancelJob, ToBeRun
<1>6. CASE StoreHash \/ CancelRow \/ UNCHANGED jobVars
  BY <1>1, <1>6 DEF StoreHash, CancelRow, jobVars, ToBeRun
<1>7. CASE Push
  <2>1. api.job \in Jobs
    BY <1>7 DEF Push, JobsTypeOK, Free
  <2>2. PICK times \in 0..2 : /\ listed' = [listed EXCEPT ![api.job] = @ + times]
                              /\ pushed' = [pushed EXCEPT ![api.job] = @ + times]
    BY <1>7 DEF Push
  <2>3. ran' = ran /\ ToBeRun(k)' = ToBeRun(k)
    BY <1>7 DEF Push, ToBeRun
  <2>4. CASE api.job = k
    <3>1. listed'[k] = listed[k] + times /\ pushed'[k] = pushed[k] + times
      BY <1>2, <2>2, <2>4
    <3> QED
      BY <1>1, <1>2, <1>3, <2>3, <3>1, SMT
  <2>5. CASE api.job # k
    BY <1>1, <1>2, <2>2, <2>3, <2>5
  <2> QED
    BY <2>4, <2>5
<1>8. ASSUME NEW j \in Jobs, Pop(j)
      PROVE  (ran[k] + listed[k] + ToBeRun(k) <= pushed[k])'
  <2>1. PICK reply \in Replies :
          /\ listed' = IF reply.done THEN [listed EXCEPT ![j] = @ - 1] ELSE listed
          /\ hand' = IF reply.error THEN AtRest ELSE [AtRest EXCEPT !.pc = "check", !.job = j]
          /\ Costs(reply, j)
    BY <1>8 DEF Pop
  <2>2. ran' = ran /\ pushed' = pushed /\ hand = AtRest
    BY <1>8 DEF Pop
  <2>3. listed'[k] = IF reply.done /\ j = k THEN listed[k] - 1 ELSE listed[k]
    BY <1>2, <2>1
  <2>4. ToBeRun(k) = 0
    BY <1>2, <2>2 DEF ToBeRun, AtRest
  <2>5. ToBeRun(k)' = 1 => reply.done /\ j = k
    BY <1>2, <2>1, ReplyFacts DEF ToBeRun, AtRest
  <2> QED
    BY <1>1, <1>2, <1>3, <2>2, <2>3, <2>4, <2>5, SMT
<1>9. CASE Check
  <2>1. hand.pc # "idle" /\ hand.stage = "claim"
    BY <1>9 DEF Check, StageFits
  <2>2. hand' = AtRest \/ Updates("claim", "running")
    BY <1>9 DEF Check
  <2>3. hand'.job = NoJob \/ hand'.job = hand.job
    BY <2>1, <2>2, UpdateFacts DEF AtRest, Statuses
  <2>4. ToBeRun(k)' <= ToBeRun(k)
    BY <1>2, <2>1, <2>3 DEF ToBeRun
  <2> QED
    BY <1>4, <1>9, <2>4 DEF Check
<1>10. CASE Show
  <2>1. hand \in Held /\ hand' = [hand EXCEPT !.pc = "store"]
    BY <1>10, HandFacts DEF Show
  <2>2. ToBeRun(k)' <= ToBeRun(k)
    BY <2>1 DEF ToBeRun, Held
  <2> QED
    BY <1>4, <1>10, <2>2 DEF Show
<1>11. CASE Store
  <2>1. hand.pc # "idle" /\ hand \in Held
    BY <1>11, HandFacts DEF Store
  <2>2. PICK error : Stored(error)
    BY <1>11 DEF Store
  <2>3. \/ hand'.job = NoJob
        \/ hand'.job = hand.job /\ hand'.stage = "fail"
        \/ hand'.job = hand.job /\ hand'.stage = "begin" /\ hand.stage \in {"claim", "begin"}
    BY <2>1, <2>2, UpdateFacts DEF Stored, Fails, AtRest, Held, Statuses
  <2>4. ToBeRun(k)' <= ToBeRun(k)
    BY <1>2, <2>3 DEF ToBeRun
  <2> QED
    BY <1>4, <1>11, <2>4 DEF Store
<1>12. CASE Run
  <2>1. hand.pc # "idle" /\ hand.stage = "begin" /\ hand.job \in Jobs
    BY <1>12, HandFacts DEF Run, StageFits
  <2>2. hand'.job = hand.job /\ hand'.stage \in {"end", "fail"}
    BY <1>12, <2>1, UpdateFacts DEF Run, Decide, Fails, Statuses
  <2>3. ran'[k] = IF hand.job = k THEN ran[k] + 1 ELSE ran[k]
    BY <1>2, <1>12, <2>1 DEF Run
  <2>4. ToBeRun(k)' = 0 /\ (hand.job = k => ToBeRun(k) = 1)
    BY <2>1, <2>2 DEF ToBeRun
  <2>5. listed' = listed /\ pushed' = pushed
    BY <1>12 DEF Run
  <2> QED
    BY <1>1, <1>2, <1>3, <2>3, <2>4, <2>5, SMT
<1>13. CASE Restart
  <2>1. ToBeRun(k)' <= ToBeRun(k)
    BY <1>2, <1>3, <1>13 DEF Restart, ToBeRun, AtRest
  <2> QED
    BY <1>4, <1>13, <2>1 DEF Restart
<1> QED
  BY <1>5, <1>6, <1>7, <1>8, <1>9, <1>10, <1>11, <1>12, <1>13 DEF JobsNext
-----------------------------------------------------------------------------
(* A cancelled row stays so as long as the worker has not looked at the    *)
(* job.                                                                    *)
LEMMA UndoneStep ==
    ASSUME JobsTypeOK, JobsTypeOK', UndoneInv, [JobsNext]_jobVars
    PROVE  UndoneInv'
<1> SUFFICES ASSUME NEW k \in undone'
             PROVE  (row[k] = "cancelled" /\ ran[k] = 0 /\ ~ Looked(k))'
  BY DEF UndoneInv
<1>1. k \in undone => row[k] = "cancelled" /\ ran[k] = 0 /\ ~ Looked(k)
  BY DEF UndoneInv
<1>2. k \in Jobs /\ k # NoJob /\ row \in [Jobs -> Statuses] /\ ran \in [Jobs -> Nat]
  BY JobsAssumption DEF JobsTypeOK
<1>3. ASSUME k \in undone, UNCHANGED <<row, ran>>, ~ Looked(k)'
      PROVE  (row[k] = "cancelled" /\ ran[k] = 0 /\ ~ Looked(k))'
  BY <1>1, <1>3
<1>4. ASSUME NEW j \in Jobs, EnqueueJob(j)
      PROVE  (row[k] = "cancelled" /\ ran[k] = 0 /\ ~ Looked(k))'
  BY <1>1, <1>2, <1>4 DEF EnqueueJob, Set, Looked
<1>5. ASSUME StoreHash \/ Push \/ (\E j \in Jobs : CancelJob(j)) \/ UNCHANGED jobVars
      PROVE  (row[k] = "cancelled" /\ ran[k] = 0 /\ ~ Looked(k))'
  BY <1>1, <1>5 DEF StoreHash, Push, CancelJob, jobVars, Looked
<1>6. CASE CancelRow
  BY <1>1, <1>2, <1>6 DEF CancelRow, Set, Looked
<1>7. ASSUME NEW j \in Jobs, Pop(j)
      PROVE  (row[k] = "cancelled" /\ ran[k] = 0 /\ ~ Looked(k))'
  BY <1>2, <1>3, <1>7 DEF Pop, Looked, AtRest
<1>8. CASE Check
  <2>1. PICK error : IF error \/ Withdrawn(row[hand.job]) THEN hand' = AtRest ELSE Updates("claim", "running")
    BY <1>8 DEF Check
  <2>2. hand' = AtRest \/ (row[hand.job] # "cancelled" /\ Updates("claim", "running"))
    BY <2>1 DEF Withdrawn
  <2>3. hand'.job = NoJob \/ (row[hand.job] # "cancelled" /\ hand'.job = hand.job)
    BY <1>8, <2>2, UpdateFacts DEF Check, AtRest, Statuses
  <2> QED
    BY <1>1, <1>2, <1>3, <1>8, <2>3 DEF Check, Looked
<1>9. CASE Show
  BY <1>1, <1>3, <1>9, HandFacts DEF Show, Looked, Held
<1>10. CASE Store
  <2>1. hand.pc = "store" /\ hand \in Held
    BY <1>10, HandFacts DEF Store
  <2>2. PICK error : Stored(error)
    BY <1>10 DEF Store
  <2>3. hand'.job = NoJob \/ hand'.job = hand.job
    BY <2>1, <2>2, UpdateFacts DEF Stored, Fails, AtRest, Held, Statuses
  <2>4. k # hand.job
    BY <1>1, <1>10, <2>1 DEF Store, Looked
  <2> QED
    BY <1>1, <1>2, <1>10, <2>1, <2>3, <2>4 DEF Store, Set, Looked
<1>11. CASE Run
  <2>1. hand.pc = "run" /\ hand'.job = hand.job /\ hand.job \in Jobs
    BY <1>11, HandFacts, UpdateFacts DEF Run, Decide, Fails, Statuses
  <2> QED
    BY <1>1, <1>2, <1>11, <2>1 DEF Run, Looked
<1>12. CASE Restart
  BY <1>1, <1>2, <1>12 DEF Restart, Looked, AtRest
<1> QED
  BY <1>4, <1>5, <1>6, <1>7, <1>8, <1>9, <1>10, <1>11, <1>12 DEF JobsNext

(* A job is put into a list, and taken in hand, after its row was          *)
(* written.                                                                *)
LEMMA UnknownStep ==
    ASSUME JobsTypeOK, JobsTypeOK', StageFits, UnknownInv, [JobsNext]_jobVars
    PROVE  UnknownInv'
<1> SUFFICES ASSUME NEW k \in Jobs, k \notin faulted', row'[k] = "none"
             PROVE  (listed[k] = 0 /\ hand.job # k /\ api.job # k)'
  BY DEF UnknownInv
<1>1. k \notin faulted /\ row[k] = "none" => listed[k] = 0 /\ hand.job # k /\ api.job # k
  BY DEF UnknownInv
<1>2. /\ k # NoJob /\ row \in [Jobs -> Statuses] /\ listed \in [Jobs -> Nat]
      /\ errors \in 0..MaxErrors
  BY JobsAssumption DEF JobsTypeOK
<1> USE DEF Set
<1>3. ASSUME NEW j \in Jobs, EnqueueJob(j) PROVE (listed[k] = 0 /\ hand.job # k /\ api.job # k)'
  BY <1>1, <1>2, <1>3, ReplyFacts DEF EnqueueJob, Free
<1>4. ASSUME NEW j \in Jobs, CancelJob(j) PROVE (listed[k] = 0 /\ hand.job # k /\ api.job # k)'
  BY <1>1, <1>2, <1>4, ReplyFacts DEF CancelJob, Free
<1>5. CASE StoreHash
  <2>1. api \in [pc : {"hash", "push", "cancel"}, job : Jobs]
    BY <1>5 DEF StoreHash, JobsTypeOK, Free
  <2> QED
    BY <1>1, <1>2, <1>5, <2>1, ReplyFacts DEF StoreHash, Free
<1>6. CASE Push
  <2>1. api.job \in Jobs
    BY <1>6 DEF Push, JobsTypeOK, Free
  <2> QED
    BY <1>1, <1>2, <1>6, <2>1, ReplyFacts DEF Push, Free
<1>7. CASE CancelRow
  BY <1>1, <1>2, <1>7, ReplyFacts DEF CancelRow, Free
<1>8. ASSUME NEW j \in Jobs, Pop(j) PROVE (listed[k] = 0 /\ hand.job # k /\ api.job # k)'
  BY <1>1, <1>2, <1>8, ReplyFacts DEF Pop, AtRest
<1>9. CASE Check
  <2>1. hand'.job = NoJob \/ hand'.job = hand.job
    BY <1>9, UpdateFacts DEF Check, AtRest, Statuses
  <2> QED
    BY <1>1, <1>2, <1>9, <2>1, ReplyFacts DEF Check
<1>10. CASE Show
  <2>1. hand'.job = hand.job
    BY <1>10, HandFacts DEF Show, Held
  <2> QED
    BY <1>1, <1>2, <1>10, <2>1, ReplyFacts DEF Show
<1>11. CASE Store
  <2>1. hand \in Held /\ hand.job \in Jobs /\ hand.to # "none"
    BY <1>11, HandFacts DEF Store, StageFits, Held
  <2>2. PICK error : Stored(error)
    BY <1>11 DEF Store
  <2>3. hand'.job = NoJob \/ hand'.job = hand.job
    BY <1>11, <2>1, <2>2, UpdateFacts DEF Store, Stored, Fails, AtRest, Held, Statuses
  <2> QED
    BY <1>1, <1>2, <1>11, <2>1, <2>3, ReplyFacts DEF Store
<1>12. CASE Run
  <2>1. hand'.job = hand.job
    BY <1>12, UpdateFacts DEF Run, Decide, Fails, Statuses
  <2> QED
    BY <1>1, <1>12, <2>1 DEF Run
<1>13. CASE Restart
  BY <1>1, <1>2, <1>13 DEF Restart, Free, AtRest
<1>14. CASE UNCHANGED jobVars
  BY <1>1, <1>14 DEF jobVars
<1> QED
  BY <1>3, <1>4, <1>5, <1>6, <1>7, <1>8, <1>9, <1>10, <1>11, <1>12, <1>13, <1>14 DEF JobsNext

(* Unless two writers cross or a call fails, the hash follows the row.     *)
LEMMA ToldStep ==
    ASSUME JobsTypeOK, JobsTypeOK', UnknownInv, ToldInv, [JobsNext]_jobVars
    PROVE  ToldInv'
<1> SUFFICES ASSUME NEW k \in Jobs, k \notin crossed', k \notin faulted'
             PROVE  Told(k)'
  BY DEF ToldInv
<1>1. k \notin crossed /\ k \notin faulted => Told(k)
  BY DEF ToldInv
<1>2. /\ k # NoJob /\ row \in [Jobs -> Statuses] /\ shown \in [Jobs -> Statuses]
      /\ listed \in [Jobs -> Nat] /\ errors \in 0..MaxErrors
  BY JobsAssumption DEF JobsTypeOK
<1>3. k \notin faulted /\ row[k] = "none" => hand.job # k
  BY DEF UnknownInv
<1> USE DEF Set, Told, Quiet
<1>4. ASSUME NEW j \in Jobs, EnqueueJob(j) PROVE Told(k)'
  BY <1>1, <1>2, <1>3, <1>4, ReplyFacts DEF EnqueueJob, Free
<1>5. ASSUME NEW j \in Jobs, CancelJob(j) PROVE Told(k)'
  BY <1>1, <1>2, <1>5, ReplyFacts DEF CancelJob, Free, Crosses
<1>6. CASE StoreHash
  <2>1. api \in [pc : {"hash", "push", "cancel"}, job : Jobs]
    BY <1>6 DEF StoreHash, JobsTypeOK, Free
  <2> QED
    BY <1>1, <1>2, <1>6, <2>1, ReplyFacts DEF StoreHash, Free
<1>7. CASE Push
  BY <1>1, <1>2, <1>7, ReplyFacts DEF Push, Free
<1>8. CASE CancelRow
  BY <1>1, <1>2, <1>8, ReplyFacts DEF CancelRow, Free, Crosses
<1>9. ASSUME NEW j \in Jobs, Pop(j) PROVE Told(k)'
  BY <1>1, <1>2, <1>9, ReplyFacts DEF Pop, AtRest
<1>10. CASE Check
  <2>1. hand.pc = "check" /\ hand'.pc # "store" /\ (hand'.job = NoJob \/ hand'.job = hand.job)
    BY <1>10, UpdateFacts DEF Check, AtRest, Statuses
  <2> QED
    BY <1>1, <1>2, <1>10, <2>1, ReplyFacts DEF Check
<1>11. CASE Show
  <2>1. hand \in Held
    BY <1>11, HandFacts DEF Show
  <2>2. hand' = [hand EXCEPT !.pc = "store"]
    BY <1>11 DEF Show
  <2>3. hand.pc = "show" /\ hand'.pc = "store" /\ hand'.job = hand.job /\ hand'.to = hand.to
    BY <1>11, <2>1, <2>2 DEF Held, Show
  <2> QED
    BY <1>1, <1>2, <1>11, <2>3, ReplyFacts DEF Show
<1>12. CASE Store
  <2>1. hand.pc = "store" /\ hand \in Held
    BY <1>12, HandFacts DEF Store
  <2>2. PICK error : Stored(error)
    BY <1>12 DEF Store
  <2>3. hand'.pc # "store" /\ (hand'.job = NoJob \/ hand'.job = hand.job)
    BY <2>1, <2>2, UpdateFacts DEF Stored, Fails, AtRest, Held, Statuses
  <2> QED
    BY <1>1, <1>2, <1>12, <2>1, <2>3, ReplyFacts DEF Store
<1>13. CASE Run
  <2>1. hand.pc = "run" /\ hand'.job = hand.job /\ hand'.pc = "show"
    BY <1>13, UpdateFacts DEF Run, Decide, Fails, Statuses
  <2> QED
    BY <1>1, <1>13, <2>1 DEF Run
<1>14. CASE Restart
  BY <1>1, <1>2, <1>14 DEF Restart, Free, AtRest
<1>15. CASE UNCHANGED jobVars
  BY <1>1, <1>15 DEF jobVars
<1> QED
  BY <1>4, <1>5, <1>6, <1>7, <1>8, <1>9, <1>10, <1>11, <1>12, <1>13, <1>14, <1>15 DEF JobsNext

-----------------------------------------------------------------------------
JobsInv == JobsTypeOK /\ AccountInv /\ UndoneInv /\ UnknownInv /\ ToldInv

LEMMA JobsInvInit == JobsInit => JobsInv
<1> SUFFICES ASSUME JobsInit PROVE JobsInv
  OBVIOUS
<1>1. JobsTypeOK
  BY JobsInitType
<1>2. AccountInv
  BY JobsAssumption DEF JobsInit, AccountInv, StageFits, Stuck, EachPushOnce, ToBeRun, AtRest
<1>3. UndoneInv /\ UnknownInv /\ ToldInv
  BY JobsAssumption
  DEF JobsInit, UndoneInv, UnknownInv, ToldInv, Told, Quiet, Free, AtRest
<1> QED
  BY <1>1, <1>2, <1>3 DEF JobsInv

LEMMA JobsInvStep == JobsInv /\ [JobsNext]_jobVars => JobsInv'
<1> SUFFICES ASSUME JobsInv, [JobsNext]_jobVars PROVE JobsInv'
  OBVIOUS
<1>1. JobsTypeOK'
  BY JobsTypeStep DEF JobsInv
<1>2. AccountInv'
  BY <1>1, StageFitsStep, StuckStep, EachPushOnceStep DEF JobsInv, AccountInv
<1>3. UndoneInv' /\ UnknownInv' /\ ToldInv'
  BY <1>1, UndoneStep, UnknownStep, ToldStep DEF JobsInv, AccountInv
<1> QED
  BY <1>1, <1>2, <1>3 DEF JobsInv

(* The invariant of the jobs holds in every state.                         *)
LEMMA JobsInvHolds == JobsSpec => []JobsInv
BY JobsInvInit, JobsInvStep, PTL DEF JobsSpec

(* No job is forgotten without a failed call or a death to blame, and none *)
(* is run more often than it was listed: enqueue_job, cancel_job and       *)
(* _process_job, interleaved in any way, for any number of jobs.           *)
THEOREM JobsAreAccountedFor == JobsSpec => []JobsAccountedFor
<1>1. JobsInv => JobsAccountedFor
  <2> SUFFICES ASSUME JobsInv PROVE JobsAccountedFor
    OBVIOUS
  <2>1. ASSUME NEW j \in Jobs PROVE ran[j] <= pushed[j]
    <3>1. ran[j] \in Nat /\ listed[j] \in Nat /\ pushed[j] \in Nat /\ ToBeRun(j) \in {0, 1}
      BY DEF JobsInv, JobsTypeOK, ToBeRun
    <3>2. ran[j] + listed[j] + ToBeRun(j) <= pushed[j]
      BY DEF JobsInv, AccountInv, EachPushOnce
    <3> QED
      BY <3>1, <3>2, SMT
  <2> QED
    BY <2>1 DEF JobsInv, AccountInv, JobsAccountedFor
<1> QED
  BY <1>1, JobsInvHolds, PTL

(* A cancelled job stays cancelled and is not run unless the worker had    *)
(* looked at it, and Redis tells of a quiet job what the row says, unless  *)
(* a cancellation met the worker or a call failed.                         *)
THEOREM StatusIsTold == JobsSpec => []StatusTold
<1>1. JobsInv => StatusTold
  BY DEF JobsInv, UndoneInv, ToldInv, Told, StatusTold
<1> QED
  BY <1>1, JobsInvHolds, PTL

-----------------------------------------------------------------------------
(* What the worker has in hand is still as it was when it took it, but for *)
(* a cancellation; without a reminder no notification is about one.        *)
RowPhases == {"reminder", "mark", "next"}
NotePhases == {"note", "send", "sent", "retry", "failed"}
RowsInHand ==
    /\ work.pc \in RowPhases => work.left \subseteq {i \in DOMAIN rows : ~ rows[i].sent}
    /\ work.pc \in {"mark", "next"} => work.id \in DOMAIN rows \ work.left
    /\ work.pc = "mark" => ~ rows[work.id].sent
Sendable == {n \in DOMAIN notes : notes[n].status = "pending" /\ RetriesLeft(notes[n])}
NotesInHand ==
    /\ work.pc \in NotePhases => work.left \subseteq Sendable
    /\ work.pc \in NotePhases \ {"note"} => work.id \in Sendable \ work.left
    /\ work.pc = "failed" => faults > 0
NothingInHand == work.pc = "idle" => work = Idle
NoneToRemind == rows = <<>> => \A n \in DOMAIN notes : notes[n].day = 0

(* Rows of one day, and those not sent of earlier ones, from which such    *)
(* rows may yet come, are one and those that failures have made.           *)
Unsent(day) == {i \in DOMAIN rows : rows[i].day <= day /\ ~ rows[i].sent}
Toward(day) == {i \in DOMAIN rows : rows[i].day = day} \cup Unsent(day - 1)
Coming(day) == IF work.pc = "next" /\ rows[work.id].day < day THEN 1 ELSE 0
RowsPaid == \A day \in Days : Cardinality(Toward(day)) + Coming(day) <= 1 + faults

(* So are the notifications of a day and the rows that may yet lead to one *)
(* more, but for the row that has just been queued and is to be marked.    *)
Queued(day) == IF work.pc = "mark" /\ rows[work.id].day = day THEN 1 ELSE 0
RemindersPaid ==
    \A day \in Days :
        Cardinality(Reminded(day)) + Cardinality(Unsent(day)) + Coming(day)
            <= 1 + faults + crashes + Queued(day)

(* Of a notification every try is counted as a retry, was the last, is     *)
(* being recorded, or was paid for.                                        *)
Last(n) == IF notes[n].status = "sent" \/ (work.pc \in {"sent", "retry"} /\ work.id = n) THEN 1 ELSE 0
TriesPaid ==
    \A n \in DOMAIN notes :
        /\ notes[n].tries <= notes[n].retries + faults + crashes + Last(n)
        /\ notes[n].status = "sent" => RetriesLeft(notes[n])
        /\ notes[n].status = "failed" => faults > 0

NotificationsInv ==
    /\ TypeOK /\ RowsInHand /\ NotesInHand /\ NothingInHand /\ NoneToRemind
    /\ RowsPaid /\ RemindersPaid /\ TriesPaid

-----------------------------------------------------------------------------
(* Sequences that grow by one, and that change in one place.               *)
Longer(S, s, t, e) ==
    /\ t \in Seq(S) /\ Len(s) + 1 \notin DOMAIN s /\ DOMAIN t = DOMAIN s \cup {Len(s) + 1}
    /\ t[Len(s) + 1] = e /\ \A i \in DOMAIN s : t[i] = s[i]
Altered(S, s, t, i, e) ==
    /\ t \in Seq(S) /\ DOMAIN t = DOMAIN s /\ i \in DOMAIN s
    /\ t[i] = e /\ \A j \in DOMAIN s \ {i} : t[j] = s[j]

(* An entry appended is the last of a longer sequence.                     *)
LEMMA Lengthens ==
    ASSUME NEW S, NEW s \in Seq(S), NEW e \in S, NEW t, t = Append(s, e)
    PROVE  Longer(S, s, t, e)
  BY DEF Longer

(* An entry replaced leaves the others alone.                              *)
LEMMA Alters ==
    ASSUME NEW S, NEW s \in Seq(S), NEW i \in DOMAIN s, NEW e \in S, NEW t, t = [s EXCEPT ![i] = e]
    PROVE  Altered(S, s, t, i, e)
<1>1. i \in 1..Len(s) /\ DOMAIN s = 1..Len(s)
  OBVIOUS
<1>2. /\ t \in Seq(S) /\ Len(t) = Len(s)
      /\ \A j \in 1..Len(s) : t[j] = IF j = i THEN e ELSE s[j]
  BY <1>1, ExceptSeq
<1>3. DOMAIN t = 1..Len(s)
  BY <1>2
<1> QED
  BY <1>1, <1>2, <1>3 DEF Altered

(* The two tables, and the worker's hands.                                 *)
RowRec == [day : Days, active : BOOLEAN, sent : BOOLEAN]
NoteRec == [day : 0..LastDay, due : 0..LastDay, status : {"pending", "sent", "failed"},
            retries : 0..MaxRetries, tries : 0..MaxTries]
Hand(pc, left, id) == [pc |-> pc, left |-> left, id |-> id]

(* What the types say of the two tables, the counters and the constants.   *)
LEMMA Tables ==
    ASSUME TypeOK
    PROVE  /\ rows \in Seq(RowRec) /\ \A i \in DOMAIN rows : rows[i] \in RowRec
           /\ notes \in Seq(NoteRec) /\ \A n \in DOMAIN notes : notes[n] \in NoteRec
           /\ DOMAIN rows = 1..Len(rows) /\ Len(rows) \in Nat
           /\ DOMAIN notes = 1..Len(notes) /\ Len(notes) \in Nat
           /\ faults \in Nat /\ crashes \in Nat /\ now \in 0..LastDay
           /\ LastDay \in Nat \ {0} /\ MaxRetries \in Nat \ {0} /\ MaxFaults \in Nat /\ MaxCrashes \in Nat
           /\ MaxTries \in Nat
<1>1. rows \in Seq(RowRec) /\ notes \in Seq(NoteRec) /\ faults \in 0..MaxFaults /\ crashes \in 0..MaxCrashes /\ now \in 0..LastDay
  BY DEF TypeOK, RowRec, NoteRec
<1>2. /\ LastDay \in Nat \ {0} /\ MaxRetries \in Nat \ {0} /\ MaxFaults \in Nat /\ MaxCrashes \in Nat
  BY WorkerAssumption
<1>3. MaxTries \in Nat
  BY <1>2 DEF MaxTries
<1>4. \A i \in DOMAIN rows : rows[i] \in RowRec
  BY <1>1
<1>5. \A n \in DOMAIN notes : notes[n] \in NoteRec
  BY <1>1
<1>6. DOMAIN rows = 1..Len(rows) /\ Len(rows) \in Nat
  BY <1>1
<1>7. DOMAIN notes = 1..Len(notes) /\ Len(notes) \in Nat
  BY <1>1
<1>8. faults \in Nat /\ crashes \in Nat
  BY <1>1, <1>2
<1> QED
  BY <1>1, <1>2, <1>3, <1>4, <1>5, <1>6, <1>7, <1>8

(* New rows and notifications have the types of the tables.                *)
LEMMA NewEntries ==
    ASSUME TypeOK
    PROVE  /\ \A day \in Days : Row(day) \in RowRec
           /\ \A day, due \in 0..LastDay : Note(day, due) \in NoteRec
           /\ \A i \in DOMAIN rows : rows[i].day \in Days /\ rows[i].day \in 0..LastDay
<1>1. /\ LastDay \in Nat \ {0} /\ MaxRetries \in Nat \ {0} /\ MaxTries \in Nat
      /\ \A i \in DOMAIN rows : rows[i] \in RowRec
  BY Tables
<1>2. 0 \in 0..MaxRetries /\ 0 \in 0..MaxTries
  BY <1>1
<1>3. \A day \in Days : Row(day) \in RowRec
  BY DEF Row, RowRec
<1>4. \A day, due \in 0..LastDay : Note(day, due) \in NoteRec
  BY <1>2 DEF Note, NoteRec
<1>5. Days \subseteq 0..LastDay
  BY <1>1 DEF Days
<1> QED
  BY <1>1, <1>3, <1>4, <1>5 DEF RowRec

(* The steps, by what they do.                                             *)
Aside == UNCHANGED <<rows, notes, work, faults, crashes>>
Created == \E day \in Days :
    rows = <<>> /\ Longer(RowRec, rows, rows', Row(day)) /\ UNCHANGED <<notes, work, faults, crashes>>
Cancelled == \E i \in DOMAIN rows :
    /\ Live(i) /\ Altered(RowRec, rows, rows', i, [rows[i] EXCEPT !.active = FALSE])
    /\ UNCHANGED <<notes, work, faults, crashes>>
AskedFor == \E due \in 0..LastDay :
    Longer(NoteRec, notes, notes', Note(0, due)) /\ UNCHANGED <<rows, work, faults, crashes>>
RowsTaken == work = Idle /\ DueRows # {} /\ work' = Hand("reminder", DueRows, 0) /\ UNCHANGED <<rows, notes, faults, crashes>>
NotesTaken == work = Idle /\ work' = Hand("note", DueNotes, 0) /\ UNCHANGED <<rows, notes, faults, crashes>>
RowQueued == \E i \in work.left :
    /\ work.pc = "reminder" /\ UNCHANGED <<rows, crashes>>
    /\ \/ /\ Longer(NoteRec, notes, notes', Note(rows[i].day, 0)) /\ faults' = faults
          /\ work' = Hand("mark", work.left \ {i}, i)
       \/ /\ notes' = notes \/ Longer(NoteRec, notes, notes', Note(rows[i].day, 0))
          /\ faults' = faults + 1
          /\ work' = GoOn("reminder", work.left \ {i})
RowMarked ==
    /\ work.pc = "mark" /\ UNCHANGED <<notes, crashes>> /\ work' = Hand("next", work.left, work.id)
    /\ \/ Altered(RowRec, rows, rows', work.id, Marked(rows[work.id])) /\ faults' \in {faults, faults + 1}
       \/ rows' = rows /\ faults' = faults + 1
Scheduled ==
    /\ work.pc = "next" /\ UNCHANGED <<notes, crashes>> /\ work' = GoOn("reminder", work.left)
    /\ faults' \in {faults, faults + 1}
    /\ \/ rows' = rows
       \/ Longer(RowRec, rows, rows', Row(rows[work.id].day + 1)) /\ rows[work.id].day + 1 \in Days
PreferencesRead == \E n \in work.left :
    /\ work.pc = "note" /\ UNCHANGED <<rows, notes, crashes>>
    /\ \/ work' = Hand("send", work.left \ {n}, n) /\ faults' = faults
       \/ work' = Hand("failed", work.left \ {n}, n) /\ faults' = faults + 1
Tried(note) == [note EXCEPT !.tries = IF @ = MaxTries THEN @ ELSE @ + 1]
NoteSent ==
    /\ work.pc = "send" /\ UNCHANGED <<rows, faults, crashes>>
    /\ Altered(NoteRec, notes, notes', work.id, Tried(notes[work.id]))
    /\ \E pc \in {"sent", "retry"} : work' = Hand(pc, work.left, work.id)
Recorded ==
    /\ work.pc \in {"sent", "retry", "failed"} /\ UNCHANGED <<rows, crashes>> /\ work' = GoOn("note", work.left)
    /\ \/ Altered(NoteRec, notes, notes', work.id, Outcome(notes[work.id], work.pc)) /\ faults' \in {faults, faults + 1}
       \/ notes' = notes /\ faults' = faults + 1
Crashed == work # Idle /\ work' = Idle /\ crashes' = crashes + 1 /\ UNCHANGED <<rows, notes, faults>>
Happens ==
    \/ Aside \/ Created \/ Cancelled \/ AskedFor \/ RowsTaken \/ NotesTaken \/ RowQueued \/ RowMarked \/ Scheduled
    \/ PreferencesRead \/ NoteSent \/ Recorded \/ Crashed

HandsFit == RowsInHand /\ NotesInHand /\ NothingInHand

(* A statement that reports no error has taken effect.                     *)
LEMMA AnswersAre ==
    ASSUME NEW answer \in Answers
    PROVE  /\ answer.done \in BOOLEAN /\ answer.error \in BOOLEAN
           /\ ~ answer.error => answer.done
           /\ answer.error => faults < MaxFaults
<1>1. CASE answer = [done |-> TRUE, error |-> FALSE]
  BY <1>1
<1>2. CASE faults < MaxFaults /\ answer \in [done : BOOLEAN, error : {TRUE}]
  BY <1>2
<1>3. answer \in [done : BOOLEAN, error : {TRUE}] => faults < MaxFaults \/ answer = [done |-> TRUE, error |-> FALSE]
  BY DEF Answers
<1> QED
  BY <1>1, <1>2, <1>3 DEF Answers

(* Every step is one of the happenings above, and keeps the counters in    *)
(* their bounds.                                                           *)
LEMMA Happenings ==
    ASSUME TypeOK, HandsFit, [Next]_vars
    PROVE  Happens /\ faults' \in 0..MaxFaults /\ crashes' \in 0..MaxCrashes /\ now' \in 0..LastDay /\ broken' \in BOOLEAN
<1> DEFINE Counts == faults' \in 0..MaxFaults /\ crashes' \in 0..MaxCrashes /\ now' \in 0..LastDay /\ broken' \in BOOLEAN
<1>1. /\ rows \in Seq(RowRec) /\ notes \in Seq(NoteRec)
      /\ \A i \in DOMAIN rows : rows[i] \in RowRec
      /\ \A n \in DOMAIN notes : notes[n] \in NoteRec
      /\ faults \in Nat /\ crashes \in Nat /\ LastDay \in Nat \ {0} /\ MaxFaults \in Nat /\ MaxCrashes \in Nat
      /\ MaxRetries \in Nat \ {0} /\ MaxTries \in Nat
  BY Tables
<1>2. /\ faults \in 0..MaxFaults /\ crashes \in 0..MaxCrashes /\ now \in 0..LastDay /\ broken \in BOOLEAN
      /\ work \in [pc : {"idle", "reminder", "mark", "next", "note", "send", "sent", "retry", "failed"},
                   left : SUBSET (DOMAIN rows \cup DOMAIN notes), id : 0..(Len(rows) + Len(notes))]
  BY DEF TypeOK
<1>3. \A a \in Answers : Count(a) =>
        /\ faults' \in 0..MaxFaults /\ faults' \in {faults, faults + 1}
        /\ a.error => faults' = faults + 1
        /\ ~ a.error => faults' = faults /\ a.done
  BY <1>1, <1>2, AnswersAre DEF Count
<1>4. ASSUME NEW i \in DOMAIN rows, NEW e \in RowRec, rows' = [rows EXCEPT ![i] = e]
      PROVE  Altered(RowRec, rows, rows', i, e)
  BY <1>1, <1>4, Alters
<1>5. ASSUME NEW n \in DOMAIN notes, NEW e \in NoteRec, notes' = [notes EXCEPT ![n] = e]
      PROVE  Altered(NoteRec, notes, notes', n, e)
  BY <1>1, <1>5, Alters
<1>6. CASE CreateReminder
  <2>1. PICK day \in Days : rows' = <<Row(day)>>
    BY <1>6 DEF CreateReminder
  <2>2. rows = <<>> /\ rows' = Append(rows, Row(day)) /\ Row(day) \in RowRec
    BY <1>6, <2>1, NewEntries DEF CreateReminder
  <2>3. Longer(RowRec, rows, rows', Row(day))
    BY <1>1, <2>2, Lengthens
  <2> QED
    BY <1>2, <1>6, <2>2, <2>3 DEF CreateReminder, Happens, Created
<1>7. ASSUME NEW i \in DOMAIN rows, CancelReminder(i) PROVE Happens /\ Counts
  <2>1. [rows[i] EXCEPT !.active = FALSE] \in RowRec
    BY <1>1 DEF RowRec
  <2>2. rows' = [rows EXCEPT ![i] = [rows[i] EXCEPT !.active = FALSE]]
    BY <1>7 DEF CancelReminder
  <2>3. Altered(RowRec, rows, rows', i, [rows[i] EXCEPT !.active = FALSE])
    BY <1>4, <2>1, <2>2
  <2> QED
    BY <1>2, <1>7, <2>3 DEF CancelReminder, Live, Happens, Cancelled
<1>8. CASE SendNotification
  <2>1. PICK due \in {0, LastDay} : notes' = Append(notes, Note(0, due))
    BY <1>8 DEF SendNotification
  <2>2. due \in 0..LastDay /\ Note(0, due) \in NoteRec
    BY <1>1, NewEntries
  <2>3. Longer(NoteRec, notes, notes', Note(0, due))
    BY <1>1, <2>1, <2>2, Lengthens
  <2> QED
    BY <1>2, <1>8, <2>2, <2>3 DEF SendNotification, Happens, AskedFor
<1>9. CASE NextDay \/ UNCHANGED vars
  BY <1>1, <1>2, <1>9 DEF NextDay, vars, Happens, Aside
<1>10. CASE TakeReminders \/ TakeNotes
  BY <1>2, <1>10 DEF TakeReminders, TakeNotes, GoOn, Happens, RowsTaken, NotesTaken, Hand
<1>11. CASE QueueReminder
  <2>1. PICK i \in work.left, answer \in Answers :
          /\ notes' = IF answer.done THEN Append(notes, Note(rows[i].day, 0)) ELSE notes
          /\ work' = IF answer.error THEN GoOn("reminder", work.left \ {i})
                     ELSE [pc |-> "mark", left |-> work.left \ {i}, id |-> i]
          /\ Count(answer)
    BY <1>11 DEF QueueReminder
  <2>2. work.pc = "reminder" /\ UNCHANGED <<rows, now, broken, crashes>>
    BY <1>11 DEF QueueReminder
  <2>3. i \in DOMAIN rows /\ 0 \in 0..LastDay
    BY <1>1, <2>2 DEF HandsFit, RowsInHand, RowPhases
  <2>4. Note(rows[i].day, 0) \in NoteRec
    BY <2>3, NewEntries
  <2>5. answer.done => Longer(NoteRec, notes, notes', Note(rows[i].day, 0))
    BY <1>1, <2>1, <2>4, Lengthens
  <2> QED
    BY <1>2, <1>3, <2>1, <2>2, <2>5 DEF Happens, RowQueued, Hand
<1>12. CASE MarkReminder
  <2>1. PICK answer \in Answers :
          rows' = (IF answer.done THEN [rows EXCEPT ![work.id] = Marked(@)] ELSE rows) /\ Count(answer)
    BY <1>12 DEF MarkReminder
  <2>2. work.pc = "mark" /\ work' = [work EXCEPT !.pc = "next"] /\ UNCHANGED <<notes, now, broken, crashes>>
    BY <1>12 DEF MarkReminder
  <2>3. work.id \in DOMAIN rows
    BY <2>2 DEF HandsFit, RowsInHand
  <2>4. Marked(rows[work.id]) \in RowRec
    BY <1>1, <2>3 DEF Marked, RowRec
  <2>5. answer.done => Altered(RowRec, rows, rows', work.id, Marked(rows[work.id]))
    BY <1>4, <2>1, <2>3, <2>4
  <2>6. work' = Hand("next", work.left, work.id)
    BY <1>2, <2>2 DEF Hand
  <2> QED
    BY <1>2, <1>3, <2>1, <2>2, <2>5, <2>6 DEF Happens, RowMarked
<1>13. CASE ScheduleNext
  <2>1. work.pc = "next" /\ work' = GoOn("reminder", work.left) /\ UNCHANGED <<notes, now, crashes>>
    BY <1>13 DEF ScheduleNext
  <2>2. work.id \in DOMAIN rows
    BY <2>1 DEF HandsFit, RowsInHand
  <2>3. CASE Recurs(rows[work.id].day)
    <3>1. PICK answer \in Answers :
            /\ rows' = IF answer.done THEN Append(rows, Row(rows[work.id].day + 1)) ELSE rows
            /\ broken' = (broken \/ (~ answer.done /\ Abandons))
            /\ Count(answer)
      BY <1>13, <2>3 DEF ScheduleNext
    <3>2. rows[work.id].day + 1 \in Days
      BY <1>1, <2>2, <2>3 DEF Recurs, RowRec, Days
    <3>3. answer.done => Longer(RowRec, rows, rows', Row(rows[work.id].day + 1))
      BY <1>1, <3>1, <3>2, NewEntries, Lengthens
    <3>4. broken' \in BOOLEAN
      BY <3>1, Zenon
    <3> QED
      BY <1>2, <1>3, <2>1, <3>1, <3>2, <3>3, <3>4 DEF Happens, Scheduled
  <2>4. CASE ~ Recurs(rows[work.id].day)
    BY <1>2, <1>13, <2>1, <2>4 DEF ScheduleNext, Happens, Scheduled
  <2> QED
    BY <2>3, <2>4
<1>14. CASE ReadPreferences
  <2>1. PICK n \in work.left, answer \in Answers :
          /\ work' = [pc |-> IF answer.error THEN "failed" ELSE "send", left |-> work.left \ {n}, id |-> n]
          /\ Count(answer)
    BY <1>14 DEF ReadPreferences
  <2> QED
    BY <1>2, <1>3, <1>14, <2>1 DEF ReadPreferences, Happens, PreferencesRead, Hand
<1>15. CASE Send
  <2>1. work.pc = "send" /\ UNCHANGED <<rows, now, broken, faults, crashes>>
    BY <1>15 DEF Send
  <2>2. work.id \in DOMAIN notes
    BY <2>1 DEF HandsFit, NotesInHand, NotePhases, Sendable
  <2>3. Tried(notes[work.id]) \in NoteRec
    <3>1. notes[work.id] \in NoteRec /\ notes[work.id].tries \in 0..MaxTries
      BY <1>1, <2>2 DEF NoteRec
    <3>2. (IF notes[work.id].tries = MaxTries THEN notes[work.id].tries ELSE notes[work.id].tries + 1) \in 0..MaxTries
      BY <1>1, <3>1
    <3> QED
      BY <3>1, <3>2 DEF Tried, NoteRec
  <2>4. notes' = [notes EXCEPT ![work.id] = Tried(notes[work.id])]
    BY <1>15 DEF Send, Tried
  <2>5. Altered(NoteRec, notes, notes', work.id, Tried(notes[work.id]))
    BY <1>5, <2>2, <2>3, <2>4
  <2>6. \E pc \in {"sent", "retry"} : work' = Hand(pc, work.left, work.id)
    BY <1>2, <1>15 DEF Send, Hand
  <2> QED
    BY <1>2, <2>1, <2>5, <2>6 DEF Happens, NoteSent
<1>16. CASE Record
  <2>1. PICK answer \in Answers :
          notes' = (IF answer.done THEN [notes EXCEPT ![work.id] = Outcome(@, work.pc)] ELSE notes) /\ Count(answer)
    BY <1>16 DEF Record
  <2>2. work.pc \in {"sent", "retry", "failed"} /\ work' = GoOn("note", work.left) /\ UNCHANGED <<rows, now, broken, crashes>>
    BY <1>16 DEF Record
  <2>3. work.id \in DOMAIN notes /\ RetriesLeft(notes[work.id])
    BY <2>2 DEF HandsFit, NotesInHand, NotePhases, Sendable
  <2>4. Outcome(notes[work.id], work.pc) \in NoteRec
    <3>1. notes[work.id] \in NoteRec /\ notes[work.id].retries + 1 \in 0..MaxRetries
      <4>1. notes[work.id] \in NoteRec /\ notes[work.id].retries < MaxRetries
        BY <1>1, <2>3 DEF RetriesLeft
      <4>2. notes[work.id].retries \in 0..MaxRetries
        BY <4>1 DEF NoteRec
      <4> QED
        BY <1>1, <4>1, <4>2
    <3>2. [notes[work.id] EXCEPT !.retries = @ + 1] \in NoteRec
      BY <3>1 DEF NoteRec
    <3>3. work.pc # "retry" => [notes[work.id] EXCEPT !.status = work.pc] \in NoteRec
      BY <2>2, <3>1 DEF NoteRec
    <3> QED
      BY <3>2, <3>3 DEF Outcome
  <2>5. answer.done => Altered(NoteRec, notes, notes', work.id, Outcome(notes[work.id], work.pc))
    BY <1>5, <2>1, <2>3, <2>4
  <2> QED
    BY <1>2, <1>3, <2>1, <2>2, <2>5 DEF Happens, Recorded
<1>17. CASE Crash
  BY <1>1, <1>2, <1>17 DEF Crash, Happens, Crashed
<1> QED
  BY <1>6, <1>7, <1>8, <1>9, <1>10, <1>11, <1>12, <1>13, <1>14, <1>15, <1>16, <1>17
  DEF Next, Worker, Reminders, Notifications

(* What a step leaves of the entries there were.                           *)
RowsKept == DOMAIN rows \subseteq DOMAIN rows' /\ \A i \in DOMAIN rows : rows'[i].day = rows[i].day
NotesKept == DOMAIN notes \subseteq DOMAIN notes' /\ \A n \in DOMAIN notes : notes'[n].day = notes[n].day
(* Neither table loses an entry, and none changes its day.                 *)
LEMMA EntriesKept ==
    ASSUME TypeOK, Happens
    PROVE  RowsKept /\ NotesKept
<1>1. \A i \in DOMAIN rows : rows[i] \in RowRec
  BY Tables
<1>2. \A n \in DOMAIN notes : notes[n] \in NoteRec
  BY Tables
<1>3. ASSUME NEW i \in DOMAIN rows PROVE Marked(rows[i]).day = rows[i].day /\ [rows[i] EXCEPT !.active = FALSE].day = rows[i].day
  BY <1>1 DEF Marked, RowRec
<1>4. ASSUME NEW n \in DOMAIN notes, NEW pc PROVE Tried(notes[n]).day = notes[n].day /\ Outcome(notes[n], pc).day = notes[n].day
  BY <1>2 DEF Tried, Outcome, NoteRec
<1>5. ASSUME NEW e, Longer(RowRec, rows, rows', e) PROVE RowsKept
  BY <1>5 DEF Longer, RowsKept
<1>6. ASSUME NEW i, NEW e, e.day = rows[i].day, Altered(RowRec, rows, rows', i, e) PROVE RowsKept
  BY <1>6 DEF Altered, RowsKept
<1>7. ASSUME NEW e, Longer(NoteRec, notes, notes', e) PROVE NotesKept
  BY <1>7 DEF Longer, NotesKept
<1>8. ASSUME NEW i, NEW e, e.day = notes[i].day, Altered(NoteRec, notes, notes', i, e) PROVE NotesKept
  BY <1>8 DEF Altered, NotesKept
<1>9. (rows' = rows => RowsKept) /\ (notes' = notes => NotesKept)
  BY DEF RowsKept, NotesKept
<1>10. CASE Aside \/ RowsTaken \/ NotesTaken \/ PreferencesRead \/ Crashed
  BY <1>9, <1>10 DEF Aside, RowsTaken, NotesTaken, PreferencesRead, Crashed
<1>11. CASE Created \/ AskedFor \/ RowQueued \/ Scheduled
  BY <1>5, <1>7, <1>9, <1>11 DEF Created, AskedFor, RowQueued, Scheduled
<1>12. CASE Cancelled
  BY <1>3, <1>6, <1>9, <1>12 DEF Cancelled
<1>13. CASE RowMarked
  <2>1. Altered(RowRec, rows, rows', work.id, Marked(rows[work.id])) => work.id \in DOMAIN rows
    BY DEF Altered
  <2> QED
    BY <1>3, <1>6, <1>9, <1>13, <2>1 DEF RowMarked
<1>14. CASE NoteSent
  <2>1. Altered(NoteRec, notes, notes', work.id, Tried(notes[work.id])) /\ rows' = rows
    BY <1>14 DEF NoteSent
  <2>2. work.id \in DOMAIN notes
    BY <2>1 DEF Altered
  <2> QED
    BY <1>4, <1>8, <1>9, <2>1, <2>2
<1>15. CASE Recorded
  <2>1. Altered(NoteRec, notes, notes', work.id, Outcome(notes[work.id], work.pc)) => work.id \in DOMAIN notes
    BY DEF Altered
  <2> QED
    BY <1>4, <1>8, <1>9, <1>15, <2>1 DEF Recorded
<1> QED
  BY <1>10, <1>11, <1>12, <1>13, <1>14, <1>15 DEF Happens

(* Types, and what the worker has in hand.                                 *)
LEMMA WorkerTypeStep ==
    ASSUME TypeOK, HandsFit, [Next]_vars
    PROVE  TypeOK'
<1>1. Happens /\ faults' \in 0..MaxFaults /\ crashes' \in 0..MaxCrashes /\ now' \in 0..LastDay /\ broken' \in BOOLEAN
  BY Happenings
<1>2. rows \in Seq(RowRec) /\ notes \in Seq(NoteRec)
  BY Tables
<1>3. rows' \in Seq(RowRec) /\ notes' \in Seq(NoteRec)
  BY <1>1, <1>2 DEF Happens, Aside, Created, Cancelled, AskedFor, RowsTaken, NotesTaken, RowQueued, RowMarked, Scheduled,
       PreferencesRead, NoteSent, Recorded, Crashed, Longer, Altered
<1>4. /\ DOMAIN rows = 1..Len(rows) /\ DOMAIN notes = 1..Len(notes) /\ Len(rows) \in Nat /\ Len(notes) \in Nat
  BY Tables
<1>5. DOMAIN rows' = 1..Len(rows') /\ Len(rows') \in Nat
  BY <1>3
<1>6. DOMAIN notes' = 1..Len(notes') /\ Len(notes') \in Nat
  BY <1>3
<1>7. DOMAIN rows \subseteq DOMAIN rows' /\ DOMAIN notes \subseteq DOMAIN notes'
  BY <1>1, EntriesKept DEF RowsKept, NotesKept
<1> DEFINE E == DOMAIN rows \cup DOMAIN notes
           P == {"idle", "reminder", "mark", "next", "note", "send", "sent", "retry", "failed"}
           I == 0..(Len(rows) + Len(notes))
<1>8. work \in [pc : P, left : SUBSET E, id : I]
  BY DEF TypeOK
<1>9. \E pc \in P, left \in SUBSET E, id \in I : work' = Hand(pc, left, id)
  <2>1. 0 \in I /\ \A i \in E : i \in I
    BY <1>4
  <2> HIDE DEF I
  <2>2. DueRows \in SUBSET E /\ DueNotes \in SUBSET E /\ Idle = Hand("idle", {}, 0)
    BY DEF DueRows, DueNotes, Idle, Hand
  <2>3. work.pc \in P /\ work.left \in SUBSET E /\ work.id \in I /\ work = Hand(work.pc, work.left, work.id)
    BY <1>8 DEF Hand
  <2> HIDE DEF E
  <2>4. \A i \in work.left : work.left \ {i} \in SUBSET E /\ i \in I
    BY <2>1, <2>3
  <2>5. ASSUME NEW pc \in P, NEW left \in SUBSET E, work' = GoOn(pc, left)
        PROVE  \E p \in P, l \in SUBSET E, id \in I : work' = Hand(p, l, id)
    <3>1. CASE left = {}
      BY <2>1, <2>2, <2>5, <3>1 DEF GoOn
    <3>2. CASE left # {}
      BY <2>1, <2>5, <3>2 DEF GoOn, Hand
    <3> QED
      BY <3>1, <3>2
  <2>6. CASE Aside \/ Created \/ Cancelled \/ AskedFor \/ RowsTaken \/ NotesTaken \/ Crashed
    BY <2>1, <2>2, <2>3, <2>6 DEF Aside, Created, Cancelled, AskedFor, RowsTaken, NotesTaken, Crashed
  <2>7. CASE RowQueued \/ PreferencesRead
    BY <2>3, <2>4, <2>5, <2>7, ZenonT(30) DEF RowQueued, PreferencesRead
  <2>8. CASE RowMarked \/ Scheduled \/ NoteSent \/ Recorded
    BY <2>3, <2>5, <2>8 DEF RowMarked, Scheduled, NoteSent, Recorded
  <2> QED
    BY <1>1, <2>6, <2>7, <2>8 DEF Happens
<1>10. work' \in [pc : P, left : SUBSET (DOMAIN rows' \cup DOMAIN notes'), id : 0..(Len(rows') + Len(notes'))]
  <2>1. E \subseteq DOMAIN rows' \cup DOMAIN notes' /\ I \subseteq 0..(Len(rows') + Len(notes'))
    <3>1. ASSUME NEW a \in Nat, NEW b \in Nat, 1..a \subseteq 1..b PROVE a <= b
      <4>1. a >= 1 => a \in 1..a
        OBVIOUS
      <4> QED
        BY <3>1, <4>1
    <3>2. Len(rows) <= Len(rows') /\ Len(notes) <= Len(notes')
      BY <1>4, <1>5, <1>6, <1>7, <3>1
    <3>3. I \subseteq 0..(Len(rows') + Len(notes'))
      BY <1>4, <1>5, <1>6, <3>2
    <3> QED
      BY <1>7, <3>3
  <2> HIDE DEF E, I
  <2> QED
    BY <1>9, <2>1 DEF Hand
<1> QED
  BY <1>1, <1>3, <1>10 DEF TypeOK, RowRec, NoteRec

(* What is in the worker's hands stays as it was taken.                    *)
RowsAsTaken == \A i \in DOMAIN rows : rows'[i].sent = rows[i].sent
NotesAsTaken == Sendable \subseteq Sendable'
(* Only MarkReminder marks rows, only Record decides on notifications.     *)
LEMMA TakenAsTheyAre ==
    ASSUME TypeOK, Happens
    PROVE  /\ RowMarked \/ RowsAsTaken
           /\ NoteSent \/ Recorded \/ NotesAsTaken
           /\ NoteSent => NotesAsTaken
           /\ Recorded => Sendable \ {work.id} \subseteq Sendable'
<1>1. \A i \in DOMAIN rows : rows[i] \in RowRec
  BY Tables
<1>2. \A n \in DOMAIN notes : notes[n] \in NoteRec
  BY Tables
<1>3. ASSUME NEW i \in DOMAIN rows PROVE [rows[i] EXCEPT !.active = FALSE].sent = rows[i].sent
  BY <1>1 DEF RowRec
<1>4. ASSUME NEW n \in DOMAIN notes
      PROVE  Tried(notes[n]).status = notes[n].status /\ Tried(notes[n]).retries = notes[n].retries
  BY <1>2 DEF Tried, NoteRec
<1>5. RowMarked \/ RowsAsTaken
  <2>1. ASSUME NEW e, Longer(RowRec, rows, rows', e) PROVE RowsAsTaken
    BY <2>1 DEF Longer, RowsAsTaken
  <2>2. ASSUME NEW i \in DOMAIN rows, Altered(RowRec, rows, rows', i, [rows[i] EXCEPT !.active = FALSE]) PROVE RowsAsTaken
    BY <1>3, <2>2 DEF Altered, RowsAsTaken
  <2>3. rows' = rows => RowsAsTaken
    BY DEF RowsAsTaken
  <2> QED
    BY <2>1, <2>2, <2>3 DEF Happens, Aside, Created, Cancelled, AskedFor, RowsTaken, NotesTaken, RowQueued, Scheduled,
       PreferencesRead, NoteSent, Recorded, Crashed
<1>6. NoteSent \/ Recorded \/ NotesAsTaken
  <2>1. ASSUME NEW e, Longer(NoteRec, notes, notes', e) PROVE NotesAsTaken
    BY <2>1 DEF Longer, NotesAsTaken, Sendable, RetriesLeft
  <2>2. notes' = notes => NotesAsTaken
    BY DEF NotesAsTaken, Sendable, RetriesLeft
  <2> QED
    BY <2>1, <2>2 DEF Happens, Aside, Created, Cancelled, AskedFor, RowsTaken, NotesTaken, RowQueued, RowMarked, Scheduled,
       PreferencesRead, Crashed
<1>7. NoteSent => NotesAsTaken
  BY <1>4 DEF NoteSent, Altered, NotesAsTaken, Sendable, RetriesLeft
<1>8. Recorded => Sendable \ {work.id} \subseteq Sendable'
  BY DEF Recorded, Altered, Sendable, RetriesLeft
<1> QED
  BY <1>5, <1>6, <1>7, <1>8

(* What is in the worker's hands fits the tables after every step.         *)
LEMMA HandsStep ==
    ASSUME TypeOK, HandsFit, [Next]_vars
    PROVE  HandsFit'
<1>1. Happens /\ RowsKept /\ NotesKept /\ faults \in Nat
  BY Happenings, EntriesKept, Tables
<1>2. /\ RowMarked \/ RowsAsTaken
      /\ NoteSent \/ Recorded \/ NotesAsTaken
      /\ NoteSent => NotesAsTaken
      /\ Recorded => Sendable \ {work.id} \subseteq Sendable'
  BY <1>1, TakenAsTheyAre
<1>3. DOMAIN rows \subseteq DOMAIN rows'
  BY <1>1 DEF RowsKept
<1> DEFINE U == {i \in DOMAIN rows : ~ rows[i].sent}
<1>4. RowsAsTaken => U \subseteq {i \in DOMAIN rows' : ~ rows'[i].sent}
  BY <1>3 DEF RowsAsTaken
<1>5. /\ work.pc \in RowPhases => work.left \subseteq U
      /\ work.pc \in {"mark", "next"} => work.id \in DOMAIN rows \ work.left
      /\ work.pc = "mark" => ~ rows[work.id].sent
      /\ work.pc \in NotePhases => work.left \subseteq Sendable
      /\ work.pc \in NotePhases \ {"note"} => work.id \in Sendable \ work.left
      /\ work.pc = "failed" => faults > 0
      /\ work.pc = "idle" => work = Idle
  BY DEF HandsFit, RowsInHand, NotesInHand, NothingInHand
<1>6. ASSUME work' = Idle PROVE HandsFit'
  BY <1>6 DEF HandsFit, RowsInHand, NotesInHand, NothingInHand, Idle, RowPhases, NotePhases
<1>7. ASSUME NEW left, NEW id, NEW pc \in RowPhases, work' = Hand(pc, left, id),
             left \subseteq {i \in DOMAIN rows' : ~ rows'[i].sent},
             pc \in {"mark", "next"} => id \in DOMAIN rows' \ left,
             pc = "mark" => ~ rows'[id].sent
      PROVE  HandsFit'
  BY <1>7 DEF HandsFit, RowsInHand, NotesInHand, NothingInHand, Hand, RowPhases, NotePhases
<1>8. ASSUME NEW left, NEW id, NEW pc \in NotePhases, work' = Hand(pc, left, id), left \subseteq Sendable',
             pc # "note" => id \in Sendable' \ left,
             pc = "failed" => faults' > 0
      PROVE  HandsFit'
  BY <1>8 DEF HandsFit, RowsInHand, NotesInHand, NothingInHand, Hand, RowPhases, NotePhases
<1>9. CASE Aside \/ Created \/ Cancelled \/ AskedFor
  <2>1. work' = work /\ faults' = faults /\ RowsAsTaken /\ NotesAsTaken
    <3>1. work' = work /\ faults' = faults
      BY <1>9 DEF Aside, Created, Cancelled, AskedFor
    <3>2. ~ RowMarked
      BY <3>1 DEF RowMarked, Hand
    <3>3. ~ Recorded \/ NotesAsTaken
      BY <1>9, <3>1 DEF Aside, Created, Cancelled, AskedFor, Recorded, GoOn, Idle
    <3> QED
      BY <1>2, <3>1, <3>2, <3>3
  <2> QED
    BY <1>3, <1>4, <1>5, <2>1 DEF HandsFit, RowsInHand, NotesInHand, NothingInHand, RowsAsTaken, NotesAsTaken
<1>10. CASE RowsTaken
  BY <1>4, <1>7, <1>10 DEF RowsTaken, DueRows, Live, RowPhases
<1>11. CASE NotesTaken
  <2>1. DueNotes \subseteq Sendable'
    BY <1>11 DEF NotesTaken, DueNotes, Sendable, RetriesLeft
  <2> QED
    BY <1>8, <1>11, <2>1 DEF NotesTaken, NotePhases
<1>12. CASE RowQueued
  <2>1. PICK i \in work.left :
          /\ work.pc = "reminder" /\ rows' = rows
          /\ work' = Hand("mark", work.left \ {i}, i) \/ work' = GoOn("reminder", work.left \ {i})
    BY <1>12 DEF RowQueued
  <2>2. i \in U /\ work.left \ {i} \subseteq {j \in DOMAIN rows' : ~ rows'[j].sent}
    BY <1>5, <2>1 DEF RowPhases
  <2>3. CASE work' = Hand("mark", work.left \ {i}, i)
    BY <1>7, <2>1, <2>2, <2>3 DEF RowPhases
  <2>4. CASE work' = GoOn("reminder", work.left \ {i})
    BY <1>6, <1>7, <2>2, <2>4 DEF RowPhases, GoOn, Hand
  <2> QED
    BY <2>1, <2>3, <2>4
<1>13. CASE RowMarked
  <2>1. work.left \subseteq {j \in DOMAIN rows' : ~ rows'[j].sent} /\ work.id \in DOMAIN rows' \ work.left
    BY <1>3, <1>5, <1>13 DEF RowMarked, Altered, RowPhases
  <2> QED
    BY <1>7, <1>13, <2>1 DEF RowMarked, RowPhases
<1>14. CASE Scheduled
  <2>1. RowsAsTaken
    BY <1>2, <1>14 DEF Scheduled, RowMarked
  <2>2. work.left \subseteq {j \in DOMAIN rows' : ~ rows'[j].sent}
    BY <1>4, <1>5, <1>14, <2>1 DEF Scheduled, RowPhases
  <2> QED
    BY <1>6, <1>7, <1>14, <2>2 DEF Scheduled, RowPhases, GoOn, Hand
<1>15. CASE PreferencesRead
  <2>1. PICK n \in work.left : /\ work.pc = "note" /\ notes' = notes
                               /\ \/ work' = Hand("send", work.left \ {n}, n)
                                  \/ work' = Hand("failed", work.left \ {n}, n) /\ faults' = faults + 1
    BY <1>15 DEF PreferencesRead
  <2>2. n \in Sendable' /\ work.left \ {n} \subseteq Sendable'
    BY <1>5, <2>1 DEF NotePhases, Sendable, RetriesLeft
  <2>3. faults' = faults + 1 => faults' > 0
    BY <1>1
  <2>4. CASE work' = Hand("send", work.left \ {n}, n)
    BY <1>8, <2>2, <2>4 DEF NotePhases
  <2>5. CASE work' = Hand("failed", work.left \ {n}, n) /\ faults' = faults + 1
    BY <1>8, <2>2, <2>3, <2>5 DEF NotePhases
  <2> QED
    BY <2>1, <2>4, <2>5
<1>16. CASE NoteSent
  <2>1. PICK pc \in {"sent", "retry"} : work' = Hand(pc, work.left, work.id)
    BY <1>16 DEF NoteSent
  <2>2. work.left \subseteq Sendable' /\ work.id \in Sendable' \ work.left
    BY <1>2, <1>5, <1>16 DEF NoteSent, NotePhases, NotesAsTaken
  <2> QED
    BY <1>8, <2>1, <2>2 DEF NotePhases
<1>17. CASE Recorded
  <2>1. work.left \subseteq Sendable'
    BY <1>2, <1>5, <1>17 DEF Recorded, NotePhases
  <2> QED
    BY <1>6, <1>8, <1>17, <2>1 DEF Recorded, NotePhases, GoOn, Hand
<1>18. CASE Crashed
  BY <1>6, <1>18 DEF Crashed
<1> QED
  BY <1>1, <1>9, <1>10, <1>11, <1>12, <1>13, <1>14, <1>15, <1>16, <1>17, <1>18 DEF Happens

(* The first reminder is queued after the first row was made.              *)
LEMMA NoneToRemindStep ==
    ASSUME TypeOK, HandsFit, NoneToRemind, [Next]_vars
    PROVE  NoneToRemind'
<1>1. Happens /\ RowsKept /\ NotesKept
  BY Happenings, EntriesKept
<1>2. DOMAIN rows = 1..Len(rows) /\ Len(rows) \in Nat /\ rows \in Seq(RowRec)
  BY Tables
<1>3. ASSUME rows' = <<>> PROVE \A n \in DOMAIN notes' : notes'[n].day = 0
  <2>1. DOMAIN rows' = {}
    BY <1>3
  <2>2. DOMAIN rows = {}
    BY <1>1, <2>1 DEF RowsKept
  <2>3. rows = <<>>
    BY <1>2, <2>2
  <2>4. \A n \in DOMAIN notes : notes'[n].day = 0
    BY <1>1, <2>3 DEF NotesKept, NoneToRemind
  <2>5. work.pc # "reminder" \/ work.left = {}
    BY <2>2 DEF HandsFit, RowsInHand, RowPhases
  <2>6. \/ DOMAIN notes' = DOMAIN notes
        \/ \E due : Longer(NoteRec, notes, notes', Note(0, due))
    BY <1>1, <2>5 DEF Happens, Aside, Created, Cancelled, AskedFor, RowsTaken, NotesTaken, RowQueued, RowMarked, Scheduled,
       PreferencesRead, NoteSent, Recorded, Crashed, Altered
  <2>7. ASSUME NEW due, Longer(NoteRec, notes, notes', Note(0, due)) PROVE \A n \in DOMAIN notes' : notes'[n].day = 0
    BY <2>4, <2>7 DEF Longer, Note
  <2> QED
    BY <2>4, <2>6, <2>7
<1> QED
  BY <1>3 DEF NoneToRemind

(* Sizes of sets of entries.                                               *)
LEMMA Sizes ==
    ASSUME NEW n \in Nat, NEW S \in SUBSET (1..n), NEW x
    PROVE  /\ Cardinality(S) \in Nat
           /\ x \in S => Cardinality(S \ {x}) = Cardinality(S) - 1
           /\ x \notin S => Cardinality(S \cup {x}) = Cardinality(S) + 1 /\ S \ {x} = S
           /\ Cardinality(S \cup {x}) <= Cardinality(S) + 1
           /\ Cardinality(S \ {x}) <= Cardinality(S)
           /\ Cardinality({}) = 0 /\ Cardinality({x}) = 1
<1>1. IsFiniteSet(1..n)
  BY FS_Interval
<1>2. IsFiniteSet(S)
  BY <1>1, FS_Subset
<1>3. Cardinality(S) \in Nat
  BY <1>2, FS_CardinalityType
<1>4. /\ Cardinality(S \ {x}) = IF x \in S THEN Cardinality(S) - 1 ELSE Cardinality(S)
      /\ Cardinality(S \cup {x}) = IF x \in S THEN Cardinality(S) ELSE Cardinality(S) + 1
  BY <1>2, FS_AddElement, FS_RemoveElement
<1>5. Cardinality({}) = 0 /\ Cardinality({x}) = 1
  BY FS_EmptySet, FS_Singleton
<1> QED
  BY <1>3, <1>4, <1>5

(* What each step does to the sets that are counted, for one day.          *)
CountsKept(day) ==
    /\ Toward(day)' = Toward(day) /\ Unsent(day)' = Unsent(day) /\ Reminded(day)' = Reminded(day)
    /\ Coming(day)' <= Coming(day) /\ faults <= faults' /\ crashes <= crashes'
    /\ Queued(day) + crashes <= Queued(day)' + crashes'
CountsCreated(day) ==
    /\ Reminded(day)' = {} /\ Coming(day)' = 0 /\ Queued(day)' = 0
    /\ \E x : Toward(day)' \subseteq {x} /\ Unsent(day)' \subseteq {x}
CountsQueued(day) ==
    /\ Toward(day)' = Toward(day) /\ Unsent(day)' = Unsent(day)
    /\ Coming(day)' = Coming(day) /\ crashes' = crashes
    /\ \E x : Reminded(day)' \subseteq Reminded(day) \cup {x}
    /\ \/ Reminded(day)' = Reminded(day) /\ Queued(day)' = Queued(day) /\ faults' = faults
       \/ Queued(day)' = Queued(day) + 1 /\ faults' = faults
       \/ Queued(day)' = Queued(day) /\ faults' = faults + 1
CountsMarked(day) ==
    /\ Reminded(day)' = Reminded(day) /\ crashes' = crashes /\ Coming(day) = 0 /\ Queued(day)' = 0
    /\ \E i, e \in Nat :
        /\ e <= day => i \in Unsent(day)
        /\ e < day => i \in Toward(day)
        /\ Coming(day)' = (IF e < day THEN 1 ELSE 0) /\ Queued(day) = (IF e = day THEN 1 ELSE 0)
        /\ \/ /\ Unsent(day)' = Unsent(day) \ {i} /\ Toward(day)' = (IF e < day THEN Toward(day) \ {i} ELSE Toward(day))
              /\ faults' \in {faults, faults + 1}
              /\ e > day => Unsent(day)' = Unsent(day)
           \/ Unsent(day)' = Unsent(day) /\ Toward(day)' = Toward(day) /\ faults' = faults + 1
CountsScheduled(day) ==
    /\ Reminded(day)' = Reminded(day) /\ crashes' = crashes /\ faults <= faults'
    /\ Coming(day)' = 0 /\ Queued(day)' = 0 /\ Queued(day) = 0
    /\ \/ Coming(day) = 1 /\ \E x : Toward(day)' = Toward(day) \cup {x} /\ Unsent(day)' = Unsent(day) \cup {x}
       \/ Toward(day)' = Toward(day) /\ Unsent(day)' = Unsent(day)

(* Every step does one of the five things above to the counts of a day.    *)
LEMMA CountsMove ==
    ASSUME TypeOK, HandsFit, NoneToRemind, Happens, NEW day \in Days
    PROVE  CountsKept(day) \/ CountsCreated(day) \/ CountsQueued(day) \/ CountsMarked(day) \/ CountsScheduled(day)
<1>1. /\ \A i \in DOMAIN rows : rows[i] \in RowRec /\ rows[i].day \in Nat
      /\ DOMAIN rows = 1..Len(rows) /\ faults \in Nat /\ crashes \in Nat /\ day \in Nat /\ day >= 1
  <2>1. /\ \A i \in DOMAIN rows : rows[i] \in RowRec
        /\ DOMAIN rows = 1..Len(rows) /\ faults \in Nat /\ crashes \in Nat /\ LastDay \in Nat
    BY Tables
  <2>2. Days \subseteq Nat /\ \A d \in Days : d >= 1
    BY <2>1 DEF Days
  <2> QED
    BY <2>1, <2>2 DEF RowRec
<1>2. \A n \in DOMAIN notes : notes[n] \in NoteRec
  BY Tables
<1>3. /\ work.pc \in {"mark", "next"} => work.id \in DOMAIN rows
      /\ work.pc = "mark" => ~ rows[work.id].sent
      /\ work.pc = "idle" => work = Idle
      /\ work.pc = "reminder" => work.left \subseteq DOMAIN rows
  BY DEF HandsFit, RowsInHand, NothingInHand, RowPhases
<1>4. /\ Coming(day) \in {0, 1} /\ Queued(day) \in {0, 1}
      /\ (work'.pc # "next" => Coming(day)' = 0) /\ (work'.pc # "mark" => Queued(day)' = 0)
      /\ (work.pc # "next" => Coming(day) = 0) /\ (work.pc # "mark" => Queued(day) = 0)
  BY DEF Coming, Queued
<1>5. ASSUME DOMAIN rows' = DOMAIN rows,
             \A i \in DOMAIN rows : rows'[i].day = rows[i].day /\ rows'[i].sent = rows[i].sent
      PROVE  Toward(day)' = Toward(day) /\ Unsent(day)' = Unsent(day)
  BY <1>5 DEF Toward, Unsent
<1>6. ASSUME DOMAIN notes' = DOMAIN notes, \A n \in DOMAIN notes : notes'[n].day = notes[n].day
      PROVE  Reminded(day)' = Reminded(day)
  BY <1>6 DEF Reminded
<1>7. rows' = rows => Toward(day)' = Toward(day) /\ Unsent(day)' = Unsent(day)
  BY <1>5
<1>8. notes' = notes => Reminded(day)' = Reminded(day)
  BY <1>6
<1>9. ASSUME NEW e, Longer(NoteRec, notes, notes', e)
      PROVE  /\ \E x : Reminded(day)' \subseteq Reminded(day) \cup {x}
             /\ e.day # day => Reminded(day)' = Reminded(day)
  BY <1>9 DEF Longer, Reminded
<1>10. CASE Aside \/ NotesTaken \/ RowsTaken \/ PreferencesRead
  BY <1>1, <1>4, <1>7, <1>8, <1>10 DEF Aside, NotesTaken, RowsTaken, PreferencesRead, CountsKept, Hand, Coming, Queued, Idle
<1>11. CASE Crashed
  BY <1>1, <1>4, <1>7, <1>8, <1>11 DEF Crashed, CountsKept, Idle
<1>12. CASE NoteSent \/ Recorded
  <2>1. ASSUME NEW i \in DOMAIN notes, NEW pc
        PROVE  Tried(notes[i]).day = notes[i].day /\ Outcome(notes[i], pc).day = notes[i].day
    BY <1>2 DEF Tried, Outcome, NoteRec
  <2>2. Reminded(day)' = Reminded(day)
    <3>1. ASSUME NEW i, NEW e, Altered(NoteRec, notes, notes', i, e), e.day = notes[i].day
          PROVE  Reminded(day)' = Reminded(day)
      BY <1>6, <3>1 DEF Altered
    <3>2. CASE NoteSent
      <4>1. Altered(NoteRec, notes, notes', work.id, Tried(notes[work.id]))
        BY <3>2 DEF NoteSent
      <4>2. work.id \in DOMAIN notes
        BY <4>1 DEF Altered
      <4> QED
        BY <2>1, <3>1, <4>1, <4>2
    <3>3. CASE Altered(NoteRec, notes, notes', work.id, Outcome(notes[work.id], work.pc))
      <4>1. work.id \in DOMAIN notes
        BY <3>3 DEF Altered
      <4> QED
        BY <2>1, <3>1, <3>3, <4>1
    <3> QED
      BY <1>8, <1>12, <3>2, <3>3 DEF Recorded
  <2>3. /\ work.pc \notin {"mark", "next"} /\ work'.pc \notin {"mark", "next"} /\ rows' = rows /\ crashes' = crashes
        /\ faults' \in {faults, faults + 1}
    BY <1>12 DEF NoteSent, Recorded, Hand, GoOn, Idle
  <2> QED
    BY <1>1, <1>4, <1>7, <2>2, <2>3 DEF CountsKept
<1>13. CASE AskedFor
  <2>1. Reminded(day)' = Reminded(day) /\ UNCHANGED <<rows, work, faults, crashes>>
    BY <1>1, <1>9, <1>13 DEF AskedFor, Note
  <2> QED
    BY <1>1, <1>4, <1>7, <2>1 DEF CountsKept, Coming, Queued
<1>14. CASE Cancelled
  <2>1. PICK i \in DOMAIN rows : /\ Altered(RowRec, rows, rows', i, [rows[i] EXCEPT !.active = FALSE])
                                 /\ UNCHANGED <<notes, work, faults, crashes>>
    BY <1>14 DEF Cancelled
  <2>2. DOMAIN rows' = DOMAIN rows /\ \A j \in DOMAIN rows : rows'[j].day = rows[j].day /\ rows'[j].sent = rows[j].sent
    BY <1>1, <2>1 DEF Altered, RowRec
  <2>3. Coming(day)' = Coming(day) /\ Queued(day)' = Queued(day)
    BY <1>3, <2>1, <2>2 DEF Coming, Queued
  <2> QED
    BY <1>1, <1>4, <1>5, <1>8, <2>1, <2>2, <2>3 DEF CountsKept
<1>15. CASE Created
  <2>1. PICK d \in Days : rows = <<>> /\ Longer(RowRec, rows, rows', Row(d)) /\ UNCHANGED <<notes, work, faults, crashes>>
    BY <1>15 DEF Created
  <2>2. DOMAIN rows = {}
    BY <2>1
  <2>3. Reminded(day)' = {}
    BY <1>1, <1>8, <2>1 DEF NoneToRemind, Reminded
  <2>4. work'.pc \notin {"mark", "next"}
    BY <1>3, <2>1, <2>2
  <2>5. \E x : DOMAIN rows' = {x}
    BY <2>1, <2>2 DEF Longer
  <2>6. \E x : Toward(day)' \subseteq {x} /\ Unsent(day)' \subseteq {x}
    BY <2>5 DEF Toward, Unsent
  <2> QED
    BY <1>4, <2>3, <2>4, <2>6 DEF CountsCreated
<1>16. CASE RowQueued
  <2>1. PICK i \in work.left :
          /\ work.pc = "reminder" /\ UNCHANGED <<rows, crashes>>
          /\ \/ /\ Longer(NoteRec, notes, notes', Note(rows[i].day, 0)) /\ faults' = faults
                /\ work' = Hand("mark", work.left \ {i}, i)
             \/ /\ notes' = notes \/ Longer(NoteRec, notes, notes', Note(rows[i].day, 0))
                /\ faults' = faults + 1
                /\ work' = GoOn("reminder", work.left \ {i})
    BY <1>16 DEF RowQueued
  <2>2. Note(rows[i].day, 0).day = rows[i].day
    BY DEF Note
  <2>3. /\ Coming(day) = 0 /\ Queued(day) = 0 /\ Coming(day)' = 0
        /\ work'.pc \in {"mark", "reminder", "idle"}
    BY <1>4, <2>1 DEF Hand, GoOn, Idle
  <2>4. CASE Longer(NoteRec, notes, notes', Note(rows[i].day, 0)) /\ faults' = faults /\ work' = Hand("mark", work.left \ {i}, i)
    <3>1. Queued(day)' = IF rows[i].day = day THEN 1 ELSE 0
      BY <2>1, <2>4 DEF Queued, Hand
    <3>2. \E x : Reminded(day)' \subseteq Reminded(day) \cup {x}
      BY <1>9, <2>4
    <3>3. rows[i].day # day => Reminded(day)' = Reminded(day)
      BY <1>9, <2>2, <2>4
    <3>4. (rows[i].day = day /\ Queued(day)' = Queued(day) + 1) \/ (rows[i].day # day /\ Queued(day)' = Queued(day))
      BY <2>3, <3>1
    <3> QED
      BY <1>7, <2>1, <2>3, <2>4, <3>2, <3>3, <3>4 DEF CountsQueued
  <2>5. CASE /\ notes' = notes \/ Longer(NoteRec, notes, notes', Note(rows[i].day, 0))
             /\ faults' = faults + 1
             /\ work' = GoOn("reminder", work.left \ {i})
    <3>1. \E x : Reminded(day)' \subseteq Reminded(day) \cup {x}
      BY <1>8, <1>9, <2>5
    <3>2. work'.pc # "mark"
      BY <2>5 DEF GoOn, Idle
    <3> QED
      BY <1>4, <1>7, <2>1, <2>3, <2>5, <3>1, <3>2 DEF CountsQueued
  <2> QED
    BY <2>1, <2>4, <2>5
<1>17. CASE RowMarked
  <2> DEFINE i == work.id
             e == rows[i].day
  <2>1. /\ i \in DOMAIN rows /\ ~ rows[i].sent /\ e \in Nat /\ i \in Nat /\ work.pc = "mark" /\ work'.pc = "next" /\ work'.id = i
        /\ Reminded(day)' = Reminded(day) /\ crashes' = crashes
    BY <1>1, <1>3, <1>8, <1>17 DEF RowMarked, Hand
  <2>2. (e <= day => i \in Unsent(day)) /\ (e < day => i \in Toward(day))
    <3>1. e < day => e <= day - 1
      BY <1>1, <2>1
    <3> QED
      BY <2>1, <3>1 DEF Unsent, Toward
  <2>3. Coming(day) = 0 /\ Queued(day)' = 0 /\ Queued(day) = (IF e = day THEN 1 ELSE 0)
    BY <1>4, <2>1 DEF Queued
  <2>4. CASE Altered(RowRec, rows, rows', i, Marked(rows[i])) /\ faults' \in {faults, faults + 1}
    <3>1. /\ DOMAIN rows' = DOMAIN rows /\ rows'[i].sent /\ rows'[i].day = e
          /\ \A j \in DOMAIN rows \ {i} : rows'[j] = rows[j]
      BY <1>1, <2>1, <2>4 DEF Altered, Marked, RowRec
    <3>2. ASSUME NEW d PROVE Unsent(d)' = Unsent(d) \ {i}
      BY <3>1 DEF Unsent
    <3>3. ASSUME e < day PROVE Toward(day)' = Toward(day) \ {i}
      BY <1>1, <2>1, <3>1, <3>3 DEF Toward, Unsent
    <3>4. ASSUME ~ e < day PROVE Toward(day)' = Toward(day)
      <4>1. ~ e <= day - 1
        BY <1>1, <2>1, <3>4
      <4>2. Unsent(day - 1)' = Unsent(day - 1)
        BY <3>1, <4>1 DEF Unsent
      <4> QED
        BY <3>1, <4>2 DEF Toward
    <3>5. e > day => Unsent(day)' = Unsent(day)
      BY <1>1, <2>1, <3>1 DEF Unsent
    <3>6. Coming(day)' = (IF e < day THEN 1 ELSE 0)
      BY <2>1, <3>1 DEF Coming
    <3> HIDE DEF i, e
    <3> QED
      BY <2>1, <2>2, <2>3, <2>4, <3>2, <3>3, <3>4, <3>5, <3>6 DEF CountsMarked
  <2>5. CASE rows' = rows /\ faults' = faults + 1
    <3>1. Coming(day)' = (IF e < day THEN 1 ELSE 0)
      BY <2>1, <2>5 DEF Coming
    <3> HIDE DEF i, e
    <3> QED
      BY <1>7, <2>1, <2>2, <2>3, <2>5, <3>1 DEF CountsMarked
  <2> QED
    BY <1>17, <2>4, <2>5 DEF RowMarked
<1>18. CASE Scheduled
  <2>1. /\ work.pc = "next" /\ work'.pc \in {"reminder", "idle"} /\ work.id \in DOMAIN rows
        /\ Reminded(day)' = Reminded(day) /\ crashes' = crashes /\ faults' \in {faults, faults + 1}
    BY <1>3, <1>8, <1>18 DEF Scheduled, GoOn, Idle
  <2>2. /\ Coming(day)' = 0 /\ Queued(day)' = 0 /\ Queued(day) = 0 /\ faults <= faults'
        /\ Coming(day) = IF rows[work.id].day < day THEN 1 ELSE 0
    BY <1>1, <1>4, <2>1 DEF Coming
  <2>3. ASSUME Longer(RowRec, rows, rows', Row(rows[work.id].day + 1)) PROVE CountsScheduled(day)
    <3> DEFINE x == Len(rows) + 1
               e == rows[work.id].day
    <3>1. /\ x \notin DOMAIN rows /\ DOMAIN rows' = DOMAIN rows \cup {x} /\ \A j \in DOMAIN rows : rows'[j] = rows[j]
          /\ rows'[x].day = e + 1 /\ ~ rows'[x].sent /\ e \in Nat
      BY <1>1, <2>1, <2>3 DEF Longer, Row
    <3> HIDE DEF x, e
    <3>2. CASE e < day
      <4>1. e + 1 <= day /\ (e + 1 = day \/ e + 1 <= day - 1)
        BY <1>1, <3>1, <3>2
      <4>2. Unsent(day)' = Unsent(day) \cup {x}
        BY <3>1, <4>1 DEF Unsent
      <4>3. Toward(day)' = Toward(day) \cup {x}
        BY <3>1, <4>1 DEF Toward, Unsent
      <4> QED
        BY <2>1, <2>2, <3>2, <4>2, <4>3 DEF CountsScheduled, e
    <3>3. CASE ~ e < day
      <4>1. ~ e + 1 <= day /\ e + 1 # day /\ ~ e + 1 <= day - 1
        BY <1>1, <3>1, <3>3
      <4>2. Unsent(day)' = Unsent(day) /\ Toward(day)' = Toward(day)
        BY <3>1, <4>1 DEF Unsent, Toward
      <4> QED
        BY <2>1, <2>2, <4>2 DEF CountsScheduled
    <3> QED
      BY <3>2, <3>3
  <2>4. ASSUME rows' = rows PROVE CountsScheduled(day)
    BY <1>7, <2>1, <2>2, <2>4 DEF CountsScheduled
  <2> QED
    BY <1>18, <2>3, <2>4 DEF Scheduled
<1> QED
  BY <1>10, <1>11, <1>12, <1>13, <1>14, <1>15, <1>16, <1>17, <1>18 DEF Happens

(* The counts of a day are natural numbers.                                *)
LEMMA CountsAre ==
    ASSUME TypeOK, NEW day \in Days
    PROVE  /\ Toward(day) \in SUBSET (1..Len(rows)) /\ Unsent(day) \in SUBSET (1..Len(rows))
           /\ Reminded(day) \in SUBSET (1..Len(notes))
           /\ Len(rows) \in Nat /\ Len(notes) \in Nat /\ faults \in Nat /\ crashes \in Nat
           /\ Coming(day) \in {0, 1} /\ Queued(day) \in {0, 1}
           /\ Cardinality(Toward(day)) \in Nat /\ Cardinality(Unsent(day)) \in Nat /\ Cardinality(Reminded(day)) \in Nat
<1>1. /\ DOMAIN rows = 1..Len(rows) /\ DOMAIN notes = 1..Len(notes)
      /\ Len(rows) \in Nat /\ Len(notes) \in Nat /\ faults \in Nat /\ crashes \in Nat
  BY Tables
<1>2. /\ Toward(day) \in SUBSET (1..Len(rows)) /\ Unsent(day) \in SUBSET (1..Len(rows))
      /\ Reminded(day) \in SUBSET (1..Len(notes))
  BY <1>1 DEF Toward, Unsent, Reminded
<1>3. /\ Cardinality(Toward(day)) \in Nat /\ Cardinality(Unsent(day)) \in Nat /\ Cardinality(Reminded(day)) \in Nat
  BY <1>1, <1>2, Sizes
<1> QED
  BY <1>1, <1>2, <1>3 DEF Coming, Queued

(* Whatever makes one of the counts of a day greater makes another one     *)
(* smaller, or is a fault or a death.                                      *)
LEMMA CountsStep ==
    ASSUME TypeOK, TypeOK', HandsFit, NoneToRemind, Happens, RowsPaid, RemindersPaid
    PROVE  RowsPaid' /\ RemindersPaid'
<1>1. ASSUME NEW day \in Days
      PROVE  /\ Cardinality(Toward(day)') + Coming(day)' <= 1 + faults'
             /\ Cardinality(Reminded(day)') + Cardinality(Unsent(day)') + Coming(day)' <= 1 + faults' + crashes' + Queued(day)'
  <2> DEFINE T == Toward(day)
             U == Unsent(day)
             R == Reminded(day)
             a == Cardinality(T)
             b == Cardinality(U)
             r == Cardinality(R)
             TT == Toward(day)'
             UU == Unsent(day)'
             RR == Reminded(day)'
             aa == Cardinality(TT)
             bb == Cardinality(UU)
             rr == Cardinality(RR)
             m == Coming(day)
             q == Queued(day)
             mm == Coming(day)'
             qq == Queued(day)'
             ff == faults'
             cc == crashes'
  <2>1. /\ T \in SUBSET (1..Len(rows)) /\ U \in SUBSET (1..Len(rows)) /\ R \in SUBSET (1..Len(notes))
        /\ Len(rows) \in Nat /\ Len(notes) \in Nat /\ faults \in Nat /\ crashes \in Nat
        /\ m \in Nat /\ q \in Nat /\ a \in Nat /\ b \in Nat /\ r \in Nat
    BY CountsAre
  <2>11. faults \in Nat /\ crashes \in Nat /\ m \in Nat /\ q \in Nat /\ a \in Nat /\ b \in Nat /\ r \in Nat
    BY <2>1
  <2>2. ff \in Nat /\ cc \in Nat /\ mm \in Nat /\ qq \in Nat
    <3>1. faults' \in 0..MaxFaults /\ crashes' \in 0..MaxCrashes /\ MaxFaults \in Nat /\ MaxCrashes \in Nat
      BY WorkerAssumption DEF TypeOK
    <3> QED
      BY <3>1 DEF Coming, Queued
  <2>3. a + m <= 1 + faults /\ r + b + m <= 1 + faults + crashes + q
    BY DEF RowsPaid, RemindersPaid
  <2>4. CountsKept(day) \/ CountsCreated(day) \/ CountsQueued(day) \/ CountsMarked(day) \/ CountsScheduled(day)
    BY CountsMove
  <2> DEFINE Goal == aa + mm <= 1 + ff /\ rr + bb + mm <= 1 + ff + cc + qq
  <2> HIDE DEF Goal
  <2>5. ASSUME CountsKept(day) PROVE Goal
    <3>1. /\ aa <= a /\ bb <= b /\ rr <= r /\ aa \in Nat /\ bb \in Nat /\ rr \in Nat
          /\ mm <= m /\ faults <= ff /\ crashes <= cc /\ q + crashes <= qq + cc
      BY <2>5, <2>11 DEF CountsKept
    <3> HIDE DEF a, b, r, m, q, aa, bb, rr, mm, qq, ff, cc
    <3> QED
      BY <2>11, <2>2, <2>3, <3>1 DEF Goal
  <2>6. ASSUME CountsCreated(day) PROVE Goal
    <3>1. PICK x : RR = {} /\ mm = 0 /\ qq = 0 /\ TT \subseteq {x} /\ UU \subseteq {x}
      BY <2>6 DEF CountsCreated
    <3>2. Cardinality({}) = 0 /\ Cardinality({x}) = 1
      BY FS_EmptySet, FS_Singleton
    <3>3. (TT = {} \/ TT = {x}) /\ (UU = {} \/ UU = {x})
      BY <3>1
    <3>4. aa <= 1 /\ bb <= 1 /\ rr <= 0 /\ mm <= 0 /\ aa \in Nat /\ bb \in Nat /\ rr \in Nat
      BY <3>1, <3>2, <3>3
    <3> HIDE DEF aa, bb, rr, mm, qq, ff, cc
    <3> QED
      BY <2>2, <3>4 DEF Goal
  <2>7. ASSUME CountsQueued(day) PROVE Goal
    <3>1. /\ aa <= a /\ bb <= b /\ mm <= m /\ crashes <= cc /\ aa \in Nat /\ bb \in Nat
          /\ \/ rr <= r /\ q <= qq /\ faults <= ff
             \/ q + 1 <= qq /\ faults <= ff
             \/ q <= qq /\ faults + 1 <= ff
      BY <2>7, <2>11 DEF CountsQueued
    <3>2. PICK x : RR \subseteq R \cup {x}
      BY <2>7 DEF CountsQueued
    <3>3. rr <= r + 1 /\ rr \in Nat
      <4> HIDE DEF R, RR
      <4>1. IsFiniteSet(R)
        <5>1. IsFiniteSet(1..Len(notes))
          BY <2>1, FS_Interval
        <5> QED
          BY <2>1, <5>1, FS_Subset
      <4>2. IsFiniteSet(R \cup {x}) /\ Cardinality(R \cup {x}) <= r + 1 /\ Cardinality(R \cup {x}) \in Nat
        <5>1. IsFiniteSet(R \cup {x}) /\ (Cardinality(R \cup {x}) = Cardinality(R) \/ Cardinality(R \cup {x}) = Cardinality(R) + 1)
          BY <4>1, FS_AddElement
        <5>2. Cardinality(R) \in Nat
          BY <4>1, FS_CardinalityType
        <5> QED
          BY <5>1, <5>2
      <4>3. IsFiniteSet(RR) /\ rr <= Cardinality(R \cup {x})
        BY <3>2, <4>2, FS_Subset
      <4>4. rr \in Nat
        BY <4>3, FS_CardinalityType
      <4> QED
        BY <2>1, <4>2, <4>3, <4>4
    <3> HIDE DEF a, b, r, m, q, aa, bb, rr, mm, qq, ff, cc
    <3> QED
      BY <2>11, <2>2, <2>3, <3>1, <3>3 DEF Goal
  <2>8. ASSUME CountsMarked(day) PROVE Goal
    <3>1. PICK i, e \in Nat :
            /\ e <= day => i \in U
            /\ e < day => i \in T
            /\ mm = (IF e < day THEN 1 ELSE 0) /\ q = (IF e = day THEN 1 ELSE 0)
            /\ \/ /\ UU = U \ {i} /\ TT = (IF e < day THEN T \ {i} ELSE T) /\ ff \in {faults, faults + 1}
                  /\ e > day => UU = U
               \/ UU = U /\ TT = T /\ ff = faults + 1
      BY <2>8 DEF CountsMarked
    <3>2. rr = r /\ cc = crashes /\ m = 0 /\ qq = 0
      BY <2>8 DEF CountsMarked
    <3>3. day \in Nat
      BY WorkerAssumption DEF Days
    <3> HIDE DEF T, U, TT, UU
    <3>4. /\ i \in T => Cardinality(T \ {i}) = a - 1
          /\ i \in U => Cardinality(U \ {i}) = b - 1
      BY <2>1, Sizes
    <3> HIDE DEF a, b, r, m, q, aa, bb, rr, mm, qq, ff, cc
    <3>5. CASE e < day
      <4>1. mm = 1 /\ q = 0 /\ i \in T /\ i \in U
        BY <3>1, <3>3, <3>5
      <4>2. (aa = a - 1 /\ bb = b - 1 /\ ff \in {faults, faults + 1}) \/ (aa = a /\ bb = b /\ ff = faults + 1)
        BY <3>1, <3>4, <3>5, <4>1 DEF aa, bb, a, b
      <4> QED
        BY <2>11, <2>2, <2>3, <3>2, <4>1, <4>2 DEF Goal
    <3>6. CASE e = day
      <4>1. mm = 0 /\ q = 1 /\ i \in U
        BY <3>1, <3>3, <3>6
      <4>2. (aa = a /\ bb = b - 1 /\ ff \in {faults, faults + 1}) \/ (aa = a /\ bb = b /\ ff = faults + 1)
        BY <3>1, <3>3, <3>4, <3>6, <4>1 DEF aa, bb, a, b
      <4> QED
        BY <2>11, <2>2, <2>3, <3>2, <4>1, <4>2 DEF Goal
    <3>7. CASE e > day
      <4>1. mm = 0 /\ q = 0
        BY <3>1, <3>3, <3>7
      <4>2. aa <= a /\ bb <= b /\ rr <= r /\ faults <= ff /\ aa \in Nat /\ bb \in Nat /\ rr \in Nat
        BY <2>11, <3>1, <3>2, <3>3, <3>7 DEF aa, bb, a, b
      <4> QED
        BY <2>11, <2>2, <2>3, <3>2, <4>1, <4>2 DEF Goal
    <3> QED
      BY <3>1, <3>3, <3>5, <3>6, <3>7
  <2>9. ASSUME CountsScheduled(day) PROVE Goal
    <3>1. /\ rr = r /\ cc = crashes /\ faults <= ff /\ mm = 0 /\ qq = 0 /\ q = 0
          /\ \/ m = 1 /\ \E x : TT = T \cup {x} /\ UU = U \cup {x}
             \/ TT = T /\ UU = U
      BY <2>9 DEF CountsScheduled
    <3> HIDE DEF T, U, TT, UU
    <3>2. \A x : Cardinality(T \cup {x}) \in {a, a + 1} /\ Cardinality(U \cup {x}) \in {b, b + 1}
      <4>1. IsFiniteSet(T) /\ IsFiniteSet(U)
        <5>1. IsFiniteSet(1..Len(rows))
          BY <2>1, FS_Interval
        <5> QED
          BY <2>1, <5>1, FS_Subset
      <4> QED
        BY <4>1, FS_AddElement
    <3>3. (m = 1 /\ aa \in {a, a + 1} /\ bb \in {b, b + 1}) \/ (aa = a /\ bb = b)
      BY <3>1, <3>2
    <3> HIDE DEF a, b, r, m, q, aa, bb, rr, mm, qq, ff, cc
    <3> QED
      BY <2>11, <2>2, <2>3, <3>1, <3>3 DEF Goal
  <2>10. Goal
    BY <2>4, <2>5, <2>6, <2>7, <2>8, <2>9
  <2> QED
    BY <2>10 DEF Goal
<1> QED
  BY <1>1 DEF RowsPaid, RemindersPaid

(* What a step does to the tries of one notification, and to what of them  *)
(* is accounted for.                                                       *)
TriesNew(n) == notes'[n].tries = 0 /\ notes'[n].status = "pending"
TriesKept(n) ==
    /\ n \in DOMAIN notes /\ notes'[n] = notes[n] /\ faults <= faults'
    /\ Last(n) + faults + crashes <= Last(n)' + faults' + crashes'
TriesTried(n) ==
    /\ n \in DOMAIN notes /\ notes'[n] = Tried(notes[n]) /\ notes[n].status = "pending"
    /\ Last(n) = 0 /\ Last(n)' = 1 /\ faults' = faults /\ crashes' = crashes
TriesRecorded(n) ==
    /\ n \in DOMAIN notes /\ faults <= faults' /\ crashes' = crashes /\ notes'[n].tries = notes[n].tries
    /\ \/ notes'[n].retries = notes[n].retries + 1 /\ notes'[n].status = "pending"
       \/ notes'[n].retries = notes[n].retries /\ Last(n)' = 1 /\ RetriesLeft(notes'[n]) /\ notes'[n].status = "sent"
       \/ notes'[n].retries = notes[n].retries /\ Last(n) = 0 /\ faults > 0 /\ notes'[n].status = "failed"

(* Every step does one of the four things above to a notification.         *)
LEMMA TriesMove ==
    ASSUME TypeOK, HandsFit, Happens, NEW n \in DOMAIN notes'
    PROVE  TriesNew(n) \/ TriesKept(n) \/ TriesTried(n) \/ TriesRecorded(n)
<1>1. /\ faults \in Nat /\ crashes \in Nat
      /\ \A k \in DOMAIN notes : notes[k] \in NoteRec
  BY Tables
<1>2. Last(n) \in {0, 1} /\ Last(n)' \in {0, 1}
  BY DEF Last
<1>3. ASSUME n \in DOMAIN notes, notes'[n] = notes[n], faults <= faults', faults' \in Nat, crashes' \in Nat,
             \/ Last(n) = 0 /\ crashes <= crashes'
             \/ Last(n)' = Last(n) /\ crashes <= crashes'
             \/ faults + 1 <= faults' /\ crashes <= crashes'
             \/ crashes + 1 <= crashes'
      PROVE  TriesKept(n)
  <2>1. Last(n) + faults + crashes <= Last(n)' + faults' + crashes'
    <3> DEFINE l == Last(n)
               ll == Last(n)'
               ff == faults'
               cc == crashes'
    <3>1. /\ l \in Nat /\ ll \in Nat /\ ff \in Nat /\ cc \in Nat /\ l <= 1 /\ faults <= ff
          /\ (l <= 0 /\ crashes <= cc) \/ (l <= ll /\ crashes <= cc) \/ (faults + 1 <= ff /\ crashes <= cc) \/ crashes + 1 <= cc
      BY <1>2, <1>3
    <3> HIDE DEF l, ll, ff, cc
    <3>2. l + faults + crashes <= ll + ff + cc
      BY <1>1, <3>1
    <3> QED
      BY <3>2 DEF l, ll, ff, cc
  <2> QED
    BY <1>3, <2>1 DEF TriesKept
<1>4. ASSUME NEW day, NEW due, Longer(NoteRec, notes, notes', Note(day, due))
      PROVE  TriesNew(n) \/ (n \in DOMAIN notes /\ notes'[n] = notes[n])
  BY <1>4 DEF Longer, TriesNew, Note
<1>5. CASE Aside \/ Created \/ Cancelled \/ AskedFor \/ RowsTaken \/ NotesTaken \/ RowQueued \/ RowMarked \/ Scheduled \/ PreferencesRead
  <2>1. /\ faults' \in {faults, faults + 1} /\ crashes' = crashes
        /\ \/ notes' = notes
           \/ \E day, due : Longer(NoteRec, notes, notes', Note(day, due))
    BY <1>5 DEF Aside, Created, Cancelled, AskedFor, RowsTaken, NotesTaken, RowQueued, RowMarked, Scheduled, PreferencesRead
  <2>2. \/ work' = work
        \/ /\ work.pc \notin {"sent", "retry"} /\ work'.pc \notin {"sent", "retry"}
    <3>1. CASE Aside \/ Created \/ Cancelled \/ AskedFor
      BY <3>1 DEF Aside, Created, Cancelled, AskedFor
    <3>2. CASE RowsTaken \/ NotesTaken
      BY <3>2 DEF RowsTaken, NotesTaken, Hand, Idle
    <3>3. CASE RowQueued
      BY <3>3 DEF RowQueued, Hand, GoOn, Idle
    <3>4. CASE RowMarked \/ Scheduled
      BY <3>4 DEF RowMarked, Scheduled, Hand, GoOn, Idle
    <3>5. CASE PreferencesRead
      BY <3>5 DEF PreferencesRead, Hand
    <3> QED
      BY <1>5, <3>1, <3>2, <3>3, <3>4, <3>5
  <2>3. TriesNew(n) \/ (n \in DOMAIN notes /\ notes'[n] = notes[n])
    BY <1>4, <2>1
  <2>4. ASSUME n \in DOMAIN notes, notes'[n] = notes[n] PROVE Last(n)' = Last(n)
    BY <2>2, <2>4 DEF Last
  <2>5. faults <= faults' /\ faults' \in Nat /\ crashes' \in Nat /\ crashes <= crashes'
    BY <1>1, <2>1
  <2> QED
    BY <1>3, <2>3, <2>4, <2>5
<1>6. CASE NoteSent
  <2>1. work.pc = "send" /\ work.id \in Sendable
    BY <1>6 DEF NoteSent, HandsFit, NotesInHand, NotePhases
  <2>2. work'.pc \in {"sent", "retry"} /\ work'.id = work.id /\ faults' = faults /\ crashes' = crashes
    BY <1>6 DEF NoteSent, Hand
  <2>3. n \in DOMAIN notes
    BY <1>6 DEF NoteSent, Altered
  <2>4. CASE n = work.id
    <3>1. notes'[n] = Tried(notes[n]) /\ notes[n].status = "pending"
      BY <1>6, <2>1, <2>4 DEF NoteSent, Altered, Sendable
    <3>2. Last(n) = 0 /\ Last(n)' = 1
      BY <2>1, <2>2, <2>4, <3>1 DEF Last
    <3> QED
      BY <2>2, <2>3, <3>1, <3>2 DEF TriesTried
  <2>5. CASE n # work.id
    <3>1. notes'[n] = notes[n]
      BY <1>6, <2>3, <2>5 DEF NoteSent, Altered
    <3>2. Last(n)' = Last(n)
      BY <2>1, <2>2, <2>5, <3>1 DEF Last
    <3> QED
      BY <1>1, <1>3, <2>2, <2>3, <3>1, <3>2
  <2> QED
    BY <2>4, <2>5
<1>7. CASE Recorded
  <2>1. /\ work.pc \in {"sent", "retry", "failed"} /\ work.id \in Sendable /\ crashes' = crashes
        /\ (work.pc = "failed" => faults > 0)
    BY <1>7 DEF Recorded, HandsFit, NotesInHand, NotePhases
  <2>6. faults' \in {faults, faults + 1}
    BY <1>7 DEF Recorded
  <2>2. work'.pc \notin {"sent", "retry"}
    BY <1>7 DEF Recorded, GoOn, Idle
  <2>3. faults <= faults' /\ faults' \in Nat /\ crashes' \in Nat /\ crashes <= crashes'
    <3>1. faults' \in Nat /\ crashes' \in Nat
      BY <1>1, <2>1, <2>6
    <3>2. faults <= faults'
      BY <1>1, <2>6
    <3>3. crashes <= crashes'
      BY <1>1, <2>1
    <3> QED
      BY <3>1, <3>2, <3>3
  <2>4. CASE notes' = notes /\ faults' = faults + 1
    BY <1>1, <1>3, <2>3, <2>4
  <2>5. CASE Altered(NoteRec, notes, notes', work.id, Outcome(notes[work.id], work.pc))
    <3>1. n \in DOMAIN notes /\ notes[n] \in NoteRec
      BY <1>1, <2>5 DEF Altered
    <3>2. CASE n # work.id
      <4>1. notes'[n] = notes[n]
        BY <2>5, <3>1, <3>2 DEF Altered
      <4>2. Last(n)' = Last(n)
        BY <2>2, <3>2, <4>1 DEF Last
      <4> QED
        BY <1>3, <2>3, <3>1, <4>1, <4>2
    <3>3. CASE n = work.id
      <4>1. notes'[n] = Outcome(notes[n], work.pc) /\ notes[n].status = "pending" /\ RetriesLeft(notes[n])
        BY <2>1, <2>5, <3>3 DEF Altered, Sendable
      <4>2. CASE work.pc = "retry"
        <5>1. /\ notes'[n].retries = notes[n].retries + 1 /\ notes'[n].tries = notes[n].tries
              /\ notes'[n].status = "pending"
          BY <3>1, <4>1, <4>2 DEF Outcome, NoteRec
        <5> QED
          BY <2>1, <2>3, <3>1, <5>1 DEF TriesRecorded
      <4>3. CASE work.pc # "retry"
        <5>1. /\ notes'[n].retries = notes[n].retries /\ notes'[n].tries = notes[n].tries
              /\ notes'[n].status = work.pc
          BY <3>1, <4>1, <4>3 DEF Outcome, NoteRec
        <5>2. RetriesLeft(notes'[n])
          BY <4>1, <5>1 DEF RetriesLeft
        <5>3. work.pc = "sent" => Last(n)' = 1
          BY <5>1 DEF Last
        <5>4. work.pc = "failed" => Last(n) = 0
          BY <4>1 DEF Last
        <5>5. CASE work.pc = "sent"
          BY <2>1, <2>3, <3>1, <5>1, <5>2, <5>3, <5>5 DEF TriesRecorded
        <5>6. CASE work.pc = "failed"
          BY <2>1, <2>3, <3>1, <5>1, <5>4, <5>6 DEF TriesRecorded
        <5> QED
          BY <2>1, <4>3, <5>5, <5>6
      <4> QED
        BY <4>2, <4>3
    <3> QED
      BY <3>2, <3>3
  <2> QED
    BY <1>7, <2>4, <2>5 DEF Recorded
<1>8. CASE Crashed
  <2>1. notes' = notes /\ faults' = faults /\ crashes' = crashes + 1
    BY <1>8 DEF Crashed
  <2>2. crashes + 1 <= crashes' /\ crashes' \in Nat /\ faults <= faults'
    BY <1>1, <2>1
  <2> QED
    BY <1>1, <1>3, <2>1, <2>2
<1> QED
  BY <1>5, <1>6, <1>7, <1>8 DEF Happens

(* A try is the last, gets counted as a retry, or is paid for.             *)
LEMMA TriesStep ==
    ASSUME TypeOK, TypeOK', HandsFit, Happens, TriesPaid
    PROVE  TriesPaid'
<1>1. /\ faults \in Nat /\ crashes \in Nat /\ MaxRetries \in Nat /\ MaxTries \in Nat
      /\ \A k \in DOMAIN notes : notes[k] \in NoteRec
  BY Tables
<1>2. /\ faults' \in 0..MaxFaults /\ crashes' \in 0..MaxCrashes
      /\ notes' \in Seq(NoteRec)
  BY DEF TypeOK, NoteRec
<1>3. faults' \in Nat /\ crashes' \in Nat
  BY <1>2, WorkerAssumption
<1>4. ASSUME NEW n \in DOMAIN notes'
      PROVE  /\ notes'[n].tries <= notes'[n].retries + faults' + crashes' + Last(n)'
             /\ notes'[n].status = "sent" => RetriesLeft(notes'[n])
             /\ notes'[n].status = "failed" => faults' > 0
  <2> DEFINE l == Last(n)
             t == notes[n].tries
             r == notes[n].retries
             ll == Last(n)'
             tt == notes'[n].tries
             rr == notes'[n].retries
             ff == faults'
             cc == crashes'
  <2> DEFINE Goal == tt <= rr + ff + cc + ll
  <2>1. l \in Nat /\ ll \in Nat /\ l <= 1 /\ ll <= 1
    BY DEF Last
  <2>2. notes'[n] \in NoteRec
    BY <1>2
  <2>3. rr \in Nat /\ tt \in Nat /\ ff \in Nat /\ cc \in Nat
    BY <1>1, <1>3, <2>2 DEF NoteRec
  <2>4. TriesNew(n) \/ TriesKept(n) \/ TriesTried(n) \/ TriesRecorded(n)
    BY TriesMove
  <2>5. ASSUME n \in DOMAIN notes
        PROVE  /\ t \in Nat /\ r \in Nat /\ t <= r + faults + crashes + l
               /\ notes[n].status = "sent" => RetriesLeft(notes[n])
               /\ notes[n].status = "failed" => faults > 0
    <3>1. notes[n] \in NoteRec
      BY <1>1, <2>5
    <3>2. t \in Nat /\ r \in Nat
      BY <1>1, <3>1 DEF NoteRec
    <3> QED
      BY <2>5, <3>2 DEF TriesPaid
  <2>6. CASE TriesNew(n)
    <3>1. tt <= 0 /\ notes'[n].status = "pending"
      BY <2>6 DEF TriesNew
    <3>2. Goal
      <4> HIDE DEF ll, tt, rr, ff, cc
      <4> QED
        BY <2>1, <2>3, <3>1
    <3> QED
      BY <3>1, <3>2
  <2>7. CASE TriesKept(n)
    <3>1. /\ n \in DOMAIN notes /\ notes'[n] = notes[n]
          /\ tt <= t /\ r <= rr /\ l + faults + crashes <= ll + ff + cc /\ faults <= ff
      BY <2>3, <2>7 DEF TriesKept
    <3>2. t \in Nat /\ r \in Nat /\ t <= r + faults + crashes + l
      BY <2>5, <3>1
    <3>3. Goal
      <4>1. tt <= t /\ r <= rr /\ l + faults + crashes <= ll + ff + cc
        BY <3>1
      <4> HIDE DEF l, t, r, ll, tt, rr, ff, cc
      <4> QED
        BY <1>1, <2>1, <2>3, <4>1, <3>2
    <3>4. faults > 0 => faults' > 0
      BY <1>1, <1>3, <3>1
    <3> QED
      BY <2>5, <3>1, <3>3, <3>4
  <2>8. CASE TriesTried(n)
    <3>1. n \in DOMAIN notes /\ notes'[n] = Tried(notes[n]) /\ notes[n].status = "pending" /\ notes[n] \in NoteRec
      BY <1>1, <2>8 DEF TriesTried
    <3>2. notes'[n].status = "pending" /\ rr = r /\ tt \in {t, t + 1}
      BY <3>1 DEF Tried, NoteRec
    <3>3. t \in Nat /\ r \in Nat /\ t <= r + faults + crashes + l
      BY <2>5, <3>1
    <3>4. l <= 0 /\ 1 <= ll /\ faults <= ff /\ crashes <= cc
      BY <1>1, <1>3, <2>8 DEF TriesTried
    <3>5. Goal
      <4>1. tt <= t + 1 /\ r <= rr
        BY <3>2, <3>3
      <4> HIDE DEF l, t, r, ll, tt, rr, ff, cc
      <4> QED
        BY <1>1, <2>1, <2>3, <3>3, <3>4, <4>1
    <3> QED
      BY <3>2, <3>5
  <2>9. CASE TriesRecorded(n)
    <3>1. n \in DOMAIN notes /\ faults <= ff /\ crashes <= cc
      BY <1>1, <2>9 DEF TriesRecorded
    <3>2. t \in Nat /\ r \in Nat /\ t <= r + faults + crashes + l
      BY <2>5, <3>1
    <3>3. /\ tt <= t
          /\ r + 1 <= rr \/ (r <= rr /\ 1 <= ll) \/ (r <= rr /\ l <= 0)
      BY <2>1, <2>3, <2>9, <3>2 DEF TriesRecorded
    <3>4. Goal
      <4> HIDE DEF l, t, r, ll, tt, rr, ff, cc
      <4> QED
        BY <1>1, <2>1, <2>3, <3>1, <3>2, <3>3
    <3>5. notes'[n].status = "sent" => RetriesLeft(notes'[n])
      BY <2>9 DEF TriesRecorded
    <3>6. notes'[n].status = "failed" => faults > 0
      BY <2>9 DEF TriesRecorded
    <3> QED
      BY <1>1, <1>3, <3>1, <3>4, <3>5, <3>6
  <2> QED
    BY <2>4, <2>6, <2>7, <2>8, <2>9
<1> QED
  BY <1>4 DEF TriesPaid

(* The invariant of the notifications holds of the empty tables.           *)
LEMMA NotificationsStart ==
    ASSUME Init
    PROVE  NotificationsInv
<1>1. rows = <<>> /\ notes = <<>> /\ work = Idle /\ faults = 0 /\ crashes = 0 /\ now = 0 /\ broken = FALSE
  BY DEF Init
<1>2. DOMAIN rows = {} /\ DOMAIN notes = {} /\ Len(rows) = 0 /\ Len(notes) = 0
  BY <1>1
<1>3. TypeOK
  <2>1. <<>> \in Seq([day : Days, active : BOOLEAN, sent : BOOLEAN])
        /\ <<>> \in Seq([day : 0..LastDay, due : 0..LastDay, status : {"pending", "sent", "failed"},
                         retries : 0..MaxRetries, tries : 0..MaxTries])
    OBVIOUS
  <2>2. /\ 0 \in 0..LastDay /\ 0 \in 0..MaxFaults /\ 0 \in 0..MaxCrashes
        /\ 0 \in 0..(Len(rows) + Len(notes))
    BY <1>2, WorkerAssumption
  <2>3. work \in [pc : {"idle", "reminder", "mark", "next", "note", "send", "sent", "retry", "failed"},
                  left : SUBSET (DOMAIN rows \cup DOMAIN notes), id : 0..(Len(rows) + Len(notes))]
    BY <1>1, <2>2 DEF Idle
  <2> QED
    BY <1>1, <2>1, <2>2, <2>3 DEF TypeOK
<1>4. RowsInHand /\ NotesInHand /\ NothingInHand /\ NoneToRemind /\ TriesPaid
  BY <1>1, <1>2 DEF RowsInHand, NotesInHand, NothingInHand, NoneToRemind, TriesPaid, Idle, RowPhases, NotePhases
<1>5. ASSUME NEW day \in Days
      PROVE  /\ Toward(day) = {} /\ Unsent(day) = {} /\ Reminded(day) = {}
             /\ Coming(day) = 0 /\ Queued(day) = 0
  BY <1>1, <1>2 DEF Toward, Unsent, Reminded, Coming, Queued, Idle
<1>6. RowsPaid /\ RemindersPaid
  <2>1. Cardinality({}) = 0
    BY FS_EmptySet
  <2>2. RowsPaid
    <3>1. ASSUME NEW day \in Days PROVE Cardinality(Toward(day)) + Coming(day) <= 1 + faults
      <4>1. Cardinality(Toward(day)) = 0 /\ Coming(day) = 0 /\ faults = 0
        BY <1>1, <1>5, <2>1
      <4> QED
        BY <4>1
    <3> QED
      BY <3>1 DEF RowsPaid
  <2>3. RemindersPaid
    BY <1>1, <1>5, <2>1 DEF RemindersPaid
  <2> QED
    BY <2>2, <2>3
<1> QED
  BY <1>3, <1>4, <1>6 DEF NotificationsInv

(* Every step keeps the invariant of the notifications.                    *)
LEMMA NotificationsMove ==
    ASSUME NotificationsInv, [Next]_vars
    PROVE  NotificationsInv'
<1>1. TypeOK /\ HandsFit /\ NoneToRemind /\ RowsPaid /\ RemindersPaid /\ TriesPaid
  BY DEF NotificationsInv, HandsFit
<1>2. Happens
  BY <1>1, Happenings
<1>3. TypeOK'
  BY <1>1, WorkerTypeStep
<1>4. HandsFit' /\ NoneToRemind'
  BY <1>1, HandsStep, NoneToRemindStep
<1>5. RowsPaid' /\ RemindersPaid'
  BY <1>1, <1>2, <1>3, CountsStep
<1>6. TriesPaid'
  BY <1>1, <1>2, <1>3, TriesStep
<1> QED
  BY <1>3, <1>4, <1>5, <1>6 DEF NotificationsInv, HandsFit

(* The invariant of the notifications has the bounds as a consequence.     *)
LEMMA NotificationsShow ==
    ASSUME NotificationsInv
    PROVE  DuplicatesPaidFor
<1>1. TypeOK /\ HandsFit /\ RowsPaid /\ RemindersPaid /\ TriesPaid
  BY DEF NotificationsInv, HandsFit
<1>2. ASSUME NEW day \in Days
      PROVE  /\ Cardinality({i \in DOMAIN rows : rows[i].day = day}) <= 1 + faults
             /\ Cardinality(Reminded(day)) <= 1 + faults + crashes
  <2> DEFINE O == {i \in DOMAIN rows : rows[i].day = day}
             U == Unsent(day)
             o == Cardinality(O)
             a == Cardinality(Toward(day))
             b == Cardinality(U)
             r == Cardinality(Reminded(day))
             m == Coming(day)
             q == Queued(day)
  <2>1. /\ Toward(day) \in SUBSET (1..Len(rows)) /\ U \in SUBSET (1..Len(rows)) /\ Len(rows) \in Nat
        /\ faults \in Nat /\ crashes \in Nat /\ m \in Nat /\ q \in {0, 1}
        /\ a \in Nat /\ b \in Nat /\ r \in Nat
    BY <1>1, CountsAre
  <2>2. a + m <= 1 + faults /\ r + b + m <= 1 + faults + crashes + q
    BY <1>1 DEF RowsPaid, RemindersPaid
  <2>3. IsFiniteSet(1..Len(rows))
    BY <2>1, FS_Interval
  <2>4. o <= a /\ o \in Nat
    <3>1. IsFiniteSet(Toward(day))
      BY <2>1, <2>3, FS_Subset
    <3>2. O \subseteq Toward(day)
      BY DEF Toward
    <3>3. IsFiniteSet(O) /\ o <= a
      BY <3>1, <3>2, FS_Subset
    <3> QED
      BY <3>3, FS_CardinalityType
  <2>5. q = 1 => b >= 1
    <3>1. ASSUME q = 1 PROVE work.id \in U
      <4>1. work.pc = "mark" /\ rows[work.id].day = day
        BY <3>1 DEF Queued
      <4>2. work.id \in DOMAIN rows /\ ~ rows[work.id].sent /\ day <= day
        BY <1>1, <4>1, WorkerAssumption DEF HandsFit, RowsInHand, Days
      <4> QED
        BY <4>1, <4>2 DEF Unsent
    <3>2. work.id \in U => Cardinality(U \ {work.id}) = b - 1 /\ Cardinality(U \ {work.id}) \in Nat
      <4>1. U \ {work.id} \in SUBSET (1..Len(rows))
        BY <2>1
      <4> HIDE DEF U
      <4> QED
        BY <2>1, <4>1, Sizes
    <3> HIDE DEF U, b, q
    <3> QED
      BY <2>1, <3>1, <3>2
  <2> HIDE DEF o, a, b, r, m, q
  <2>6. o <= 1 + faults /\ r <= 1 + faults + crashes
    BY <2>1, <2>2, <2>4, <2>5
  <2> QED
    BY <2>6 DEF o, r
<1>3. /\ MaxRetries \in Nat \ {0} /\ MaxTries \in Nat /\ faults \in Nat /\ crashes \in Nat
      /\ \A n \in DOMAIN notes : notes[n] \in NoteRec
  BY <1>1, Tables
<1>4. ASSUME NEW n \in DOMAIN notes
      PROVE  /\ notes[n].tries <= MaxRetries + faults + crashes
             /\ notes[n].status = "sent" => notes[n].tries <= 1 + notes[n].retries + faults + crashes
             /\ notes[n].status = "failed" => faults > 0
  <2>1. /\ notes[n].tries <= notes[n].retries + faults + crashes + Last(n)
        /\ notes[n].status = "sent" => RetriesLeft(notes[n])
        /\ notes[n].status = "failed" => faults > 0
    BY <1>1 DEF TriesPaid
  <2>2. notes[n].tries \in Nat /\ notes[n].retries \in Nat /\ notes[n].retries <= MaxRetries
    <3>1. notes[n] \in NoteRec
      BY <1>3
    <3> QED
      BY <1>3, <3>1 DEF NoteRec
  <2>3. Last(n) = 0 \/ (Last(n) = 1 /\ notes[n].retries < MaxRetries)
    <3>1. work.pc \in {"sent", "retry"} /\ work.id = n => RetriesLeft(notes[n])
      BY <1>1 DEF HandsFit, NotesInHand, NotePhases, Sendable
    <3>2. Last(n) = 0 \/ (Last(n) = 1 /\ RetriesLeft(notes[n]))
      BY <2>1, <3>1 DEF Last
    <3> QED
      BY <3>2 DEF RetriesLeft
  <2> QED
    BY <1>3, <2>1, <2>2, <2>3
<1> QED
  BY <1>1, <1>2, <1>4 DEF DuplicatesPaidFor, RemindersPaidFor, TriesPaidFor

(* Of any one day a user is reminded once, and a notification is sent out  *)
(* MaxRetries times at most, each once more at most for every statement    *)
(* that failed and every death of the process, and none is given up        *)
(* without a fault.                                                        *)
THEOREM DuplicatesArePaidFor == Spec => []DuplicatesPaidFor
<1>1. Init => NotificationsInv
  BY NotificationsStart
<1>2. NotificationsInv /\ [Next]_vars => NotificationsInv'
  BY NotificationsMove
<1>3. NotificationsInv => DuplicatesPaidFor
  BY NotificationsShow
<1> QED
  BY <1>1, <1>2, <1>3, PTL DEF Spec

(* A step out of a state in which the reminder is over leads to another    *)
(* one, and queues no reminder.                                            *)
LEMMA OverStays ==
    ASSUME NotificationsInv, [Next]_vars, Over
    PROVE  Over' /\ \A day \in Days : Reminded(day)' = Reminded(day)
<1>1. TypeOK /\ HandsFit /\ Happens /\ RowsKept
  BY Happenings, EntriesKept DEF NotificationsInv, HandsFit
<1>2. rows # <<>> /\ (\A i \in DOMAIN rows : ~ Live(i)) /\ work.pc \notin RowPhases
  BY DEF Over, Live, RowPhases
<1>3. DueRows = {}
  BY <1>2 DEF DueRows
<1>4. \/ Aside \/ AskedFor \/ NotesTaken \/ PreferencesRead \/ NoteSent \/ Recorded \/ Crashed
  BY <1>1, <1>2, <1>3 DEF Happens, Created, Cancelled, RowsTaken, RowQueued, RowMarked, Scheduled, RowPhases
<1>5. rows' = rows
  BY <1>4 DEF Aside, AskedFor, NotesTaken, PreferencesRead, NoteSent, Recorded, Crashed
<1>6. work'.pc \notin RowPhases
  BY <1>2, <1>4 DEF Aside, AskedFor, NotesTaken, PreferencesRead, NoteSent, Recorded, Crashed, Hand, GoOn, Idle, RowPhases
<1>7. Over'
  BY <1>2, <1>5, <1>6 DEF Over, Live, RowPhases
<1>8. ASSUME NEW day \in Days PROVE Reminded(day)' = Reminded(day)
  <2>1. day # 0
    BY WorkerAssumption DEF Days
  <2>2. CASE AskedFor
    <3>1. PICK due \in 0..LastDay : Longer(NoteRec, notes, notes', Note(0, due))
      BY <2>2 DEF AskedFor
    <3> QED
      BY <2>1, <3>1 DEF Longer, Note, Reminded
  <2>3. CASE notes' = notes
    BY <2>3 DEF Reminded
  <2>4. ASSUME NEW e, Altered(NoteRec, notes, notes', work.id, e), e.day = notes[work.id].day
        PROVE  Reminded(day)' = Reminded(day)
    BY <2>4 DEF Altered, Reminded
  <2>5. \A n \in DOMAIN notes : notes[n] \in NoteRec
    BY <1>1, Tables
  <2>6. CASE NoteSent
    <3>1. Altered(NoteRec, notes, notes', work.id, Tried(notes[work.id])) /\ work.id \in DOMAIN notes
      BY <2>6 DEF NoteSent, Altered
    <3>2. Tried(notes[work.id]).day = notes[work.id].day
      BY <2>5, <3>1 DEF Tried, NoteRec
    <3> QED
      BY <2>4, <3>1, <3>2
  <2>7. CASE Altered(NoteRec, notes, notes', work.id, Outcome(notes[work.id], work.pc))
    <3>1. work.id \in DOMAIN notes
      BY <2>7 DEF Altered
    <3>2. Outcome(notes[work.id], work.pc).day = notes[work.id].day
      BY <2>5, <3>1 DEF Outcome, NoteRec
    <3> QED
      BY <2>4, <2>7, <3>2
  <2> QED
    BY <1>4, <2>2, <2>3, <2>6, <2>7 DEF Aside, NotesTaken, PreferencesRead, Recorded, Crashed
<1> QED
  BY <1>7, <1>8

(* Once no row is live and the worker has none in hand, no row ever gets   *)
(* live again and no reminder is queued.                                   *)
THEOREM CancellationSticks == Spec => CancelSticks
<1>1. Init => NotificationsInv
  BY NotificationsStart
<1>2. NotificationsInv /\ [Next]_vars => NotificationsInv'
  BY NotificationsMove
<1>3. NotificationsInv /\ [Next]_vars => [Over => Over' /\ \A day \in Days : Reminded(day)' = Reminded(day)]_vars
  BY OverStays
<1> QED
  BY <1>1, <1>2, <1>3, PTL DEF Spec, CancelSticks
==============================================================================
