------------------------------ MODULE MCWorkers -------------------------------
(* Small instances of the two background workers for TLC.  They share no   *)
(* state, so each is explored by itself, as one of two parts of the run.   *)
EXTENDS NotificationWorker, AIJobs

VARIABLE part \* the part this behaviour is about

MCVars == <<vars, jobVars, part>>

MCInit ==
    /\ part \in {"notifications", "jobs"}
    /\ Init /\ JobsInit

MCNext ==
    /\ \/ part = "notifications" /\ Next /\ UNCHANGED jobVars
       \/ part = "jobs" /\ JobsNext /\ UNCHANGED vars
    /\ UNCHANGED part

(* The fairness of NotificationWorker, of its part of the run.             *)
Notifying(A) == part = "notifications" /\ A /\ UNCHANGED <<jobVars, part>>
MCFairness ==
    /\ WF_MCVars(Notifying(Worker))
    /\ SF_MCVars(Notifying(TakeReminders)) /\ SF_MCVars(Notifying(TakeNotes))
    /\ WF_MCVars(Notifying(NextDay))

MCSpec == MCInit /\ [][MCNext]_MCVars /\ MCFairness
=============================================================================
