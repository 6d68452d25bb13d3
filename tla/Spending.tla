------------------------------- MODULE Spending -------------------------------
(***************************************************************************)
(* What calls of models cost an institution (internal/ai: cost_tracker.go, *)
(* cache.go): a call looks for a kept answer, checks the spend of a        *)
(* sliding window against a ceiling, asks the model, records what it used  *)
(* in the window and in four totals, and keeps the answer.  The order of   *)
(* these steps is the caller's, which is external; docs/architecture/      *)
(* MIGRATION_PLAN.md asks that overages are refused before the provider is *)
(* called.                                                                 *)
(***************************************************************************)
EXTENDS ModelCalls

CONSTANTS
    Ceilings,   \* ceilings that may be set, [max, window]
    DefaultCeiling,
    Windows,    \* windows a report asks for
    Estimate,   \* what a call is expected to cost
    KeyLife,    \* of a window in Redis after a record (30 days in the code)
    Global,     \* the key of the overall total
    MaxCalls,   \* bound on calls
    MaxChanges  \* bound on ceilings changed, resets, reports and answers expired

ASSUME SpendingAssumption ==
    /\ {Estimate, KeyLife, MaxCalls, MaxChanges} \subseteq Nat /\ Windows \subseteq Nat
    /\ Ceilings \cup {DefaultCeiling} \subseteq [max : Nat, window : Nat] \cup {Unset}
    /\ IsFiniteSet(Users) /\ IsFiniteSet(Tasks)
    /\ Users \cap Tasks = {} /\ Global \notin Users \cup Tasks
    /\ Institutions \cap (Users \cup Tasks \cup {Global}) = {}

VARIABLES
    spend,    \* per institution the window: what was recorded, by moment
    until,    \* per institution, the last moment of that key
    total,    \* the aggregated costs by institution, user, task, and overall
    ceiling,  \* per institution, of this process
    cached,   \* prompts whose answer is kept
    begun, changes,
    recorded, \* history: all that was ever recorded in a window since a reset
    purged,   \* history: per institution, the moment before which records were dropped
    paid,     \* history: per prompt, what was asked of a model
    raced     \* history: per prompt, lookups that missed what is being made

spendVars == <<spend, until, total, ceiling, cached, begun, changes, recorded, purged, paid, raced>>
vars == <<callVars, spendVars>>

Keys == Institutions \cup Users \cup Tasks \cup {Global}
Nothing == [t \in Times |-> 0]
SumOf(f, S) == FoldFunctionOnSet(+, 0, f, S)
Since(amounts, from) == SumOf(amounts, {t \in Times : t >= from})
From(window) == IF now > window THEN now - window ELSE 0

Init ==
    /\ CallsInit
    /\ spend = [i \in Institutions |-> Nothing] /\ recorded = spend
    /\ until = [i \in Institutions |-> 0] /\ purged = until
    /\ total = [k \in Keys |-> 0]
    /\ ceiling \in [Institutions -> Ceilings \cup {Unset}]
    /\ cached = {} /\ begun = 0 /\ changes = 0
    /\ paid = [p \in Prompts |-> 0] /\ raced = paid

(* The steps of a call, as the caller takes them.                          *)
Plain == <<"lookup", "check", "call", "window", "inst", "user", "task", "global", "keep">>
Streamed == <<"check", "call", "stream", "window", "inst", "user", "task", "global">>
Begin(c, todo) ==
    /\ begun < MaxCalls /\ begun' = begun + 1
    /\ \E u \in Users, i \in Institutions, k \in Tasks, p \in Prompts : Ask(c, u, i, k, p, todo)
    /\ UNCHANGED <<now, billed, faults>>
    /\ UNCHANGED <<spend, until, total, ceiling, cached, changes, recorded, purged, paid, raced>>

(* A statement on Redis fails, or its context has ended: the call is over. *)
StepFails(c) ==
    /\ \E s \in {"lookup", "check", "window", "inst", "user", "task", "global", "keep"} : Doing(c, s)
    /\ IF call[c].live THEN Fails ELSE Works
    /\ Over(c)
    /\ UNCHANGED <<now, billed, spendVars>>

Step(c, s) == Doing(c, s) /\ call[c].live /\ Advance(c, call[c]) /\ UNCHANGED <<now, billed, faults>>

-----------------------------------------------------------------------------
(* The cache.  A prompt is asked for with a task, messages and temperature *)
(* and the kept answer is found by their hash.                             *)
Making(d, p) == call[d] # Idle /\ call[d].prompt = p /\ "keep" \in ToSet(call[d].todo) /\ ~ Doing(d, "lookup")

CacheGet(c) ==
    LET p == call[c].prompt IN
    /\ Doing(c, "lookup") /\ call[c].live
    /\ IF p \in cached
       THEN Over(c) /\ UNCHANGED raced
       ELSE /\ Advance(c, call[c])
            /\ raced' = [raced EXCEPT ![p] = @ + IF \E d \in Calls : Making(d, p) THEN 1 ELSE 0]
    /\ UNCHANGED <<now, billed, faults, spend, until, total, ceiling, cached, begun, changes,
                   recorded, purged, paid>>

(* Mutant: the answer is kept under a key that is never looked up.         *)
CacheSetElsewhere(c) ==
    /\ Step(c, "keep")
    /\ UNCHANGED spendVars

CacheSet(c) ==
    /\ Step(c, "keep")
    /\ cached' = cached \cup {call[c].prompt}
    /\ UNCHANGED <<spend, until, total, ceiling, begun, changes, recorded, purged, paid, raced>>

(* It is deleted, or its 24 hours are over.                                *)
CacheDelete(p) ==
    /\ p \in cached /\ cached' = cached \ {p}
    /\ changes < MaxChanges /\ changes' = changes + 1
    /\ UNCHANGED <<callVars, spend, until, total, ceiling, begun, recorded, purged, paid, raced>>

-----------------------------------------------------------------------------
(* Ceilings are kept per process, under a lock.                            *)
SetBudgetCeiling(i, x) ==
    /\ ceiling[i] # x /\ ceiling' = [ceiling EXCEPT ![i] = x]
    /\ changes < MaxChanges /\ changes' = changes + 1
    /\ UNCHANGED <<callVars, spend, until, total, cached, begun, recorded, purged, paid, raced>>

GetBudgetCeiling(i) == IF ceiling[i] # Unset THEN ceiling[i] ELSE DefaultCeiling

(* Asking what was spent in a window drops what is older than that window, *)
(* from a set that longer windows are summed from as well.                 *)
Purged(i, window) == [t \in Times |-> IF t < From(window) THEN 0 ELSE spend[i][t]]
Purge(i, window) ==
    /\ spend' = [spend EXCEPT ![i] = Purged(i, window)]
    /\ purged' = [purged EXCEPT ![i] = IF From(window) > @ THEN From(window) ELSE @]
WindowSpend(i, window) == Since(spend[i], From(window))

(* Mutant: the estimate of the call is left out.                           *)
AllowedByPast(i, x) == x = Unset \/ WindowSpend(i, x.window) <= x.max

Allowed(i, x) == x = Unset \/ WindowSpend(i, x.window) + Estimate <= x.max

CheckSpend(c) ==
    LET i == call[c].inst  x == GetBudgetCeiling(i) IN
    /\ Doing(c, "check") /\ call[c].live
    /\ IF x = Unset THEN UNCHANGED <<spend, purged>> ELSE Purge(i, x.window)
    /\ IF Allowed(i, x) THEN Advance(c, call[c]) ELSE Over(c)
    /\ UNCHANGED <<now, billed, faults, until, total, ceiling, cached, begun, changes, recorded, paid, raced>>

GetSlidingWindowSpend(i, window) ==
    /\ Purge(i, window)
    /\ changes < MaxChanges /\ changes' = changes + 1
    /\ UNCHANGED <<callVars, until, total, ceiling, cached, begun, recorded, paid, raced>>

(* The totals by user and task and the overall one are not touched.        *)
ResetInstitutionMetrics(i) ==
    /\ total' = [total EXCEPT ![i] = 0]
    /\ spend' = [spend EXCEPT ![i] = Nothing] /\ recorded' = [recorded EXCEPT ![i] = Nothing]
    /\ billed' = [billed EXCEPT ![i] = Nothing]
    /\ changes < MaxChanges /\ changes' = changes + 1
    /\ UNCHANGED <<call, now, faults, until, ceiling, cached, begun, purged, paid, raced>>

-----------------------------------------------------------------------------
(* RecordUsage: the window, whose key lives on from then (RedisCost-       *)
(* TrackerStore.RecordSpend), then a total at a time.                      *)
RecordSpend(c) ==
    LET i == call[c].inst IN
    /\ Step(c, "window")
    /\ spend' = [spend EXCEPT ![i][now] = @ + call[c].cost]
    /\ recorded' = [recorded EXCEPT ![i][now] = @ + call[c].cost]
    /\ until' = [until EXCEPT ![i] = now + KeyLife]
    /\ UNCHANGED <<purged, total, ceiling, cached, begun, changes, paid, raced>>

MetricKey(c, s) ==
    CASE s = "inst" -> call[c].inst [] s = "user" -> call[c].user
      [] s = "task" -> call[c].task [] s = "global" -> Global

IncrementMetrics(c) ==
    \E s \in {"inst", "user", "task", "global"} :
        /\ Step(c, s)
        /\ total' = [total EXCEPT ![MetricKey(c, s)] = @ + call[c].cost]
        /\ UNCHANGED <<spend, until, ceiling, cached, begun, changes, recorded, purged, paid, raced>>

(* Time passes: a window nobody recorded in for so long is gone, whatever  *)
(* ceilings are summed from it.                                            *)
Pass ==
    /\ Tick
    /\ spend' = [i \in Institutions |-> IF now' > until[i] THEN Nothing ELSE spend[i]]
    /\ UNCHANGED <<until, total, ceiling, cached, begun, changes, recorded, purged, paid, raced>>

-----------------------------------------------------------------------------
Counted(c) ==
    IF billed' # billed /\ "keep" \in ToSet(call[c].todo)
    THEN paid' = [paid EXCEPT ![call[c].prompt] = @ + 1] ELSE UNCHANGED paid

ByOthers ==
    \/ \E p \in Prompts : CacheDelete(p)
    \/ \E i \in Institutions :
         \/ \E x \in Ceilings \cup {Unset} : SetBudgetCeiling(i, x)
         \/ \E w \in Windows : GetSlidingWindowSpend(i, w)
         \/ ResetInstitutionMetrics(i)

(* The totals are added to by atomic increments, and nothing in the        *)
(* gateway acts on them: while a call adds to them others do not move,     *)
(* which leaves out no outcome.                                            *)
Totalling(c) == \E s \in {"user", "task", "global"} : Doing(c, s)

Next ==
    \/ \E c \in Calls :
       /\ \A d \in Calls \ {c} : ~ Totalling(d)
       /\ \/ Begin(c, Plain) \/ Begin(c, Streamed) \/ StepFails(c)
          \/ CacheGet(c) \/ CacheSet(c) \/ CheckSpend(c) \/ RecordSpend(c) \/ IncrementMetrics(c)
          \/ /\ CallNext(c) /\ Counted(c)
             /\ UNCHANGED <<spend, until, total, ceiling, cached, begun, changes, recorded, purged, raced>>
    \/ /\ \A c \in Calls : ~ Totalling(c)
       /\ ByOthers \/ Pass

Spec == Init /\ [][Next]_vars /\ \A c \in Calls : WF_callVars(Stopped(c))

-----------------------------------------------------------------------------
MaxCost == LET costs == Reported \cup Range(TokenCost) IN CHOOSE x \in costs : \A y \in costs : y <= x
Summary(key) == total[key]
SumOver(keys) == SumOf([k \in keys |-> Summary(k)], keys)

(* Charged and not recorded yet.                                           *)
Unrecorded(i) ==
    {c \in Calls : /\ call[c] # Idle /\ call[c].inst = i
                   /\ "window" \in ToSet(call[c].todo) /\ "call" \notin ToSet(call[c].todo)}
Forgotten(i, from) == Since(recorded[i], from) - Since(spend[i], from)
(* A window forgets what it should show only after a report or a check of  *)
(* a shorter one, or if it is longer than its key lives.                   *)
Forgets(i, window) == purged[i] > From(window) \/ window > KeyLife

(* A call passes the check only if all that was charged in the window, and *)
(* the call itself, fits the ceiling, but for what the window could not    *)
(* show: answers others have and did not record yet, answers and records   *)
(* lost, and what the window forgot, if it is one that forgets             *)
(* (CheckSpendAgainstCeiling; SetBudgetCeiling takes windows of any        *)
(* length).                                                                *)
SpendUpToOverlap ==
    [][\A c \in Calls :
         LET i == call[c].inst  x == GetBudgetCeiling(i)  from == From(x.window) IN
         Doing(c, "check") /\ Doing(c, "call")' /\ x # Unset =>
             Since(billed[i], from) + Estimate
                 <= x.max + (IF Forgets(i, x.window) THEN Forgotten(i, from) ELSE 0)
                    + MaxCost * (Cardinality(Unrecorded(i)) + faults)]_vars

(* The totals by user, by task and overall tell the same cost, but for     *)
(* records under way and those that failed midway (RecordUsage returns at  *)
(* the first error).                                                       *)
Adding == {c \in Calls : Doing(c, "task") \/ Doing(c, "global")}
TotalsAgree ==
    LET u == SumOver(Users)  k == SumOver(Tasks)  g == Summary(Global) IN
    k <= u /\ g <= k /\ u <= g + MaxCost * (faults + Cardinality(Adding))

(* A model is asked once for a prompt, and again only for a lookup made    *)
(* while the answer was being made, for one lost, or for one deleted.      *)
PaidOncePerPrompt == \A p \in Prompts : paid[p] <= 1 + raced[p] + faults + changes

(* Both: the books of what was asked and what it cost.                     *)
BooksBalance == TotalsAgree /\ PaidOncePerPrompt
=============================================================================
