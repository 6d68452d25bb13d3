------------------------------- MODULE Admission -------------------------------
(***************************************************************************)
(* What a request of a signed-in user passes before the gateway proxies it *)
(* (middleware/jwt.go, middleware/rate_limit.go): the blacklist of tokens, *)
(* the rate limit, and for the AI paths a quota a day.  All three are kept *)
(* in Redis, and all three let a request pass when Redis does not answer.  *)
(* A request is the list of statements it still has to make.               *)
(***************************************************************************)
EXTENDS Integers, Sequences, FiniteSets, Functions

CONSTANTS
    Slots,       \* requests that may be under way at once
    Users,
    Nil,
    Paths,       \* "api" and "ai"
    Limit,       \* requests a minute, by path
    Window,      \* the minute, in units of the clock (a second in the code)
    Day,         \* the day, in units of the clock
    Quota,       \* AI requests a day
    MaxTime,     \* bound on the clock
    MaxRequests, \* bound on requests
    MaxFaults    \* bound on statements that fail, callers gone and crashes

ASSUME AdmissionAssumption ==
    /\ {Window, Day} \subseteq Nat \ {0}
    /\ {Quota, MaxTime, MaxRequests, MaxFaults} \subseteq Nat /\ Limit \in [Paths -> Nat]
    /\ Nil \notin Nat

VARIABLES
    req,      \* per slot the request under way
    now,
    begun,
    revoked,  \* keys of the blacklist, written by the user service
    hits,     \* per user the moments in the set of the rate limit
    used,     \* per user and day the counter of the quota
    faults,   \* history: what failed
    admitted, \* history: per user and path the requests let through, by moment
    served,   \* history: per user and day the AI requests proxied
    overlaps, \* history: limits checked on a count others have changed since
    escaped   \* history: requests proxied whose token was revoked before they came

limitVars == <<revoked, hits, used, admitted, served, overlaps, escaped>>
admissionVars == <<req, now, begun, faults, limitVars>>

Times == 0 .. MaxTime
Today == now \div Day
Idle == [todo |-> <<>>]
Doing(r, s) == req[r].todo # <<>> /\ Head(req[r].todo) = s

AdmissionInit ==
    /\ req = [r \in Slots |-> Idle]
    /\ now = 0 /\ begun = 0 /\ faults = 0 /\ overlaps = 0 /\ escaped = 0
    /\ revoked = {}
    /\ hits = [u \in Users |-> {}]
    /\ used = [u \in Users |-> [d \in 0 .. MaxTime \div Day |-> 0]] /\ served = used
    /\ admitted = [u \in Users |-> [p \in Paths |-> [t \in Times |-> 0]]]

Begin(r, q) ==
    /\ req[r] = Idle /\ begun < MaxRequests
    /\ begun' = begun + 1
    /\ req' = [req EXCEPT ![r] = q]

Works == UNCHANGED <<now, begun, faults>>
Fault == faults < MaxFaults /\ faults' = faults + 1 /\ UNCHANGED <<now, begun>>
Then(r, q) == req' = [req EXCEPT ![r] = IF q.todo = <<>> THEN Idle ELSE q]
Rest(q) == [q EXCEPT !.todo = Tail(@)]
Continue(q, todo) == [q EXCEPT !.todo = todo]
Refuse(r) == req' = [req EXCEPT ![r] = Idle]

-----------------------------------------------------------------------------
(* JWTMiddleware: the signature of the token and its age are checked first *)
(* and touch no state; the user service revokes a token under the key      *)
(* token_blacklist:<jti>.                                                  *)
Token(prefix, u) == <<prefix, u>>
Revoke(u) ==
    /\ revoked' = revoked \cup {Token("token_blacklist", u)}
    /\ revoked' # revoked
    /\ UNCHANGED <<req, now, begun, faults, hits, used, admitted, served, overlaps, escaped>>

(* The public routes pass none of this, a websocket the same as the rest.  *)
Limits(path) ==
    IF path = "ai" THEN <<"count", "add", "quota", "proxy">> ELSE <<"count", "add", "proxy">>
Chain(path) == <<"token_blacklist", "blacklist">> \o Limits(path)

Arrive(r, u, path) ==
    /\ Begin(r, [todo |-> Chain(path), user |-> u, path |-> path, seen |-> {}, day |-> Today,
                 late |-> Token("token_blacklist", u) \in revoked])
    /\ UNCHANGED <<now, faults, limitVars>>

(* Mutant: only the old key is looked at.                                  *)
IsBlacklistedOld(r) ==
    \E prefix \in {"token_blacklist", "blacklist"} :
        /\ Doing(r, prefix)
        /\ IF Token("blacklist", req[r].user) \in revoked THEN Refuse(r) ELSE Then(r, Rest(req[r]))
        /\ Works /\ UNCHANGED limitVars

IsBlacklisted(r) ==
    \E prefix \in {"token_blacklist", "blacklist"} :
        /\ Doing(r, prefix)
        /\ IF Token(prefix, req[r].user) \in revoked THEN Refuse(r) ELSE Then(r, Rest(req[r]))
        /\ Works /\ UNCHANGED limitVars

(* A failure of either lookup lets the token pass.                         *)
BlacklistFails(r) ==
    /\ Doing(r, "token_blacklist") \/ Doing(r, "blacklist")
    /\ Fault
    /\ Then(r, Continue(req[r], Limits(req[r].path)))
    /\ UNCHANGED limitVars

-----------------------------------------------------------------------------
(* CheckRateLimit: a pipeline, no transaction, that drops what is older    *)
(* than the window and counts, and then adds this moment, whose member is  *)
(* the second itself: requests of one second are one.  It refuses when     *)
(* more than the limit were counted before this one, and has added it by   *)
(* then.                                                                   *)
Count(r) ==
    LET u == req[r].user  kept == {t \in hits[u] : t > now - Window} IN
    /\ Doing(r, "count")
    /\ hits' = [hits EXCEPT ![u] = kept]
    /\ Then(r, [Rest(req[r]) EXCEPT !.seen = kept])
    /\ Works /\ UNCHANGED <<revoked, used, admitted, served, overlaps, escaped>>

WithinLimit(r) == Cardinality(req[r].seen) <= Limit[req[r].path]

Add(r) ==
    LET q == req[r] IN
    /\ Doing(r, "add")
    /\ hits' = [hits EXCEPT ![q.user] = @ \cup {now}]
    /\ overlaps' = IF hits[q.user] \subseteq q.seen THEN overlaps ELSE overlaps + 1
    /\ IF WithinLimit(r)
       THEN /\ Then(r, Rest(q))
            /\ admitted' = [admitted EXCEPT ![q.user][q.path][now] = @ + 1]
       ELSE Refuse(r) /\ UNCHANGED admitted
    /\ Works /\ UNCHANGED <<revoked, used, served, escaped>>

(* The limit fails open, and with it the quota: the request is let through *)
(* at once.                                                                *)
LimitFails(r) ==
    LET q == req[r] IN
    /\ Doing(r, "count") \/ Doing(r, "add")
    /\ Fault
    /\ admitted' = [admitted EXCEPT ![q.user][q.path][now] = @ + 1]
    /\ Then(r, Continue(q, <<"proxy">>))
    /\ UNCHANGED <<revoked, hits, used, served, overlaps, escaped>>

-----------------------------------------------------------------------------
OverQuota(count) == count > Quota

(* The counter of the day is incremented, whether or not the request is    *)
(* then refused; that its key expires matters to no one.                   *)
CountQuota(r) ==
    LET u == req[r].user IN
    /\ Doing(r, "quota")
    /\ used' = [used EXCEPT ![u][Today] = @ + 1]
    /\ IF OverQuota(used'[u][Today]) THEN Refuse(r) ELSE Then(r, [Rest(req[r]) EXCEPT !.day = Today])
    /\ Works /\ UNCHANGED <<revoked, hits, admitted, served, overlaps, escaped>>

QuotaFails(r) ==
    /\ Doing(r, "quota") /\ Fault
    /\ Then(r, Rest(req[r]))
    /\ UNCHANGED limitVars

(* The request goes on to its service (ProxyRequest).                      *)
Proxy(r) ==
    LET q == req[r] IN
    /\ Doing(r, "proxy")
    /\ escaped' = escaped + IF q.late THEN 1 ELSE 0
    /\ served' = IF q.path = "ai" THEN [served EXCEPT ![q.user][q.day] = @ + 1] ELSE served
    /\ Then(r, Rest(q))
    /\ Works /\ UNCHANGED <<revoked, hits, used, admitted, overlaps>>

AdmissionNext(r) ==
    \/ \E u \in Users, p \in Paths : Arrive(r, u, p)
    \/ IsBlacklisted(r) \/ BlacklistFails(r) \/ Count(r) \/ Add(r) \/ LimitFails(r)
    \/ CountQuota(r) \/ QuotaFails(r) \/ Proxy(r)

Tick == now < MaxTime /\ now' = now + 1 /\ UNCHANGED <<req, begun, faults, limitVars>>

-----------------------------------------------------------------------------
(* A token revoked before a request came is not served: the gateway looks  *)
(* under the key the user service writes, and only lets it pass when Redis *)
(* did not answer.                                                         *)
RevokedRefused == escaped <= faults

(* The seconds of a window in which a user's requests were let through are *)
(* at most one more than the limit, but for requests let through when      *)
(* Redis failed and for counts others have changed (CheckRateLimit).       *)
Recent == {t \in Times : t > now - Window}
SecondsLimited ==
    \A u \in Users, p \in Paths :
        Cardinality({t \in Recent : admitted[u][p][t] > 0}) <= Limit[p] + 1 + faults + overlaps

(* No more AI requests a day are proxied for a user than the quota allows, *)
(* but for those let through when Redis failed; a request belongs to the   *)
(* day its quota was asked.                                                *)
QuotaHolds == \A u \in Users : \A d \in DOMAIN served[u] : served[u][d] <= Quota + faults

(* "Redis-based sliding windows (100 RPM normal, 20 RPM AI endpoints)"     *)
(* (services/gateway/README.md:8): no more requests are let through in a   *)
(* window, even if the one that reaches the limit is let through as well,  *)
(* for the count is taken before it is added.                              *)
RequestsLimited == \A u \in Users, p \in Paths : SumFunctionOnSet(admitted[u][p], Recent) <= Limit[p] + 1
=============================================================================
