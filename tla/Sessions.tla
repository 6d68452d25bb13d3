------------------------------ MODULE Sessions ------------------------------
(***************************************************************************)
(* The sessions of one user in the user service: Login, RefreshToken,      *)
(* Logout, ChangePassword, RequestPasswordReset, ResetPassword,            *)
(* RevokeSession and SwitchActiveInstitution of user_service.go, called by *)
(* several requests at once.                                               *)
(*                                                                         *)
(* None of them uses a transaction: every repository or Redis call is a    *)
(* step.  A step that fails either ends the request or is only logged, as  *)
(* the code has it.  A token stands for a token pair and its refresh token *)
(* row, and gives its name to the session row created after it.            *)
(***************************************************************************)
EXTENDS Naturals, FiniteSets

CONSTANTS
    Requests,    \* requests of the user that may be under way at once
    Ops,         \* the operations they may ask for
    MaxTokens,   \* bound on token pairs
    MaxPasswords,\* bound on changes of the password
    MaxResets,   \* bound on password reset tokens
    MaxFaults    \* bound on failed calls and requests that are cut short

AllOps == {"login", "refresh", "logout", "change", "reset", "revoke", "switch"}

ASSUME SessionsAssumption ==
    /\ IsFiniteSet(Requests)
    /\ Ops \subseteq AllOps
    /\ MaxTokens \in Nat /\ MaxPasswords \in Nat /\ MaxResets \in Nat /\ MaxFaults \in Nat

Tokens == 1..MaxTokens
Resets == 1..MaxResets

VARIABLES
    password,  \* users.password_hash, as the number of the change that set it
    revoked,   \* refresh tokens whose row is revoked
    expired,   \* refresh tokens past their expires_at
    issued,    \* number of refresh token rows
    session,   \* user_sessions: "none", "active" or "revoked"
    blacklist, \* access tokens in the token_blacklist keys of Redis
    reset,     \* password_resets: "none", "sent" or "used"
    req,       \* what a request does, where it is, the token, session or reset
               \* token it is about, the password in the users row it will
               \* save or has set, and the token it has created
    held,      \* tokens that were returned to the user
    root,      \* history: per token the first one of its root, which a login issued
    changes,   \* history: changes of the password
    acked,     \* history: the latest change whose request returned success
    overtaken, \* history: requests under way when all tokens were last revoked
    old,       \* history: logins from before that
    tainted,   \* history: tokens issued since by overtaken requests, and their descendants
    uses,      \* history: per reset token, the changes it was good for
    behind,    \* history: changes made while a switch had read the users row
    crossed,   \* history: tokens whose session was created in the middle of a logout
    overlapped,\* history: two requests have been under way at once
    faults     \* history: failed calls, requests cut short and tokens expired

tokens == <<revoked, expired, issued, root, tainted>>
accesses == <<session, blacklist, held, crossed>>
passwords == <<password, reset, changes, acked, uses, behind>>
marks == <<overtaken, old>>
vars == <<tokens, accesses, passwords, marks, req, overlapped, faults>>

Idle == [op |-> "none", pc |-> "idle", arg |-> 0, row |-> 0, new |-> 0]

Init ==
    /\ password = 0 /\ revoked = {} /\ expired = {} /\ issued = 0 /\ blacklist = {}
    /\ session = [t \in Tokens |-> "none"]
    /\ reset = [i \in Resets |-> "none"]
    /\ req = [r \in Requests |-> Idle]
    /\ behind = {} /\ crossed = {}
    /\ held = {} /\ changes = 0 /\ acked = 0 /\ overtaken = {} /\ old = {} /\ tainted = {}
    /\ root = [t \in Tokens |-> t]
    /\ uses = [i \in Resets |-> 0]
    /\ overlapped = FALSE /\ faults = 0

Rows == 1..issued
CanBeUsed(t) == t \notin expired /\ t \notin revoked
Live == {t \in Rows : CanBeUsed(t)}

-----------------------------------------------------------------------------
Ok == UNCHANGED <<faults, overlapped>>
Fault == faults < MaxFaults /\ faults' = faults + 1 /\ UNCHANGED overlapped

Doing(r, phase) == req[r].pc = phase
Goto(r, phase) == req' = [req EXCEPT ![r].pc = phase]
Return(r) == req' = [req EXCEPT ![r] = Idle]
AllIdle == \A r \in Requests : Doing(r, "idle")

ReadUser == password

(* A request of an allowed kind begins, having read what it needs.         *)
Begin(r, what, about, phase) ==
    /\ what \in Ops /\ Doing(r, "idle")
    /\ req' = [req EXCEPT ![r] =
         [op |-> what, pc |-> phase, arg |-> about, new |-> 0,
          row |-> IF what = "switch" THEN ReadUser ELSE 0]]
    /\ overtaken' = overtaken \ {r}
    /\ overlapped' = (overlapped \/ ~ AllIdle)
    /\ UNCHANGED <<tokens, accesses, passwords, old, faults>>

(* Login up to the check of the password.                                  *)
Login(r) == Begin(r, "login", 0, "issue")

(* RefreshToken up to the check of the stored token.                       *)
Refresh(r, t) == t \in held /\ CanBeUsed(t) /\ Begin(r, "refresh", t, "issue")

Logout(r, t) == t \in held /\ Begin(r, "logout", t, "blacklist")

(* ChangePassword up to the check of the current password.                 *)
ChangePassword(r) == Begin(r, "change", 0, "set_password")

(* ResetPassword up to the check of the reset token.                       *)
ResetPassword(r, i) == reset[i] = "sent" /\ Begin(r, "reset", i, "set_password")

(* RevokeSession up to the check of the session's owner.                   *)
RevokeSession(r, s) == session[s] # "none" /\ Begin(r, "revoke", s, "revoke_session")

(* SwitchActiveInstitution up to the check of the membership; row is the   *)
(* users row it will save.                                                 *)
Switch(r) == held \ blacklist # {} /\ Begin(r, "switch", 0, "save_user")

(* RequestPasswordReset, as far as it matters here.                        *)
RequestPasswordReset(i) ==
    /\ reset[i] = "none" /\ "reset" \in Ops
    /\ reset' = [reset EXCEPT ![i] = "sent"]
    /\ UNCHANGED <<tokens, accesses, password, changes, acked, uses, behind, marks, req, overlapped, faults>>

-----------------------------------------------------------------------------
RootOf(r, t) == IF req[r].op = "refresh" THEN root[req[r].arg] ELSE t

Taints(r) == r \in overtaken \/ req[r].arg \in tainted

(* createTokenPair: the refresh token row ...                              *)
Issue(r) ==
    /\ Doing(r, "issue")
    /\ \/ /\ Ok /\ issued < MaxTokens
          /\ issued' = issued + 1
          /\ req' = [req EXCEPT ![r].pc = "session", ![r].new = issued']
          /\ root' = [root EXCEPT ![issued'] = RootOf(r, issued')]
          /\ tainted' = IF Taints(r) THEN tainted \cup {issued'} ELSE tainted
          /\ old' = IF r \in overtaken THEN old \cup {root'[issued']} ELSE old
          /\ UNCHANGED <<revoked, expired>>
       \/ Fault /\ Return(r) /\ UNCHANGED <<tokens, old>>
    /\ UNCHANGED <<accesses, passwords, overtaken>>

(* Mutant: a pair is returned only with its session.                       *)
ReturnedWithSession(r) == {t \in {req[r].new} : session[t] # "none"}

Returned(r) == {req[r].new}

(* ... and the session row, whose failure is only logged.  Login and       *)
(* SwitchActiveInstitution then return the pair.                           *)
CreateSession(r) ==
    /\ Doing(r, "session")
    /\ \/ Ok /\ session' = [session EXCEPT ![req[r].new] = "active"]
       \/ Fault /\ UNCHANGED session
    /\ crossed' = IF \E q \in Requests : Doing(q, "revoke_sessions")
                  THEN crossed \cup {req[r].new} ELSE crossed
    /\ \/ req[r].op = "refresh" /\ Goto(r, "look_up") /\ UNCHANGED held
       \/ req[r].op # "refresh" /\ Return(r) /\ held' = held \cup Returned(r)
    /\ UNCHANGED <<tokens, blacklist, passwords, marks>>

(* RefreshToken reads the row it has just created; a failure ends it.      *)
LookUpNew(r) ==
    /\ Doing(r, "look_up")
    /\ \/ Ok /\ Goto(r, "revoke_old")
       \/ Fault /\ Return(r)
    /\ UNCHANGED <<tokens, accesses, passwords, marks>>

(* Mutant: every token is revoked.                                         *)
ReplacedAll(r) == {req[r].arg} \cup Rows

Replaced(r) == {req[r].arg}

(* The old token is revoked, or its failure logged, and the pair returned. *)
RevokeOld(r) ==
    /\ Doing(r, "revoke_old")
    /\ \/ Ok /\ revoked' = revoked \cup Replaced(r)
       \/ Fault /\ UNCHANGED revoked
    /\ held' = held \cup Returned(r)
    /\ Return(r)
    /\ UNCHANGED <<expired, issued, root, tainted, session, blacklist, crossed, passwords, marks>>

-----------------------------------------------------------------------------
Blacklist(r) ==
    /\ Doing(r, "blacklist")
    /\ \/ Ok /\ blacklist' = blacklist \cup {req[r].arg}
       \/ Fault /\ UNCHANGED blacklist
    /\ Goto(r, "revoke_all")
    /\ UNCHANGED <<tokens, session, held, crossed, passwords, marks>>

(* UpdatePassword, for ChangePassword and ResetPassword.                   *)
SetPassword(r) ==
    /\ Doing(r, "set_password")
    /\ \/ /\ Ok /\ changes < MaxPasswords
          /\ changes' = changes + 1
          /\ password' = changes'
          /\ behind' = IF \E q \in Requests : Doing(q, "save_user")
                       THEN behind \cup {changes'} ELSE behind
          /\ IF req[r].op = "reset"
             THEN /\ uses' = [uses EXCEPT ![req[r].arg] = @ + 1]
                  /\ req' = [req EXCEPT ![r].pc = "mark_used", ![r].row = changes']
             ELSE /\ UNCHANGED uses
                  /\ req' = [req EXCEPT ![r].pc = "revoke_all", ![r].row = changes']
       \/ Fault /\ Return(r) /\ UNCHANGED <<changes, password, uses, behind>>
    /\ UNCHANGED <<tokens, accesses, reset, acked, marks>>

(* Mutant: the reset token is not marked.                                  *)
MarkedNever == "sent"

Marked == "used"

MarkUsed(r) ==
    /\ Doing(r, "mark_used")
    /\ \/ Ok /\ reset' = [reset EXCEPT ![req[r].arg] = Marked]
       \/ Fault /\ UNCHANGED reset
    /\ Goto(r, "revoke_all")
    /\ UNCHANGED <<tokens, accesses, password, changes, acked, uses, behind, marks>>

(* Mutant: the newest token is spared.                                     *)
AllRowsButNewest == 1..(issued - 1)

AllRows == Rows

(* RevokeAllForUser of the refresh tokens: a failure ends a Logout, and is *)
(* only logged by ChangePassword and ResetPassword, which return.          *)
RevokeAll(r) ==
    /\ Doing(r, "revoke_all")
    /\ \/ /\ Ok
          /\ revoked' = revoked \cup AllRows
          /\ overtaken' = {q \in Requests : ~ Doing(q, "idle")} \ {r}
          /\ old' = Rows /\ tainted' = {}
          /\ IF req[r].op = "logout" THEN Goto(r, "revoke_sessions") ELSE Return(r)
       \/ Fault /\ Return(r) /\ UNCHANGED <<revoked, overtaken, old, tainted>>
    /\ acked' = IF req[r].op # "logout" /\ req[r].row > acked THEN req[r].row ELSE acked
    /\ UNCHANGED <<expired, issued, root, accesses, password, reset, changes, uses, behind>>

(* RevokeAllForUser of the sessions.                                       *)
RevokeSessions(r) ==
    /\ Doing(r, "revoke_sessions")
    /\ \/ Ok /\ session' = [t \in Tokens |-> IF session[t] = "active" THEN "revoked" ELSE session[t]]
       \/ Fault /\ UNCHANGED session
    /\ Return(r)
    /\ UNCHANGED <<tokens, blacklist, held, crossed, passwords, marks>>

(* RevokeSession: the session ...                                          *)
RevokeThis(r) ==
    /\ Doing(r, "revoke_session")
    /\ \/ Ok /\ session' = [session EXCEPT ![req[r].arg] = "revoked"] /\ Goto(r, "revoke_token")
       \/ Fault /\ UNCHANGED session /\ Return(r)
    /\ UNCHANGED <<tokens, blacklist, held, crossed, passwords, marks>>

(* ... and the refresh token it was created with.                          *)
RevokeItsToken(r) ==
    /\ Doing(r, "revoke_token")
    /\ \/ Ok /\ revoked' = revoked \cup {req[r].arg}
       \/ Fault /\ UNCHANGED revoked
    /\ Return(r)
    /\ UNCHANGED <<expired, issued, root, tainted, accesses, passwords, marks>>

(* SwitchActiveInstitution saves the whole users row it has read.          *)
SaveUser(r) ==
    /\ Doing(r, "save_user")
    /\ \/ Ok /\ password' = req[r].row /\ Goto(r, "issue")
       \/ Fault /\ UNCHANGED password /\ Return(r)
    /\ UNCHANGED <<tokens, accesses, reset, changes, acked, uses, behind, marks>>

(* The request is cut short: its connection, its context or the process.   *)
CutShort(r) ==
    /\ ~ Doing(r, "idle")
    /\ Fault
    /\ Return(r)
    /\ UNCHANGED <<tokens, accesses, passwords, marks>>

Expire(t) ==
    /\ t \in Rows \ expired
    /\ Fault
    /\ expired' = expired \cup {t}
    /\ UNCHANGED <<revoked, issued, root, tainted, accesses, passwords, marks, req>>

Step(r) ==
    \/ Issue(r) \/ CreateSession(r) \/ LookUpNew(r) \/ RevokeOld(r)
    \/ Blacklist(r) \/ SetPassword(r) \/ MarkUsed(r) \/ RevokeAll(r) \/ RevokeSessions(r)
    \/ RevokeThis(r) \/ RevokeItsToken(r) \/ SaveUser(r) \/ CutShort(r)

Ask(r) ==
    \/ Login(r) \/ ChangePassword(r) \/ Switch(r)
    \/ \E t \in Tokens : Refresh(r, t) \/ Logout(r, t) \/ RevokeSession(r, t)
    \/ \E i \in Resets : ResetPassword(r, i)

Next ==
    \/ \E r \in Requests : Ask(r) \/ Step(r)
    \/ \E i \in Resets : RequestPasswordReset(i)
    \/ \E t \in Tokens : Expire(t)

Spec == Init /\ [][Next]_vars

-----------------------------------------------------------------------------
Phases == {"idle", "issue", "session", "look_up", "revoke_old", "blacklist", "revoke_all",
           "revoke_sessions", "set_password", "mark_used", "revoke_session", "revoke_token",
           "save_user"}

TypeOK ==
    /\ issued \in 0..MaxTokens
    /\ revoked \subseteq Rows /\ expired \subseteq Rows /\ held \subseteq Rows
    /\ blacklist \subseteq held /\ old \subseteq Rows /\ tainted \subseteq Rows
    /\ session \in [Tokens -> {"none", "active", "revoked"}]
    /\ \A t \in Tokens : session[t] # "none" => t \in Rows
    /\ reset \in [Resets -> {"none", "sent", "used"}]
    /\ changes \in 0..MaxPasswords /\ password \in 0..changes /\ acked \in 0..changes
    /\ req \in [Requests -> [op : AllOps \cup {"none"}, pc : Phases, arg : Nat,
                             row : 0..changes, new : 0..issued]]
    /\ root \in [Tokens -> Tokens]
    /\ overtaken \subseteq Requests
    /\ uses \in [Resets -> Nat]
    /\ behind \subseteq 1..changes /\ crossed \subseteq Rows
    /\ overlapped \in BOOLEAN
    /\ faults \in 0..MaxFaults

LineTokens(t) == {u \in Rows : root[u] = root[t]}

(* Only what ends a line of tokens on purpose leaves the user without one  *)
(* that works: a revocation of all tokens, of one session of the root, or  *)
(* time.  A refresh never does, whatever fails on its way: the old token   *)
(* is not used up before there is a new one.                               *)
LineLives ==
    \A t \in held :
        \/ root[t] \in old
        \/ \E u \in LineTokens(t) : u \in Live \cup expired \/ session[u] = "revoked"

(* Pairs that work and that the user never received come from failures,    *)
(* and so do those he holds with no session that ListSessions would show,  *)
(* unless they were made in the middle of a logout.  (A session with no    *)
(* token that works is ordinary: RefreshToken leaves one behind.)          *)
OrphansPaidFor == Cardinality(Live \ held) <= faults
Hidden == {t \in Live \cap held : session[t] # "active"}
VisibleTokens == Cardinality(Hidden \ crossed) <= faults
PairsAccountedFor == TypeOK /\ (AllIdle => OrphansPaidFor /\ VisibleTokens)

(* A token that works after all were revoked, of a login before, was       *)
(* issued by a request under way at that moment, or descends from one.     *)
StaleOnlyByRace == \A t \in Live : root[t] \in old => t \in tainted

(* A reset token is good for one change of the password, for one more for  *)
(* each further request that may have read it unused at the same time, and *)
(* for one more for each failure to mark it.                               *)
ResetUsesPaidFor ==
    \A i \in Resets :
        uses[i] <= (IF overlapped THEN Cardinality(Requests) ELSE 1) + faults

(* A change of the password that has returned stays in force, unless it    *)
(* was made while a switch of the institution, which saves the whole users *)
(* row, was between reading and saving it.                                 *)
UndoneOnlyBySwitch == \A c \in (password + 1)..acked : c \in behind

(* Both: the password is changed as often as the user asked, and stays so. *)
PasswordsHold == ResetUsesPaidFor /\ UndoneOnlyBySwitch
=============================================================================
