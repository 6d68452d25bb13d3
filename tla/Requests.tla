------------------------------ MODULE Requests ------------------------------
(***************************************************************************)
(* HTTP requests of the services that keep their data in PostgreSQL, as    *)
(* lists of statements still to be made.  Statements of different requests *)
(* interleave: no handler of the content and the analytics service opens a *)
(* transaction around more than one.  "answer" is the last entry: the      *)
(* handler turns the error, or its absence, into a status.                 *)
(***************************************************************************)
EXTENDS Naturals, Sequences, FiniteSets

CONSTANTS
    Slots,       \* requests that may be under way at once
    Users,
    Nil,         \* no id, no row
    MaxRequests, \* bound on requests
    MaxFaults    \* bound on statements that fail, or whose context has ended

ASSUME RequestsAssumption == MaxRequests \in Nat /\ MaxFaults \in Nat /\ IsFiniteSet(Slots)

VARIABLES
    req,    \* per slot the request under way
    served, \* history: requests begun
    faults  \* history: statements that failed

requestVars == <<req, served, faults>>

(* What a request is about: an operation, the row it names, the course and *)
(* the material it gives for it, and a number.                             *)
Call(op, id, course, material, n) ==
    [op |-> op, id |-> id, course |-> course, material |-> material, n |-> n]

Idle == [op |-> "none", todo |-> <<>>]

RequestsInit ==
    /\ req = [r \in Slots |-> Idle]
    /\ served = 0 /\ faults = 0

Op(r) == req[r].op
Doing(r, s) == req[r].todo # <<>> /\ Head(req[r].todo) = s
Writing(r, op) == Doing(r, "write") /\ Op(r) = op

(* A request that has arrived and made no statement, or that has nothing   *)
(* left but to answer, touches nothing others see: it goes on before       *)
(* others do, which leaves out no outcome.                                 *)
Urgent(r) == req[r] # Idle /\ (~ req[r].begun \/ Doing(r, "answer"))
Turn(r) == \A s \in Slots \ {r} : ~ Urgent(s)

(* copy is the row the request has read, kids the rows read along with it. *)
Begin(r, u, call, todo) ==
    /\ req[r] = Idle /\ Turn(r) /\ served < MaxRequests
    /\ served' = served + 1
    /\ req' = [req EXCEPT ![r] =
         [op |-> call.op, user |-> u, id |-> call.id, course |-> call.course,
          material |-> call.material, n |-> call.n, todo |-> todo \o <<"answer">>,
          copy |-> Nil, kids |-> {}, err |-> "ok", begun |-> FALSE]]
    /\ UNCHANGED faults

Works == UNCHANGED <<served, faults>>
Pass(r, q) == req' = [req EXCEPT ![r] = [q EXCEPT !.todo = Tail(@), !.begun = TRUE]]
Done(r) == Pass(r, req[r]) /\ Works
Refuse(r, e) == req' = [req EXCEPT ![r].todo = <<"answer">>, ![r].err = e]
Judge(r, e) == IF e = "ok" THEN Pass(r, req[r]) ELSE Refuse(r, e)
Return(r) == Doing(r, "answer") /\ req' = [req EXCEPT ![r] = Idle] /\ Works

(* The statement fails and the request ends with error e.                  *)
Fails(r, e) ==
    /\ faults < MaxFaults
    /\ faults' = faults + 1
    /\ Refuse(r, e)
    /\ UNCHANGED served
=============================================================================
