------------------------------ MODULE ModelCalls ------------------------------
(***************************************************************************)
(* Calls of language models by the gateway's AI package (internal/ai):     *)
(* the router picks a model and its fallbacks for a task (router.go), the  *)
(* adapter tries them in turn (openrouter.go) and, for a stream, hands the *)
(* lines of the answer to its caller through a channel, from a goroutine   *)
(* of its own.  Nothing in cmd/main.go calls the package yet: the caller,  *)
(* like the provider, is external.                                         *)
(***************************************************************************)
EXTENDS Naturals, Sequences, FiniteSets, SequencesExt

CONSTANTS
    Calls,       \* calls that may be under way at once
    Users, Institutions, Tasks, Prompts,
    Unset,
    Routes,      \* the configured routes, by task
    DefaultTask,
    SpareRoute,  \* where not even the default task has a route
    DefaultModel,
    TokenCost,   \* by model, what its tokens cost
    Reported,    \* costs the provider may report, 0 for none
    Room,        \* of the channel of a stream (100 in the code)
    MaxLines,    \* bound on lines of a stream
    MaxTime,     \* bound on the clock
    MaxFaults    \* bound on lost answers, failed statements and callers gone

Models == DOMAIN TokenCost
Named == Models \cup {Unset}

ASSUME CallsAssumption ==
    /\ {Room, MaxLines} \subseteq Nat \ {0} /\ {MaxTime, MaxFaults} \subseteq Nat
    /\ IsFiniteSet(Calls) /\ Unset \notin Tasks
    /\ TokenCost \in [Models -> Nat] /\ DefaultModel \in Models
    /\ IsFiniteSet(Models) /\ IsFiniteSet(Reported) /\ Reported \subseteq Nat
    /\ \A route \in {SpareRoute} \cup {Routes[task] : task \in DOMAIN Routes} :
         route.model \in Named /\ route.fallbacks \in Seq(Named)

VARIABLES
    call,   \* the calls under way
    now,
    billed, \* history: per institution and moment, what the provider charges
    faults  \* history: what failed

callVars == <<call, now, billed, faults>>

Times == 0 .. MaxTime
Idle == [todo |-> <<>>]
Doing(c, s) == call[c].todo # <<>> /\ Head(call[c].todo) = s
Streaming(c) == Doing(c, "stream")

CallsInit ==
    /\ call = [c \in Calls |-> Idle]
    /\ now = 0 /\ faults = 0
    /\ billed = [i \in Institutions |-> [t \in Times |-> 0]]

-----------------------------------------------------------------------------
GetRoute(task) ==
    CASE task \in DOMAIN Routes -> Routes[task]
      [] task \notin DOMAIN Routes /\ DefaultTask \in DOMAIN Routes -> Routes[DefaultTask]
      [] OTHER -> SpareRoute

(* What the caller leaves open is filled in from the route of the task.    *)
RouteRequest(task, model) ==
    LET named == IF task = Unset THEN DefaultTask ELSE task
        route == GetRoute(named)
    IN [task |-> named, model |-> IF model = Unset THEN route.model ELSE model,
        fallbacks |-> route.fallbacks]

(* The models to try, in order, each once.                                 *)
Candidates(model, fallbacks) ==
    LET Try(s, x) == IF x = Unset \/ x \in ToSet(s) THEN s ELSE Append(s, x)
        named == FoldLeft(Try, <<>>, <<model>> \o fallbacks)
    IN IF named = <<>> THEN <<DefaultModel>> ELSE named

ParseCost(model, reported) == IF reported > 0 THEN reported ELSE TokenCost[model]

-----------------------------------------------------------------------------
Works == UNCHANGED faults
Fails == faults < MaxFaults /\ faults' = faults + 1

Update(c, q) == call' = [call EXCEPT ![c] = q]
Over(c) == Update(c, Idle)
Advance(c, q) == IF Len(q.todo) = 1 THEN Over(c) ELSE Update(c, [q EXCEPT !.todo = Tail(@)])

Ask(c, u, i, task, p, todo) ==
    LET q == RouteRequest(task, Unset) IN
    /\ call[c] = Idle
    /\ Update(c, [todo |-> todo, user |-> u, inst |-> i, prompt |-> p, task |-> q.task,
                  models |-> Candidates(q.model, q.fallbacks), cost |-> 0,
                  known |-> "stream" \notin ToSet(todo), live |-> TRUE, out |-> <<>>, sent |-> 0, taken |-> 0, lost |-> 0,
                  end |-> "open", late |-> 0])

(* The caller goes away, or its deadline passes: its context ends.  At     *)
(* other steps it is their statement that fails then.                      *)
Leave(c) ==
    /\ Doing(c, "call") \/ Doing(c, "stream") \/ Doing(c, "window")
    /\ call[c].live
    /\ Fails
    /\ Update(c, [call[c] EXCEPT !.live = FALSE])
    /\ UNCHANGED <<now, billed>>

Charge(c, cost) == billed' = [billed EXCEPT ![call[c].inst][now] = @ + cost]

(* Complete and Stream try the next model: neither looks at what the error *)
(* was, and a completion whose answer is lost on the way, or cannot be     *)
(* read, has been paid for and is asked of the next model.                 *)
GiveUp(c) ==
    /\ Doing(c, "call") /\ (call[c].models = <<>> \/ ~ call[c].live)
    /\ Over(c) /\ UNCHANGED <<now, billed, faults>>

Attempt(c) == Doing(c, "call") /\ call[c].models # <<>> /\ call[c].live

Refused(c) ==
    /\ Attempt(c)
    /\ Update(c, [call[c] EXCEPT !.models = Tail(@)])
    /\ UNCHANGED <<now, billed, faults>>

LostAnswer(c, reported) ==
    /\ Attempt(c)
    /\ Fails /\ Charge(c, ParseCost(Head(call[c].models), reported))
    /\ Update(c, [call[c] EXCEPT !.models = Tail(@)])
    /\ UNCHANGED now

Complete(c, reported) ==
    LET cost == ParseCost(Head(call[c].models), reported) IN
    /\ Attempt(c) /\ Works
    /\ Charge(c, cost)
    /\ Advance(c, [call[c] EXCEPT !.cost = cost])
    /\ UNCHANGED now

-----------------------------------------------------------------------------
(* The goroutine of a stream: it reads a line and waits for room in the    *)
(* channel, unless the context ends; the last lines carry what was used.   *)
(* A line sent just after the context ended counts as sent before it did.  *)
HasRoom(c) == Len(call[c].out) < Room
Open(c) == Streaming(c) /\ call[c].end = "open"
Send(c, x) == [call[c] EXCEPT !.out = Append(@, x), !.sent = @ + 1]
Close(c, x, end) == [call[c] EXCEPT !.out = @ \o x, !.end = end]

Forward(c) ==
    /\ Open(c) /\ call[c].live /\ HasRoom(c) /\ call[c].sent < MaxLines
    /\ Update(c, Send(c, IF call[c].sent = MaxLines - 1 THEN "usage" ELSE "line"))
    /\ UNCHANGED <<now, billed, faults>>

(* A line that cannot be parsed is passed over.                            *)
Garbled(c) ==
    /\ Open(c) /\ call[c].live /\ call[c].sent < MaxLines
    /\ Fails
    /\ Update(c, [call[c] EXCEPT !.sent = @ + 1, !.lost = @ + 1])
    /\ UNCHANGED <<now, billed>>

(* All of the answer was read, [DONE] or not: the channel is closed.       *)
Finished(c) ==
    /\ Open(c) /\ call[c].live
    /\ call[c].sent = MaxLines
    /\ Update(c, Close(c, <<>>, "done"))
    /\ UNCHANGED <<now, billed, faults>>

(* The body ends early, and not with an error: [DONE] is not asked for,    *)
(* and the channel is closed as if all of the answer had been read.        *)
EndsEarly(c) ==
    /\ Open(c) /\ call[c].live
    /\ call[c].sent < MaxLines
    /\ Fails
    /\ Update(c, Close(c, <<>>, "cut"))
    /\ UNCHANGED <<now, billed>>

(* The provider reports an error of its own: the caller is told, once      *)
(* there is room.                                                          *)
ProviderError(c) ==
    /\ Open(c) /\ call[c].live /\ HasRoom(c)
    /\ Fails
    /\ Update(c, Close(c, <<"error">>, "failed"))
    /\ UNCHANGED <<now, billed>>

(* Mutant: the error of the scanner is not looked at.                      *)
BrokenUnseen(c) ==
    /\ Open(c) /\ call[c].live
    /\ Fails
    /\ Update(c, Close(c, <<>>, "failed"))
    /\ UNCHANGED <<now, billed>>

(* Reading fails: the caller is told only if there is room.                *)
Broken(c) ==
    /\ Open(c) /\ call[c].live
    /\ Fails
    /\ Update(c, Close(c, IF HasRoom(c) THEN <<"error">> ELSE <<>>, "failed"))
    /\ UNCHANGED <<now, billed>>

(* Mutant: the goroutine waits for room even when the context has ended.   *)
StoppedWaiting(c) ==
    /\ Open(c) /\ ~ call[c].live /\ HasRoom(c)
    /\ Update(c, Close(c, <<"error">>, "stopped"))
    /\ UNCHANGED <<now, billed, faults>>

(* The context has ended: the caller is told so, if there is room and the  *)
(* closed body has not ended the loop before.                              *)
Stopped(c) ==
    /\ Open(c) /\ ~ call[c].live
    /\ \/ HasRoom(c) /\ Update(c, Close(c, <<"error">>, "stopped"))
       \/ Update(c, Close(c, <<>>, "stopped"))
    /\ UNCHANGED <<now, billed, faults>>

(* The caller takes from the channel until it tells an error or is closed; *)
(* what the answer used, and cost, it knows from the last line only.       *)
Take(c) ==
    LET x == Head(call[c].out) IN
    /\ Streaming(c) /\ call[c].out # <<>>
    /\ IF x = "error" THEN Over(c)
       ELSE Update(c, [call[c] EXCEPT
              !.out = Tail(@), !.taken = @ + 1, !.known = @ \/ x = "usage",
              !.late = IF call[c].end = "open" THEN @ ELSE @ + 1])
    /\ UNCHANGED <<now, billed, faults>>

ReachedEnd(c) == Streaming(c) /\ call[c].out = <<>> /\ call[c].end # "open"
TakeEnd(c) ==
    /\ ReachedEnd(c)
    /\ IF call[c].known THEN Advance(c, call[c]) ELSE Over(c)
    /\ UNCHANGED <<now, billed, faults>>

StreamNext(c) ==
    \/ Forward(c) \/ Garbled(c) \/ Finished(c) \/ EndsEarly(c) \/ ProviderError(c) \/ Broken(c)
    \/ Stopped(c)
    \/ Take(c) \/ TakeEnd(c)

CallNext(c) ==
    \/ Leave(c) \/ GiveUp(c) \/ Refused(c)
    \/ \E reported \in Reported : LostAnswer(c, reported) \/ Complete(c, reported)
    \/ StreamNext(c)

Tick == now < MaxTime /\ now' = now + 1 /\ UNCHANGED <<call, billed, faults>>

-----------------------------------------------------------------------------
(* What a stream that ends without an error has told its caller            *)
(* (processSSEStream).  If it told what the answer used, the answer is     *)
(* complete, line for line but for those that could not be parsed, however *)
(* the stream ended.  Otherwise the quiet end may stand for a body that    *)
(* just ended, all of which was handed on, for one that broke while the    *)
(* caller was a whole channel behind (the error is dropped), or for a      *)
(* context that ended.                                                     *)
QuietEndIsComplete ==
    \A c \in Calls : ReachedEnd(c) =>
        LET whole == call[c].taken + call[c].lost = MaxLines IN
        /\ call[c].known => whole
        /\ CASE call[c].end = "done" -> whole
             [] call[c].end = "cut" -> ~ call[c].known /\ call[c].taken + call[c].lost = call[c].sent
             [] call[c].end = "failed" -> call[c].late >= Room
             [] OTHER -> ~ call[c].live

(* Once its context has ended the goroutine closes the channel, whether or *)
(* not anyone still takes from it (processSSEStream: "Guarantee immediate  *)
(* closure when context is canceled").                                     *)
CancelEndsStream == \A c \in Calls : (Open(c) /\ ~ call[c].live) ~> ~ Open(c)
=============================================================================
