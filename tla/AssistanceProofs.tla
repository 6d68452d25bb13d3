--------------------------- MODULE AssistanceProofs ---------------------------
(***************************************************************************)
(* The theorems about the gateway's middleware and about its client of the *)
(* orchestrator, and their proofs.  The invariant of the middleware is a   *)
(* set of books: what has been let through or done so far, and what        *)
(* requests under way still may, is paid for by the counters, the markers  *)
(* and what failed.  The client's theorems, at the end, are for any number *)
(* of requests: the threshold below which its circuit may be closed, what  *)
(* it opens for, and the protocol of BreakerProtocol as long as no result  *)
(* comes in late.                                                          *)
(***************************************************************************)
EXTENDS Assistance, ClientBreaker, FiniteSetTheorems, SequenceTheorems, TLAPS

(* What a proxied request may still have to do, by its path.               *)
PlainTodos ==
    {<<"token_blacklist", "blacklist", "count", "add", "proxy">>,
     <<"blacklist", "count", "add", "proxy">>, <<"count", "add", "proxy">>,
     <<"add", "proxy">>, <<"proxy">>}
MeteredTodos ==
    {<<"token_blacklist", "blacklist", "count", "add", "quota", "proxy">>,
     <<"blacklist", "count", "add", "quota", "proxy">>, <<"count", "add", "quota", "proxy">>,
     <<"add", "quota", "proxy">>, <<"quota", "proxy">>, <<"proxy">>}

(* What a request of assistance may still have to do.                      *)
WriteTodos ==
    {<<"ai_quota", "dedup", "ask">>, <<"expire", "dedup", "ask">>, <<"dedup", "ask">>, <<"ask">>,
     <<"mark", "ask", "settle">>, <<"ask", "settle">>, <<"settle">>}
ReadTodos == {<<"ai_quota", "ask">>, <<"expire", "ask">>, <<"ask">>}

Days == 0 .. MaxTime \div Day
ProxyRequest ==
    [todo : PlainTodos \cup MeteredTodos, user : Users, path : Paths, seen : SUBSET Times,
     day : Days, late : BOOLEAN]
Proxied == {q \in ProxyRequest : q.todo \in (IF q.path = "ai" THEN MeteredTodos ELSE PlainTodos)}
AIRequest ==
    [todo : WriteTodos \cup ReadTodos, user : Users, body : Bodies,
     asks : [writes : BOOLEAN, streamed : BOOLEAN], complete : BOOLEAN, tries : Nat,
     live : BOOLEAN, ok : BOOLEAN]
Assisted == {q \in AIRequest : q.todo \in (IF q.asks.writes THEN WriteTodos ELSE ReadTodos)}

Busy == {r \in Slots : req[r] # Idle}
RequestsInv == req \in [Slots -> {Idle} \cup Proxied \cup Assisted] /\ IsFiniteSet(Busy)

(* Lists that are written out.                                             *)
LEMMA Lists ==
    ASSUME NEW a, NEW b, NEW c, NEW d, NEW e, NEW f
    PROVE  /\ <<a>> # <<>> /\ Head(<<a>>) = a /\ Tail(<<a>>) = <<>>
           /\ <<a, b>> # <<>> /\ Head(<<a, b>>) = a /\ Tail(<<a, b>>) = <<b>>
           /\ <<a, b, c>> # <<>> /\ Head(<<a, b, c>>) = a /\ Tail(<<a, b, c>>) = <<b, c>>
           /\ <<a, b, c, d>> # <<>> /\ Head(<<a, b, c, d>>) = a /\ Tail(<<a, b, c, d>>) = <<b, c, d>>
           /\ /\ <<a, b, c, d, e>> # <<>> /\ Head(<<a, b, c, d, e>>) = a
              /\ Tail(<<a, b, c, d, e>>) = <<b, c, d, e>>
           /\ /\ <<a, b, c, d, e, f>> # <<>> /\ Head(<<a, b, c, d, e, f>>) = a
              /\ Tail(<<a, b, c, d, e, f>>) = <<b, c, d, e, f>>
OBVIOUS

(* What a proxied request does next, and what it has to do after that:    *)
(* the order of IsBlacklisted, CheckRateLimit and the quota.              *)
LEMMA ProxiedHeads ==
    ASSUME NEW q \in Proxied
    PROVE  /\ q.todo # <<>> /\ q # Idle /\ "body" \notin DOMAIN q /\ "path" \in DOMAIN q
           /\ q.user \in Users /\ q.path \in Paths /\ q.seen \in SUBSET Times /\ q.day \in Days
           /\ q.late \in BOOLEAN
           /\ Head(q.todo) \in {"token_blacklist", "blacklist", "count", "add", "quota", "proxy"}
           /\ Head(q.todo) = "proxy" => Tail(q.todo) = <<>>
           /\ Head(q.todo) = "quota" => q.path = "ai" /\ Tail(q.todo) = <<"proxy">>
           /\ Head(q.todo) = "add" => Tail(q.todo) = IF q.path = "ai" THEN <<"quota", "proxy">> ELSE <<"proxy">>
           /\ Head(q.todo) = "count" => Head(Tail(q.todo)) = "add"
           /\ Head(q.todo) = "blacklist" => Head(Tail(q.todo)) = "count"
           /\ Head(q.todo) = "token_blacklist" => Head(Tail(q.todo)) = "blacklist"
           /\ Head(q.todo) # "proxy" => /\ Tail(q.todo) # <<>>
                                        /\ Tail(q.todo) \in IF q.path = "ai" THEN MeteredTodos ELSE PlainTodos
<1> DEFINE Goal ==
           /\ q.todo # <<>>
           /\ Head(q.todo) \in {"token_blacklist", "blacklist", "count", "add", "quota", "proxy"}
           /\ Head(q.todo) = "proxy" => Tail(q.todo) = <<>>
           /\ Head(q.todo) = "quota" => q.path = "ai" /\ Tail(q.todo) = <<"proxy">>
           /\ Head(q.todo) = "add" => Tail(q.todo) = IF q.path = "ai" THEN <<"quota", "proxy">> ELSE <<"proxy">>
           /\ Head(q.todo) = "count" => Head(Tail(q.todo)) = "add"
           /\ Head(q.todo) = "blacklist" => Head(Tail(q.todo)) = "count"
           /\ Head(q.todo) = "token_blacklist" => Head(Tail(q.todo)) = "blacklist"
           /\ Head(q.todo) # "proxy" => /\ Tail(q.todo) # <<>>
                                        /\ Tail(q.todo) \in IF q.path = "ai" THEN MeteredTodos ELSE PlainTodos
<1>1. q \in ProxyRequest /\ q.todo \in (IF q.path = "ai" THEN MeteredTodos ELSE PlainTodos)
  BY DEF Proxied
<1>2. /\ "body" \notin DOMAIN q /\ "path" \in DOMAIN q
      /\ q.user \in Users /\ q.path \in Paths /\ q.seen \in SUBSET Times /\ q.day \in Days
      /\ q.late \in BOOLEAN
  BY <1>1 DEF ProxyRequest
<1>3. ASSUME q.path = "ai" PROVE Goal
  <2>1. ASSUME q.todo = <<"token_blacklist", "blacklist", "count", "add", "quota", "proxy">> PROVE Goal
    <3>1. q.todo # <<>> /\ Head(q.todo) = "token_blacklist" /\ Tail(q.todo) = <<"blacklist", "count", "add", "quota", "proxy">>
      BY <2>1, Lists
    <3>2. <<"blacklist", "count", "add", "quota", "proxy">> # <<>> /\ Head(<<"blacklist", "count", "add", "quota", "proxy">>) = "blacklist"
      BY Lists
    <3> QED
      BY <1>1, <1>3, <2>1, <3>1, <3>2 DEF MeteredTodos
  <2>2. ASSUME q.todo = <<"blacklist", "count", "add", "quota", "proxy">> PROVE Goal
    <3>1. q.todo # <<>> /\ Head(q.todo) = "blacklist" /\ Tail(q.todo) = <<"count", "add", "quota", "proxy">>
      BY <2>2, Lists
    <3>2. <<"count", "add", "quota", "proxy">> # <<>> /\ Head(<<"count", "add", "quota", "proxy">>) = "count"
      BY Lists
    <3> QED
      BY <1>1, <1>3, <2>2, <3>1, <3>2 DEF MeteredTodos
  <2>3. ASSUME q.todo = <<"count", "add", "quota", "proxy">> PROVE Goal
    <3>1. q.todo # <<>> /\ Head(q.todo) = "count" /\ Tail(q.todo) = <<"add", "quota", "proxy">>
      BY <2>3, Lists
    <3>2. <<"add", "quota", "proxy">> # <<>> /\ Head(<<"add", "quota", "proxy">>) = "add"
      BY Lists
    <3> QED
      BY <1>1, <1>3, <2>3, <3>1, <3>2 DEF MeteredTodos
  <2>4. ASSUME q.todo = <<"add", "quota", "proxy">> PROVE Goal
    <3>1. q.todo # <<>> /\ Head(q.todo) = "add" /\ Tail(q.todo) = <<"quota", "proxy">>
      BY <2>4, Lists
    <3>2. <<"quota", "proxy">> # <<>> /\ Head(<<"quota", "proxy">>) = "quota"
      BY Lists
    <3> QED
      BY <1>1, <1>3, <2>4, <3>1, <3>2 DEF MeteredTodos
  <2>5. ASSUME q.todo = <<"quota", "proxy">> PROVE Goal
    <3>1. q.todo # <<>> /\ Head(q.todo) = "quota" /\ Tail(q.todo) = <<"proxy">>
      BY <2>5, Lists
    <3>2. <<"proxy">> # <<>> /\ Head(<<"proxy">>) = "proxy"
      BY Lists
    <3> QED
      BY <1>1, <1>3, <2>5, <3>1, <3>2 DEF MeteredTodos
  <2>6. ASSUME q.todo = <<"proxy">> PROVE Goal
    <3>1. q.todo # <<>> /\ Head(q.todo) = "proxy" /\ Tail(q.todo) = <<>>
      BY <2>6, Lists
    <3> QED
      BY <1>1, <1>3, <2>6, <3>1 DEF MeteredTodos
  <2> QED
    BY <1>1, <1>3, <2>1, <2>2, <2>3, <2>4, <2>5, <2>6 DEF MeteredTodos
<1>4. ASSUME q.path # "ai" PROVE Goal
  <2>1. ASSUME q.todo = <<"token_blacklist", "blacklist", "count", "add", "proxy">> PROVE Goal
    <3>1. q.todo # <<>> /\ Head(q.todo) = "token_blacklist" /\ Tail(q.todo) = <<"blacklist", "count", "add", "proxy">>
      BY <2>1, Lists
    <3>2. <<"blacklist", "count", "add", "proxy">> # <<>> /\ Head(<<"blacklist", "count", "add", "proxy">>) = "blacklist"
      BY Lists
    <3> QED
      BY <1>1, <1>4, <2>1, <3>1, <3>2 DEF PlainTodos
  <2>2. ASSUME q.todo = <<"blacklist", "count", "add", "proxy">> PROVE Goal
    <3>1. q.todo # <<>> /\ Head(q.todo) = "blacklist" /\ Tail(q.todo) = <<"count", "add", "proxy">>
      BY <2>2, Lists
    <3>2. <<"count", "add", "proxy">> # <<>> /\ Head(<<"count", "add", "proxy">>) = "count"
      BY Lists
    <3> QED
      BY <1>1, <1>4, <2>2, <3>1, <3>2 DEF PlainTodos
  <2>3. ASSUME q.todo = <<"count", "add", "proxy">> PROVE Goal
    <3>1. q.todo # <<>> /\ Head(q.todo) = "count" /\ Tail(q.todo) = <<"add", "proxy">>
      BY <2>3, Lists
    <3>2. <<"add", "proxy">> # <<>> /\ Head(<<"add", "proxy">>) = "add"
      BY Lists
    <3> QED
      BY <1>1, <1>4, <2>3, <3>1, <3>2 DEF PlainTodos
  <2>4. ASSUME q.todo = <<"add", "proxy">> PROVE Goal
    <3>1. q.todo # <<>> /\ Head(q.todo) = "add" /\ Tail(q.todo) = <<"proxy">>
      BY <2>4, Lists
    <3>2. <<"proxy">> # <<>> /\ Head(<<"proxy">>) = "proxy"
      BY Lists
    <3> QED
      BY <1>1, <1>4, <2>4, <3>1, <3>2 DEF PlainTodos
  <2>5. ASSUME q.todo = <<"proxy">> PROVE Goal
    <3>1. q.todo # <<>> /\ Head(q.todo) = "proxy" /\ Tail(q.todo) = <<>>
      BY <2>5, Lists
    <3> QED
      BY <1>1, <1>4, <2>5, <3>1 DEF PlainTodos
  <2> QED
    BY <1>1, <1>4, <2>1, <2>2, <2>3, <2>4, <2>5 DEF PlainTodos
<1> QED
  BY <1>2, <1>3, <1>4 DEF Idle

(* What a request of assistance does next, and what it has to do after    *)
(* that: the order of the quota, the deduplication and the handler.       *)
LEMMA AssistedHeads ==
    ASSUME NEW q \in Assisted
    PROVE  /\ q.todo # <<>> /\ q # Idle /\ "path" \notin DOMAIN q /\ "body" \in DOMAIN q
           /\ q.user \in Users /\ q.body \in Bodies /\ q.asks \in [writes : BOOLEAN, streamed : BOOLEAN]
           /\ q.complete \in BOOLEAN /\ q.tries \in Nat /\ q.live \in BOOLEAN /\ q.ok \in BOOLEAN
           /\ Head(q.todo) \in {"ai_quota", "expire", "dedup", "mark", "ask", "settle"}
           /\ Head(q.todo) \in {"ai_quota", "expire"} =>
                Tail(q.todo) = IF q.asks.writes THEN <<"dedup", "ask">> ELSE <<"ask">>
           /\ Head(q.todo) = "dedup" => q.asks.writes /\ Tail(q.todo) = <<"ask">>
           /\ Head(q.todo) = "mark" => q.asks.writes /\ Tail(q.todo) = <<"ask", "settle">>
           /\ Head(q.todo) = "ask" => \/ Tail(q.todo) = <<>> /\ q.todo = <<"ask">>
                                      \/ /\ q.asks.writes /\ Tail(q.todo) = <<"settle">>
                                         /\ q.todo = <<"ask", "settle">>
           /\ Head(q.todo) = "settle" => q.asks.writes /\ Tail(q.todo) = <<>> /\ q.todo = <<"settle">>
<1> DEFINE Goal ==
           /\ q.todo # <<>>
           /\ Head(q.todo) \in {"ai_quota", "expire", "dedup", "mark", "ask", "settle"}
           /\ Head(q.todo) \in {"ai_quota", "expire"} =>
                Tail(q.todo) = IF q.asks.writes THEN <<"dedup", "ask">> ELSE <<"ask">>
           /\ Head(q.todo) = "dedup" => q.asks.writes /\ Tail(q.todo) = <<"ask">>
           /\ Head(q.todo) = "mark" => q.asks.writes /\ Tail(q.todo) = <<"ask", "settle">>
           /\ Head(q.todo) = "ask" => \/ Tail(q.todo) = <<>> /\ q.todo = <<"ask">>
                                      \/ /\ q.asks.writes /\ Tail(q.todo) = <<"settle">>
                                         /\ q.todo = <<"ask", "settle">>
           /\ Head(q.todo) = "settle" => q.asks.writes /\ Tail(q.todo) = <<>> /\ q.todo = <<"settle">>
<1>1. q \in AIRequest /\ q.todo \in (IF q.asks.writes THEN WriteTodos ELSE ReadTodos)
  BY DEF Assisted
<1>2. /\ "path" \notin DOMAIN q /\ "body" \in DOMAIN q
      /\ q.user \in Users /\ q.body \in Bodies /\ q.asks \in [writes : BOOLEAN, streamed : BOOLEAN]
      /\ q.complete \in BOOLEAN /\ q.tries \in Nat /\ q.live \in BOOLEAN /\ q.ok \in BOOLEAN
  BY <1>1 DEF AIRequest
<1>3. ASSUME q.asks.writes PROVE Goal
  <2>1. ASSUME q.todo = <<"ai_quota", "dedup", "ask">> PROVE Goal
    <3>1. q.todo # <<>> /\ Head(q.todo) = "ai_quota" /\ Tail(q.todo) = <<"dedup", "ask">>
      BY <2>1, Lists
    <3>2. <<"dedup", "ask">> # <<>> /\ Head(<<"dedup", "ask">>) = "dedup"
      BY Lists
    <3> QED
      BY <1>1, <1>3, <2>1, <3>1, <3>2 DEF WriteTodos
  <2>2. ASSUME q.todo = <<"expire", "dedup", "ask">> PROVE Goal
    <3>1. q.todo # <<>> /\ Head(q.todo) = "expire" /\ Tail(q.todo) = <<"dedup", "ask">>
      BY <2>2, Lists
    <3>2. <<"dedup", "ask">> # <<>> /\ Head(<<"dedup", "ask">>) = "dedup"
      BY Lists
    <3> QED
      BY <1>1, <1>3, <2>2, <3>1, <3>2 DEF WriteTodos
  <2>3. ASSUME q.todo = <<"dedup", "ask">> PROVE Goal
    <3>1. q.todo # <<>> /\ Head(q.todo) = "dedup" /\ Tail(q.todo) = <<"ask">>
      BY <2>3, Lists
    <3>2. <<"ask">> # <<>> /\ Head(<<"ask">>) = "ask"
      BY Lists
    <3> QED
      BY <1>1, <1>3, <2>3, <3>1, <3>2 DEF WriteTodos
  <2>4. ASSUME q.todo = <<"ask">> PROVE Goal
    <3>1. q.todo # <<>> /\ Head(q.todo) = "ask" /\ Tail(q.todo) = <<>>
      BY <2>4, Lists
    <3> QED
      BY <1>1, <1>3, <2>4, <3>1 DEF WriteTodos
  <2>5. ASSUME q.todo = <<"mark", "ask", "settle">> PROVE Goal
    <3>1. q.todo # <<>> /\ Head(q.todo) = "mark" /\ Tail(q.todo) = <<"ask", "settle">>
      BY <2>5, Lists
    <3>2. <<"ask", "settle">> # <<>> /\ Head(<<"ask", "settle">>) = "ask"
      BY Lists
    <3> QED
      BY <1>1, <1>3, <2>5, <3>1, <3>2 DEF WriteTodos
  <2>6. ASSUME q.todo = <<"ask", "settle">> PROVE Goal
    <3>1. q.todo # <<>> /\ Head(q.todo) = "ask" /\ Tail(q.todo) = <<"settle">>
      BY <2>6, Lists
    <3>2. <<"settle">> # <<>> /\ Head(<<"settle">>) = "settle"
      BY Lists
    <3> QED
      BY <1>1, <1>3, <2>6, <3>1, <3>2 DEF WriteTodos
  <2>7. ASSUME q.todo = <<"settle">> PROVE Goal
    <3>1. q.todo # <<>> /\ Head(q.todo) = "settle" /\ Tail(q.todo) = <<>>
      BY <2>7, Lists
    <3> QED
      BY <1>1, <1>3, <2>7, <3>1 DEF WriteTodos
  <2> QED
    BY <1>1, <1>3, <2>1, <2>2, <2>3, <2>4, <2>5, <2>6, <2>7 DEF WriteTodos
<1>4. ASSUME ~ q.asks.writes PROVE Goal
  <2>1. ASSUME q.todo = <<"ai_quota", "ask">> PROVE Goal
    <3>1. q.todo # <<>> /\ Head(q.todo) = "ai_quota" /\ Tail(q.todo) = <<"ask">>
      BY <2>1, Lists
    <3>2. <<"ask">> # <<>> /\ Head(<<"ask">>) = "ask"
      BY Lists
    <3> QED
      BY <1>1, <1>4, <2>1, <3>1, <3>2 DEF ReadTodos
  <2>2. ASSUME q.todo = <<"expire", "ask">> PROVE Goal
    <3>1. q.todo # <<>> /\ Head(q.todo) = "expire" /\ Tail(q.todo) = <<"ask">>
      BY <2>2, Lists
    <3>2. <<"ask">> # <<>> /\ Head(<<"ask">>) = "ask"
      BY Lists
    <3> QED
      BY <1>1, <1>4, <2>2, <3>1, <3>2 DEF ReadTodos
  <2>3. ASSUME q.todo = <<"ask">> PROVE Goal
    <3>1. q.todo # <<>> /\ Head(q.todo) = "ask" /\ Tail(q.todo) = <<>>
      BY <2>3, Lists
    <3> QED
      BY <1>1, <1>4, <2>3, <3>1 DEF ReadTodos
  <2> QED
    BY <1>1, <1>4, <2>1, <2>2, <2>3 DEF ReadTodos
<1> QED
  BY <1>2, <1>3, <1>4 DEF Idle

(* The list a proxied request comes with, written out.                    *)
LEMMA Chains ==
    ASSUME NEW path
    PROVE  Chain(path) =
             IF path = "ai" THEN <<"token_blacklist", "blacklist", "count", "add", "quota", "proxy">>
             ELSE <<"token_blacklist", "blacklist", "count", "add", "proxy">>
<1>1. CASE path = "ai"
  <2> DEFINE s == <<"token_blacklist", "blacklist">> \o <<"count", "add", "quota", "proxy">>
             t == <<"token_blacklist", "blacklist", "count", "add", "quota", "proxy">>
             S == {"token_blacklist", "blacklist", "count", "add", "quota", "proxy"}
  <2>1. s \in Seq(S) /\ t \in Seq(S) /\ Len(s) = 6 /\ Len(t) = 6
    OBVIOUS
  <2>2. s[1] = t[1] /\ s[2] = t[2] /\ s[3] = t[3] /\ s[4] = t[4] /\ s[5] = t[5] /\ s[6] = t[6]
    OBVIOUS
  <2>3. \A i \in 1..6 : s[i] = t[i]
    BY <2>2
  <2>4. s = t
    <3> HIDE DEF s, t
    <3> QED
      BY <2>1, <2>3, SeqEqual
  <2> QED
    BY <1>1, <2>4 DEF Chain, Limits
<1>2. CASE path # "ai"
  <2> DEFINE s == <<"token_blacklist", "blacklist">> \o <<"count", "add", "proxy">>
             t == <<"token_blacklist", "blacklist", "count", "add", "proxy">>
             S == {"token_blacklist", "blacklist", "count", "add", "proxy"}
  <2>1. s \in Seq(S) /\ t \in Seq(S) /\ Len(s) = 5 /\ Len(t) = 5
    OBVIOUS
  <2>2. s[1] = t[1] /\ s[2] = t[2] /\ s[3] = t[3] /\ s[4] = t[4] /\ s[5] = t[5]
    OBVIOUS
  <2>3. \A i \in 1..5 : s[i] = t[i]
    BY <2>2
  <2>4. s = t
    <3> HIDE DEF s, t
    <3> QED
      BY <2>1, <2>3, SeqEqual
  <2> QED
    BY <1>2, <2>4 DEF Chain, Limits
<1> QED
  BY <1>1, <1>2

(* The list of a request that has to set the end of its counter first.    *)
LEMMA Expires ==
    /\ <<"expire">> \o <<"dedup", "ask">> = <<"expire", "dedup", "ask">>
    /\ <<"expire">> \o <<"ask">> = <<"expire", "ask">>
<1>1. <<"expire">> \o <<"dedup", "ask">> = <<"expire", "dedup", "ask">>
  <2> DEFINE s == <<"expire">> \o <<"dedup", "ask">>
             t == <<"expire", "dedup", "ask">>
             S == {"expire", "dedup", "ask"}
  <2>1. s \in Seq(S) /\ t \in Seq(S) /\ Len(s) = 3 /\ Len(t) = 3
    OBVIOUS
  <2>2. s[1] = t[1] /\ s[2] = t[2] /\ s[3] = t[3]
    OBVIOUS
  <2>3. \A i \in 1..3 : s[i] = t[i]
    BY <2>2
  <2>4. s = t
    <3> HIDE DEF s, t
    <3> QED
      BY <2>1, <2>3, SeqEqual
  <2> QED
    BY <2>4
<1>2. <<"expire">> \o <<"ask">> = <<"expire", "ask">>
  <2> DEFINE s == <<"expire">> \o <<"ask">>
             t == <<"expire", "ask">>
             S == {"expire", "ask"}
  <2>1. s \in Seq(S) /\ t \in Seq(S) /\ Len(s) = 2 /\ Len(t) = 2
    OBVIOUS
  <2>2. s[1] = t[1] /\ s[2] = t[2]
    OBVIOUS
  <2>3. \A i \in 1..2 : s[i] = t[i]
    BY <2>2
  <2>4. s = t
    <3> HIDE DEF s, t
    <3> QED
      BY <2>1, <2>3, SeqEqual
  <2> QED
    BY <2>4
<1> QED
  BY <1>1, <1>2

TypeInv ==
    /\ RequestsInv
    /\ now \in Times /\ faults \in Nat /\ overlaps \in Nat /\ escaped \in Nat
    /\ hits \in [Users -> SUBSET Times]
    /\ used \in [Users -> [Days -> Nat]] /\ served \in [Users -> [Days -> Nat]]
    /\ admitted \in [Users -> [Paths -> [Times -> Nat]]]
    /\ count \in [Users -> Nat] /\ until \in [Users -> Nat \cup {Nil}]
    /\ marker \in [Bodies -> {"none", "processing", "answer"}]
    /\ works \in [Bodies -> Nat] /\ raced \in [Bodies -> Nat] /\ lapses \in Nat

Others(r) == \A s \in Slots \ {r} : req'[s] = req[s]
Passes(r) ==
    /\ req[r] \in Proxied /\ Others(r)
    /\ \/ req'[r] = Idle
       \/ /\ req'[r] \in Proxied
          /\ req'[r].user = req[r].user /\ req'[r].path = req[r].path /\ req'[r].late = req[r].late

(* The clock's day is one the counters have.                              *)
LEMMA TodayIsADay ==
    ASSUME now \in Times
    PROVE  Today \in Days
BY AdmissionAssumption DEF Today, Days, Times

(* A request goes on with the rest of its list.                            *)
LEMMA RestOfProxied ==
    ASSUME NEW q \in Proxied, NEW p \in Proxied, p = [q EXCEPT !.seen = p.seen, !.day = p.day]
    PROVE  /\ Head(q.todo) # "proxy" => Rest(p) \in Proxied /\ Rest(p).todo = Tail(q.todo)
           /\ Rest(p).user = q.user /\ Rest(p).path = q.path /\ Rest(p).late = q.late
           /\ Rest(p).seen = p.seen /\ Rest(p).day = p.day
           /\ Head(q.todo) = "proxy" => Rest(p).todo = <<>>
<1>1. q \in ProxyRequest /\ p \in ProxyRequest
  BY DEF Proxied
<1>2. p.todo = q.todo /\ p.path = q.path /\ p.user = q.user /\ p.late = q.late
  BY <1>1 DEF ProxyRequest
<1>3. Head(q.todo) # "proxy" => Tail(q.todo) \in IF q.path = "ai" THEN MeteredTodos ELSE PlainTodos
  BY ProxiedHeads
<1>4. Head(q.todo) = "proxy" => Tail(q.todo) = <<>>
  BY ProxiedHeads
<1>5. Rest(p) = [p EXCEPT !.todo = Tail(q.todo)]
  BY <1>1, <1>2 DEF Rest, ProxyRequest
<1> HIDE DEF MeteredTodos, PlainTodos, Idle
<1> QED
  BY <1>1, <1>2, <1>3, <1>4, <1>5 DEF Proxied, ProxyRequest

(* The same, for a request that has noted nothing on the way.             *)
LEMMA RestAsItIs ==
    ASSUME NEW q \in Proxied
    PROVE  /\ Head(q.todo) # "proxy" => Rest(q) \in Proxied /\ Rest(q).todo = Tail(q.todo)
           /\ Rest(q).user = q.user /\ Rest(q).path = q.path /\ Rest(q).late = q.late
           /\ Rest(q).day = q.day
           /\ Head(q.todo) = "proxy" => Rest(q).todo = <<>>
<1>1. q = [q EXCEPT !.seen = q.seen, !.day = q.day]
  BY DEF Proxied, ProxyRequest
<1> QED
  BY <1>1, RestOfProxied

(* A request that goes on, or is done when its list is empty; the others  *)
(* do not move.                                                           *)
LEMMA ThenMoves ==
    ASSUME RequestsInv, NEW r \in Slots, NEW q, Then(r, q)
    PROVE  /\ req'[r] = IF q.todo = <<>> THEN Idle ELSE q
           /\ Others(r)
BY DEF RequestsInv, Then, Others

(* A request refused is over; the others do not move.                     *)
LEMMA RefuseMoves ==
    ASSUME RequestsInv, NEW r \in Slots, Refuse(r)
    PROVE  req'[r] = Idle /\ Others(r)
BY DEF RequestsInv, Refuse, Others

(* What a request is doing tells what it is.                               *)
LEMMA Kinds ==
    ASSUME RequestsInv, NEW r \in Slots
    PROVE  /\ \/ Doing(r, "token_blacklist") \/ Doing(r, "blacklist") \/ Doing(r, "count") 
              \/ Doing(r, "add") \/ Doing(r, "quota") \/ Doing(r, "proxy")
              => req[r] \in Proxied
           /\ \/ Doing(r, "ai_quota") \/ Doing(r, "expire") \/ Doing(r, "dedup") \/ Doing(r, "mark")
              \/ Doing(r, "ask") \/ Doing(r, "settle")
              => req[r] \in Assisted
<1>1. req[r] \in {Idle} \cup Proxied \cup Assisted
  BY DEF RequestsInv
<1>2. CASE req[r] = Idle
  BY <1>2 DEF Idle, Doing
<1>3. CASE req[r] \in Proxied
  BY <1>3, ProxiedHeads DEF Doing
<1>4. CASE req[r] \in Assisted
  BY <1>4, AssistedHeads DEF Doing
<1> QED
  BY <1>1, <1>2, <1>3, <1>4

(* The lists a request starts with, or is put back to when the blacklist  *)
(* does not answer, are lists of its path.                                *)
LEMMA ListsAreWhole ==
    /\ \A path \in Paths : Limits(path) \in IF path = "ai" THEN MeteredTodos ELSE PlainTodos
    /\ \A path \in Paths : Limits(path) # <<>> /\ Head(Limits(path)) = "count"
    /\ \A path \in Paths : Chain(path) \in IF path = "ai" THEN MeteredTodos ELSE PlainTodos
    /\ \A path \in Paths : Chain(path) # <<>> /\ Head(Chain(path)) = "token_blacklist"
<1>1. ASSUME NEW path \in Paths
      PROVE  /\ Limits(path) \in IF path = "ai" THEN MeteredTodos ELSE PlainTodos
             /\ Chain(path) \in IF path = "ai" THEN MeteredTodos ELSE PlainTodos
  BY Chains DEF MeteredTodos, PlainTodos, Limits
<1>2. ASSUME NEW path \in Paths
      PROVE  /\ Limits(path) # <<>> /\ Head(Limits(path)) = "count"
             /\ Chain(path) # <<>> /\ Head(Chain(path)) = "token_blacklist"
  <2>1. CASE path = "ai"
    BY <2>1, Chains DEF Limits
  <2>2. CASE path # "ai"
    BY <2>2, Chains DEF Limits
  <2> QED
    BY <2>1, <2>2
<1> QED
  BY <1>1, <1>2

(* A proxied request put at another place of its list.                    *)
LEMMA JumpOfProxied ==
    ASSUME NEW q \in Proxied, NEW t, t \in IF q.path = "ai" THEN MeteredTodos ELSE PlainTodos
    PROVE  /\ Continue(q, t) \in Proxied /\ Continue(q, t).todo = t
           /\ Continue(q, t).user = q.user /\ Continue(q, t).path = q.path /\ Continue(q, t).late = q.late
           /\ Continue(q, t).day = q.day
<1>1. q \in ProxyRequest
  BY DEF Proxied
<1> HIDE DEF MeteredTodos, PlainTodos
<1> QED
  BY <1>1 DEF Proxied, ProxyRequest, Continue

(* Both paths end at the service.                                         *)
LEMMA ProxyOnly == <<"proxy">> \in MeteredTodos \cap PlainTodos /\ <<"proxy">> # <<>> /\ Head(<<"proxy">>) = "proxy"
BY Lists DEF MeteredTodos, PlainTodos

(* IsBlacklisted: a token revoked before the request came is found by     *)
(* the first lookup.                                                      *)
LEMMA BlacklistMoves ==
    ASSUME TypeInv, NEW r \in Slots, IsBlacklisted(r)
    PROVE  /\ Passes(r) /\ UNCHANGED <<now, begun, faults, limitVars>>
           /\ Doing(r, "token_blacklist") \/ Doing(r, "blacklist")
           /\ ~ Doing(r, "proxy")' 
           /\ Doing(r, "token_blacklist") /\ Token("token_blacklist", req[r].user) \in revoked => req'[r] = Idle
<1> USE DEF TypeInv
<1>1. PICK prefix \in {"token_blacklist", "blacklist"} :
        /\ Doing(r, prefix)
        /\ IF Token(prefix, req[r].user) \in revoked THEN Refuse(r) ELSE Then(r, Rest(req[r]))
        /\ Works /\ UNCHANGED limitVars
  BY DEF IsBlacklisted
<1>2. req[r] \in Proxied
  BY <1>1, Kinds
<1>3. CASE Refuse(r)
  <2>1. req'[r] = Idle /\ Others(r)
    BY <1>3, RefuseMoves
  <2> QED
    BY <1>1, <1>2, <2>1 DEF Passes, Doing, Works, Idle
<1>4. CASE Then(r, Rest(req[r])) /\ Token(prefix, req[r].user) \notin revoked
  <2>1. Head(req[r].todo) = prefix /\ Rest(req[r]) \in Proxied /\ Rest(req[r]).todo = Tail(req[r].todo)
        /\ Rest(req[r]).todo # <<>>
        /\ Rest(req[r]).user = req[r].user /\ Rest(req[r]).path = req[r].path /\ Rest(req[r]).late = req[r].late
    BY <1>1, <1>2, RestAsItIs, ProxiedHeads DEF Doing
  <2>2. req'[r] = Rest(req[r]) /\ Others(r)
    BY <1>4, <2>1, ThenMoves
  <2>3. Head(Tail(req[r].todo)) # "proxy"
    BY <1>1, <1>2, <2>1, ProxiedHeads
  <2> QED
    BY <1>1, <1>2, <1>4, <2>1, <2>2, <2>3 DEF Passes, Doing, Works
<1> QED
  BY <1>1, <1>3, <1>4

(* A lookup that fails costs a failure and brings the request to its      *)
(* limits.                                                                *)
LEMMA BlacklistFailMoves ==
    ASSUME TypeInv, NEW r \in Slots, BlacklistFails(r)
    PROVE  /\ Passes(r) /\ faults' = faults + 1 /\ UNCHANGED <<now, begun, limitVars>>
           /\ ~ Doing(r, "proxy")'
<1> USE DEF TypeInv
<1>1. req[r] \in Proxied
  BY Kinds DEF BlacklistFails
<1> DEFINE q == Continue(req[r], Limits(req[r].path))
<1>2. /\ q \in Proxied /\ q.todo = Limits(req[r].path) /\ q.todo # <<>> /\ Head(q.todo) = "count"
      /\ q.user = req[r].user /\ q.path = req[r].path /\ q.late = req[r].late
  <2>1. req[r].path \in Paths
    BY <1>1, ProxiedHeads
  <2>2. /\ Limits(req[r].path) \in (IF req[r].path = "ai" THEN MeteredTodos ELSE PlainTodos)
        /\ Limits(req[r].path) # <<>> /\ Head(Limits(req[r].path)) = "count"
    BY <2>1, ListsAreWhole
  <2> QED
    BY <1>1, <2>2, JumpOfProxied
<1>3. req'[r] = q /\ Others(r)
  BY <1>2, ThenMoves DEF BlacklistFails
<1> QED
  BY <1>1, <1>2, <1>3 DEF BlacklistFails, Passes, Doing, Fault

(* The first half of CheckRateLimit drops what is too old and takes what  *)
(* it counts along.                                                       *)
LEMMA CountMoves ==
    ASSUME TypeInv, NEW r \in Slots, Count(r)
    PROVE  /\ Passes(r) /\ UNCHANGED <<now, begun, faults>> /\ Doing(r, "count")
           /\ hits' = [hits EXCEPT ![req[r].user] = {t \in hits[req[r].user] : t > now - Window}]
           /\ UNCHANGED <<revoked, used, admitted, served, overlaps, escaped>>
           /\ ~ Doing(r, "proxy")'
<1> USE DEF TypeInv
<1> DEFINE kept == {t \in hits[req[r].user] : t > now - Window}
           p == [req[r] EXCEPT !.seen = kept]
<1>1. req[r] \in Proxied
  BY Kinds DEF Count
<1>2. kept \in SUBSET Times
  BY <1>1, ProxiedHeads
<1>3. p \in Proxied /\ p = [req[r] EXCEPT !.seen = p.seen, !.day = p.day] /\ p.seen = kept
  <2> HIDE DEF kept, MeteredTodos, PlainTodos
  <2> QED
    BY <1>1, <1>2 DEF Proxied, ProxyRequest
<1>4. [Rest(req[r]) EXCEPT !.seen = kept] = Rest(p)
  <2> HIDE DEF kept
  <2> QED
    BY <1>1 DEF Proxied, ProxyRequest, Rest
<1>5. Head(req[r].todo) = "count" /\ Head(Tail(req[r].todo)) = "add" /\ Tail(req[r].todo) # <<>>
  BY <1>1, ProxiedHeads DEF Count, Doing
<1>6. Rest(p) \in Proxied /\ Rest(p).todo = Tail(req[r].todo)
      /\ Rest(p).user = req[r].user /\ Rest(p).path = req[r].path /\ Rest(p).late = req[r].late
  <2> HIDE DEF p
  <2> QED
    BY <1>1, <1>3, <1>5, RestOfProxied, ZenonT(30)
<1>7. req'[r] = Rest(p) /\ Others(r)
  BY <1>4, <1>5, <1>6, ThenMoves, ZenonT(30) DEF Count
<1> QED
  BY <1>1, <1>5, <1>6, <1>7 DEF Count, Passes, Doing, Works

(* A request whose limit is not asked goes on at once.                     *)
LEMMA StraightOn ==
    ASSUME NEW q \in Proxied
    PROVE  LET p == Continue(q, <<"proxy">>) IN
           /\ p \in Proxied /\ p.todo = <<"proxy">> /\ p.todo # <<>> /\ Head(p.todo) = "proxy"
           /\ p.user = q.user /\ p.path = q.path /\ p.late = q.late /\ p.day = q.day
<1>1. <<"proxy">> \in (IF q.path = "ai" THEN MeteredTodos ELSE PlainTodos)
  BY ProxyOnly
<1> QED
  BY <1>1, JumpOfProxied, ProxyOnly

(* A limit that cannot be asked costs a failure and lets the request      *)
(* through.                                                               *)
LEMMA LimitFailMoves ==
    ASSUME TypeInv, NEW r \in Slots, LimitFails(r)
    PROVE  /\ Passes(r) /\ faults' = faults + 1 /\ UNCHANGED <<now, begun>>
           /\ ~ Doing(r, "token_blacklist")
           /\ admitted' = [admitted EXCEPT ![req[r].user][req[r].path][now] = @ + 1]
           /\ UNCHANGED <<revoked, hits, used, served, overlaps, escaped>>
           /\ req'[r] # Idle /\ req'[r].day = req[r].day
<1> USE DEF TypeInv
<1>1. req[r] \in Proxied
  BY Kinds DEF LimitFails
<1> DEFINE p == Continue(req[r], <<"proxy">>)
<1>2. /\ p \in Proxied /\ p.todo # <<>>
      /\ p.user = req[r].user /\ p.path = req[r].path /\ p.late = req[r].late /\ p.day = req[r].day
  BY <1>1, StraightOn
<1>3. req'[r] = p /\ Others(r)
  BY <1>2, ThenMoves DEF LimitFails
<1>4. p # Idle
  BY <1>2, ProxiedHeads
<1> HIDE DEF p
<1> QED
  BY <1>1, <1>2, <1>3, <1>4 DEF LimitFails, Passes, Doing, Fault

(* The second half of CheckRateLimit adds this second, and lets through   *)
(* whom the count allows.                                                 *)
LEMMA AddMoves ==
    ASSUME TypeInv, NEW r \in Slots, Add(r)
    PROVE  LET q == req[r] IN
           /\ Passes(r) /\ UNCHANGED <<now, begun, faults>> /\ Doing(r, "add")
           /\ hits' = [hits EXCEPT ![q.user] = @ \cup {now}]
           /\ overlaps' = IF hits[q.user] \subseteq q.seen THEN overlaps ELSE overlaps + 1
           /\ IF WithinLimit(r)
              THEN admitted' = [admitted EXCEPT ![q.user][q.path][now] = @ + 1]
              ELSE req'[r] = Idle /\ UNCHANGED admitted
           /\ UNCHANGED <<revoked, used, served, escaped>>
           /\ Doing(r, "proxy")' => req'[r] # Idle /\ q.path # "ai"
<1> USE DEF TypeInv
<1>1. req[r] \in Proxied
  BY Kinds DEF Add
<1>2. Head(req[r].todo) = "add" /\ req[r].todo # <<>>
  BY DEF Add, Doing
<1>3. CASE WithinLimit(r)
  <2>1. /\ Rest(req[r]) \in Proxied /\ Rest(req[r]).todo = Tail(req[r].todo)
        /\ Rest(req[r]).user = req[r].user /\ Rest(req[r]).path = req[r].path /\ Rest(req[r]).late = req[r].late
    BY <1>1, <1>2, RestAsItIs
  <2>2. Tail(req[r].todo) # <<>>
        /\ Tail(req[r].todo) = IF req[r].path = "ai" THEN <<"quota", "proxy">> ELSE <<"proxy">>
    BY <1>1, <1>2, ProxiedHeads
  <2>3. req'[r] = Rest(req[r]) /\ Others(r) /\ req'[r] # Idle
    BY <1>3, <2>1, <2>2, ThenMoves, ProxiedHeads DEF Add
  <2>4. Head(<<"quota", "proxy">>) # "proxy"
    BY Lists
  <2>5. Doing(r, "proxy")' => req[r].path # "ai"
    BY <2>1, <2>2, <2>3, <2>4 DEF Doing
  <2> QED
    BY <1>1, <1>3, <2>1, <2>3, <2>5 DEF Add, Passes, Works
<1>4. CASE ~ WithinLimit(r)
  <2>1. req'[r] = Idle /\ Others(r)
    BY <1>4, RefuseMoves DEF Add
  <2> QED
    BY <1>1, <1>4, <2>1 DEF Add, Passes, Works, Doing, Idle
<1> QED
  BY <1>3, <1>4

(* The quota of the day: who goes on has been counted, within the quota.  *)
LEMMA CountQuotaMoves ==
    ASSUME TypeInv, NEW r \in Slots, CountQuota(r)
    PROVE  LET q == req[r] IN
           /\ Passes(r) /\ UNCHANGED <<now, begun, faults>> /\ Doing(r, "quota")
           /\ used' = [used EXCEPT ![q.user][Today] = @ + 1]
           /\ req'[r] # Idle => used'[q.user][Today] <= Quota /\ req'[r].day = Today
           /\ UNCHANGED <<revoked, hits, admitted, served, overlaps, escaped>>
<1> USE DEF TypeInv
<1>1. req[r] \in Proxied
  BY Kinds DEF CountQuota
<1>2. Head(req[r].todo) = "quota" /\ req[r].todo # <<>>
  BY DEF CountQuota, Doing
<1>3. Today \in Days
  BY TodayIsADay
<1>4. used'[req[r].user][Today] \in Nat /\ Quota \in Nat
  <2> DEFINE u == req[r].user  d == Today
  <2>1. used \in [Users -> [Days -> Nat]] /\ u \in Users /\ d \in Days /\ Quota \in Nat
    BY <1>1, <1>3, ProxiedHeads, AdmissionAssumption
  <2>2. used' = [used EXCEPT ![u][d] = @ + 1]
    BY DEF CountQuota
  <2> HIDE DEF u, d, TypeInv
  <2>3. used'[u][d] = used[u][d] + 1
    BY <2>1, <2>2
  <2>4. used[u][d] \in Nat
    BY <2>1
  <2>5. used'[u][d] \in Nat
    BY <2>3, <2>4
  <2> QED
    BY <2>1, <2>5 DEF u, d
<1>5. CASE OverQuota(used'[req[r].user][Today])
  <2>1. req'[r] = Idle /\ Others(r)
    BY <1>5, RefuseMoves DEF CountQuota
  <2> QED
    BY <1>1, <2>1 DEF CountQuota, Passes, Works
<1>6. CASE ~ OverQuota(used'[req[r].user][Today])
  <2> DEFINE p == [req[r] EXCEPT !.day = Today]
  <2>1. p \in Proxied /\ p = [req[r] EXCEPT !.seen = p.seen, !.day = p.day] /\ p.day = Today
    <3> HIDE DEF MeteredTodos, PlainTodos
    <3> QED
      BY <1>1, <1>3 DEF Proxied, ProxyRequest
  <2>2. [Rest(req[r]) EXCEPT !.day = Today] = Rest(p)
    BY <1>1 DEF Proxied, ProxyRequest, Rest
  <2>3. /\ Rest(p) \in Proxied /\ Rest(p).todo = Tail(req[r].todo) /\ Rest(p).day = Today
        /\ Rest(p).user = req[r].user /\ Rest(p).path = req[r].path /\ Rest(p).late = req[r].late
    <3> HIDE DEF p
    <3> QED
      BY <1>1, <1>2, <2>1, RestOfProxied, ZenonT(30)
  <2>4. Rest(p).todo # <<>>
    BY <1>1, <1>2, <2>3, ProxiedHeads
  <2>5. req'[r] = Rest(p) /\ Others(r)
    BY <1>6, <2>2, <2>4, ThenMoves DEF CountQuota
  <2>6. used'[req[r].user][Today] <= Quota
    BY <1>4, <1>6 DEF OverQuota
  <2> QED
    BY <1>1, <2>3, <2>5, <2>6 DEF CountQuota, Passes, Works
<1> QED
  BY <1>5, <1>6

(* A quota that cannot be asked costs a failure and lets the request      *)
(* through.                                                               *)
LEMMA QuotaFailMoves ==
    ASSUME TypeInv, NEW r \in Slots, QuotaFails(r)
    PROVE  /\ Passes(r) /\ faults' = faults + 1 /\ UNCHANGED <<now, begun, limitVars>>
           /\ ~ Doing(r, "token_blacklist")
           /\ req'[r] # Idle => req'[r].day = req[r].day
<1> USE DEF TypeInv
<1>1. req[r] \in Proxied
  BY Kinds DEF QuotaFails
<1>2. Head(req[r].todo) = "quota" /\ req[r].todo # <<>>
  BY DEF QuotaFails, Doing
<1>3. /\ Rest(req[r]) \in Proxied /\ Rest(req[r]).todo = Tail(req[r].todo)
      /\ Rest(req[r]).user = req[r].user /\ Rest(req[r]).path = req[r].path /\ Rest(req[r]).late = req[r].late
      /\ Rest(req[r]).day = req[r].day
  BY <1>1, <1>2, RestAsItIs
<1>4. req'[r] = Rest(req[r]) /\ Others(r)
  BY <1>1, <1>2, <1>3, ThenMoves, ProxiedHeads DEF QuotaFails
<1> QED
  BY <1>1, <1>2, <1>3, <1>4 DEF QuotaFails, Passes, Fault, Doing

(* The request goes to its service and is counted there.                  *)
LEMMA ProxyMoves ==
    ASSUME TypeInv, NEW r \in Slots, Proxy(r)
    PROVE  LET q == req[r] IN
           /\ Passes(r) /\ req'[r] = Idle /\ UNCHANGED <<now, begun, faults>> /\ Doing(r, "proxy")
           /\ escaped' = escaped + IF q.late THEN 1 ELSE 0
           /\ served' = IF q.path = "ai" THEN [served EXCEPT ![q.user][q.day] = @ + 1] ELSE served
           /\ UNCHANGED <<revoked, hits, used, admitted, overlaps>>
<1> USE DEF TypeInv
<1>1. req[r] \in Proxied
  BY Kinds DEF Proxy
<1>2. Head(req[r].todo) = "proxy"
  BY DEF Proxy, Doing
<1>3. Rest(req[r]).todo = <<>>
  BY <1>1, <1>2, RestAsItIs
<1>4. req'[r] = Idle /\ Others(r)
  BY <1>3, ThenMoves DEF Proxy
<1> QED
  BY <1>1, <1>4 DEF Proxy, Passes, Works

(* A request that comes has both lookups before it, and is late only      *)
(* when its token is revoked by then.                                     *)
LEMMA ArriveMoves ==
    ASSUME TypeInv, NEW r \in Slots, NEW u \in Users, NEW path \in Paths, Arrive(r, u, path)
    PROVE  /\ req[r] = Idle /\ req'[r] \in Proxied /\ Others(r)
           /\ Doing(r, "token_blacklist")' /\ ~ Doing(r, "proxy")'
           /\ req'[r].late => Token("token_blacklist", req'[r].user) \in revoked
           /\ UNCHANGED <<now, faults, limitVars>>
<1> DEFINE q == [todo |-> Chain(path), user |-> u, path |-> path, seen |-> {}, day |-> Today,
                 late |-> Token("token_blacklist", u) \in revoked]
<1>1. /\ Chain(path) \in IF path = "ai" THEN MeteredTodos ELSE PlainTodos
      /\ Chain(path) # <<>> /\ Head(Chain(path)) = "token_blacklist"
  BY ListsAreWhole
<1>2. Today \in Days
  BY TodayIsADay DEF TypeInv
<1>3. (Token("token_blacklist", u) \in revoked) \in BOOLEAN
  OBVIOUS
<1>4. q \in Proxied
  <2> HIDE DEF MeteredTodos, PlainTodos
  <2> QED
    BY <1>1, <1>2, <1>3 DEF Proxied, ProxyRequest
<1>5. req[r] = Idle /\ req' = [req EXCEPT ![r] = q] /\ UNCHANGED <<now, faults, limitVars>>
  BY DEF Arrive, Begin
<1>6. req'[r] = q /\ Others(r)
  <2> HIDE DEF q
  <2> QED
    BY <1>5 DEF TypeInv, RequestsInv, Others
<1>7. q.todo = Chain(path) /\ q.user = u
  OBVIOUS
<1>8. q.late => Token("token_blacklist", q.user) \in revoked
  OBVIOUS
<1> HIDE DEF q
<1>9. Doing(r, "token_blacklist")' /\ ~ Doing(r, "proxy")'
  BY <1>1, <1>6, <1>7 DEF Doing
<1> QED
  BY <1>4, <1>5, <1>6, <1>8, <1>9

(* What is counted is counted in finite sets, one request at a time.       *)
LEMMA OneMore ==
    ASSUME NEW A, NEW B, NEW x, IsFiniteSet(A), B \subseteq A \cup {x}
    PROVE  IsFiniteSet(B) /\ Cardinality(B) <= Cardinality(A) + 1
           /\ Cardinality(A) \in Nat /\ Cardinality(B) \in Nat
<1>1. IsFiniteSet(A \cup {x}) /\ Cardinality(A \cup {x}) <= Cardinality(A) + 1
  <2>1. Cardinality(A) \in Nat
    BY FS_CardinalityType
  <2>2. /\ IsFiniteSet(A \cup {x})
        /\ Cardinality(A \cup {x}) = IF x \in A THEN Cardinality(A) ELSE Cardinality(A) + 1
    BY FS_AddElement
  <2> QED
    BY <2>1, <2>2
<1>2. IsFiniteSet(B) /\ Cardinality(B) <= Cardinality(A \cup {x})
  BY <1>1, FS_Subset
<1> QED
  BY <1>1, <1>2, FS_CardinalityType

(* One element taken from a finite set.                                   *)
LEMMA OneLess ==
    ASSUME NEW A, NEW B, NEW x \in A, IsFiniteSet(A), B \subseteq A \ {x}
    PROVE  IsFiniteSet(B) /\ Cardinality(B) + 1 <= Cardinality(A)
           /\ Cardinality(A) \in Nat /\ Cardinality(B) \in Nat
<1>1. IsFiniteSet(A \ {x}) /\ Cardinality(A \ {x}) = Cardinality(A) - 1
  BY FS_RemoveElement
<1>2. IsFiniteSet(B) /\ Cardinality(B) <= Cardinality(A \ {x})
  BY <1>1, FS_Subset
<1> QED
  BY <1>1, <1>2, FS_CardinalityType

(* A part of a finite set is no larger.                                   *)
LEMMA NoMore ==
    ASSUME NEW A, NEW B, IsFiniteSet(A), B \subseteq A
    PROVE  IsFiniteSet(B) /\ Cardinality(B) <= Cardinality(A)
           /\ Cardinality(A) \in Nat /\ Cardinality(B) \in Nat
BY FS_Subset, FS_CardinalityType

(* Requests under way are finitely many.                                  *)
LEMMA BusyOnes ==
    ASSUME RequestsInv, NEW A, A \subseteq Busy
    PROVE  IsFiniteSet(A) /\ Cardinality(A) \in Nat
BY FS_Subset, FS_CardinalityType DEF RequestsInv

(* The steps of a request that is proxied.                                 *)
ProxyStep(r) ==
    \/ IsBlacklisted(r) \/ BlacklistFails(r) \/ Count(r) \/ Add(r) \/ LimitFails(r)
    \/ CountQuota(r) \/ QuotaFails(r) \/ Proxy(r)

(* A step of a proxied request moves no other, and costs one failure at   *)
(* most.                                                                  *)
LEMMA ProxyStepPasses ==
    ASSUME TypeInv, NEW r \in Slots, ProxyStep(r)
    PROVE  Passes(r) /\ now' = now /\ faults' \in {faults, faults + 1}
BY BlacklistMoves, BlacklistFailMoves, CountMoves, AddMoves, LimitFailMoves, CountQuotaMoves,
   QuotaFailMoves, ProxyMoves DEF ProxyStep

(* Requests that are proxied and whose token was revoked before they came, *)
(* once they are past the first lookup: only a failure brings them there.  *)
Late(r) == req[r] \in Proxied /\ req[r].late
Through == {r \in Slots : Late(r) /\ ~ Doing(r, "token_blacklist")}
RevokedInv ==
    /\ escaped + Cardinality(Through) <= faults
    /\ \A r \in Slots : Late(r) => Token("token_blacklist", req[r].user) \in revoked

(* Requests past the first lookup are under way.                          *)
LEMMA ThroughIsBusy == RequestsInv => Through \subseteq Busy
BY ProxiedHeads DEF Through, Busy, Late

(* A step of a proxied request keeps the books of the revoked tokens:     *)
(* only a failure brings a late request past the first lookup, and going  *)
(* to the service takes it from there.                                    *)
LEMMA RevokedKept ==
    ASSUME TypeInv, RevokedInv, NEW r \in Slots, ProxyStep(r)
    PROVE  RevokedInv'
<1> USE DEF TypeInv
<1>1. Passes(r) /\ faults' \in {faults, faults + 1}
  BY ProxyStepPasses
<1>2. \A s \in Slots : Late(s)' => Late(s) /\ req'[s].user = req[s].user
  BY <1>1, ProxiedHeads DEF Late, Passes, Others
<1>3. revoked' = revoked
  BY BlacklistMoves, BlacklistFailMoves, CountMoves, AddMoves, LimitFailMoves, CountQuotaMoves,
     QuotaFailMoves, ProxyMoves DEF ProxyStep, limitVars
<1>4. \A s \in Slots \ {r} : s \in Through' <=> s \in Through
  BY <1>1 DEF Through, Late, Passes, Others, Doing
<1>5. IsFiniteSet(Through)
  BY ThroughIsBusy, BusyOnes
<1>6. escaped' + Cardinality(Through') <= faults'
  <2>1. CASE BlacklistFails(r) \/ LimitFails(r) \/ QuotaFails(r)
    <3>1. faults' = faults + 1 /\ escaped' = escaped
      BY <2>1, BlacklistFailMoves, LimitFailMoves, QuotaFailMoves DEF limitVars
    <3>2. Through' \subseteq Through \cup {r}
      BY <1>4 DEF Through
    <3> DEFINE a == Cardinality(Through)  b == Cardinality(Through')
    <3>3. a \in Nat /\ b \in Nat /\ b <= a + 1
      BY <1>5, <3>2, OneMore
    <3> HIDE DEF a, b
    <3> QED
      BY <3>1, <3>3 DEF RevokedInv, a, b
  <2>2. CASE Proxy(r)
    <3>1. /\ Doing(r, "proxy") /\ req'[r] = Idle /\ faults' = faults
          /\ escaped' = escaped + IF req[r].late THEN 1 ELSE 0
      BY <2>2, ProxyMoves
    <3>2. req[r].late => r \in Through
      BY <1>1, <3>1 DEF Through, Late, Passes, Doing
    <3>3. r \notin Through'
      BY <3>1, ProxiedHeads DEF Through, Late
    <3>4. Through' \subseteq Through \ {r}
      BY <1>4, <3>3 DEF Through
    <3> DEFINE a == Cardinality(Through)  b == Cardinality(Through')
    <3>5. CASE req[r].late
      <4>1. a \in Nat /\ b \in Nat /\ b + 1 <= a
        BY <1>5, <3>2, <3>4, <3>5, OneLess
      <4> HIDE DEF a, b
      <4> QED
        BY <3>1, <3>5, <4>1 DEF RevokedInv, a, b
    <3>6. CASE ~ req[r].late
      <4>1. a \in Nat /\ b \in Nat /\ b <= a
        BY <1>5, <3>4, NoMore
      <4> HIDE DEF a, b
      <4> QED
        BY <3>1, <3>6, <4>1 DEF RevokedInv, a, b
    <3> QED
      BY <3>5, <3>6
  <2>3. CASE IsBlacklisted(r) \/ Count(r) \/ Add(r) \/ CountQuota(r)
    <3>1. faults' = faults /\ escaped' = escaped
      BY <2>3, BlacklistMoves, CountMoves, AddMoves, CountQuotaMoves DEF limitVars
    <3>2. r \in Through' => r \in Through
      BY <1>1, <1>2, <2>3, BlacklistMoves, CountMoves, AddMoves, CountQuotaMoves, ProxiedHeads
      DEF Through, Late, Passes, RevokedInv, Doing
    <3>3. Through' \subseteq Through
      BY <1>4, <3>2 DEF Through
    <3> DEFINE a == Cardinality(Through)  b == Cardinality(Through')
    <3>4. a \in Nat /\ b \in Nat /\ b <= a
      BY <1>5, <3>3, NoMore
    <3> HIDE DEF a, b
    <3> QED
      BY <3>1, <3>4 DEF RevokedInv, a, b
  <2> QED
    BY <2>1, <2>2, <2>3 DEF ProxyStep
<1> QED
  BY <1>2, <1>3, <1>6 DEF RevokedInv

(* The seconds of the window in which a user's requests were let through:  *)
(* those the set of the rate limit does not hold are paid for by failures. *)
SecondsOf(u, p) == {t \in Recent : admitted[u][p][t] > 0}
SecondsInv ==
    \A u \in Users, p \in Paths :
        /\ \A t \in Times : admitted[u][p][t] > 0 => t <= now
        /\ Cardinality(SecondsOf(u, p) \ hits[u]) <= faults
        /\ Cardinality(SecondsOf(u, p)) <= Limit[p] + 1 + faults + overlaps

(* The moments of the bounded clock are finitely many.                    *)
LEMMA TimesAreFinite ==
    /\ IsFiniteSet(Times)
    /\ \A A : A \subseteq Times => IsFiniteSet(A) /\ Cardinality(A) \in Nat
<1>1. IsFiniteSet(Times)
  BY AdmissionAssumption, FS_Interval DEF Times
<1> QED
  BY <1>1, FS_Subset, FS_CardinalityType

(* A step that lets no one through, forgets only what is too old and has   *)
(* no fewer failures behind it.                                            *)
LEMMA SecondsCarriedOver ==
    ASSUME TypeInv, TypeInv', SecondsInv, faults' >= faults, overlaps' >= overlaps,
           now' \in {now, now + 1}, admitted' = admitted,
           \A u \in Users : \A t \in hits[u] : t \in hits'[u] \/ t <= now - Window
    PROVE  SecondsInv'
<1> USE DEF TypeInv
<1>1. Window \in Nat /\ \A p \in Paths : Limit[p] \in Nat
  BY AdmissionAssumption
<1>2. ASSUME NEW u \in Users, NEW p \in Paths
      PROVE  /\ \A t \in Times : admitted'[u][p][t] > 0 => t <= now'
             /\ SecondsOf(u, p)' \subseteq SecondsOf(u, p)
             /\ SecondsOf(u, p)' \ hits'[u] \subseteq SecondsOf(u, p) \ hits[u]
  <2>1. \A t \in Times : admitted[u][p][t] > 0 => t <= now
    BY DEF SecondsInv
  <2>2. now \in Nat /\ Times \subseteq Nat
    BY DEF Times
  <2>3. \A t \in Times : admitted'[u][p][t] > 0 => t <= now'
    BY <2>1, <2>2
  <2>4. ASSUME NEW t \in Recent', admitted[u][p][t] > 0 PROVE t \in Recent
    <3>1. t \in Times /\ t > now' - Window
      BY <2>4 DEF Recent
    <3>2. t \in Nat /\ now' \in Nat /\ now' >= now
      BY <2>2, <3>1
    <3>3. t > now - Window
      <4> DEFINE n1 == now'
      <4>1. t > n1 - Window /\ n1 \in Nat /\ n1 >= now /\ Window \in Nat /\ t \in Nat /\ now \in Nat
        BY <1>1, <2>2, <3>1, <3>2
      <4> HIDE DEF n1
      <4> QED
        BY <4>1
    <3> QED
      BY <3>1, <3>3 DEF Recent
  <2>5. SecondsOf(u, p)' \subseteq SecondsOf(u, p)
    BY <2>4 DEF SecondsOf
  <2>6. \A t \in Recent : t \in hits[u] => t \in hits'[u]
    BY <1>1, <2>2 DEF Recent
  <2>7. \A t \in SecondsOf(u, p) : t \in hits[u] => t \in hits'[u]
    BY <2>6 DEF SecondsOf
  <2> QED
    BY <2>3, <2>5, <2>7
<1>3. ASSUME NEW u \in Users, NEW p \in Paths
      PROVE  /\ Cardinality(SecondsOf(u, p)' \ hits'[u]) <= faults'
             /\ Cardinality(SecondsOf(u, p)') <= Limit[p] + 1 + faults' + overlaps'
  <2> DEFINE a == Cardinality(SecondsOf(u, p) \ hits[u])  a1 == Cardinality(SecondsOf(u, p)' \ hits'[u])
             b == Cardinality(SecondsOf(u, p))  b1 == Cardinality(SecondsOf(u, p)')
             f == faults  f1 == faults'  o == overlaps  o1 == overlaps'
  <2>1. IsFiniteSet(SecondsOf(u, p)) /\ IsFiniteSet(SecondsOf(u, p) \ hits[u])
    BY TimesAreFinite DEF SecondsOf, Recent
  <2>2. a \in Nat /\ a1 \in Nat /\ b \in Nat /\ b1 \in Nat /\ a1 <= a /\ b1 <= b
    BY <1>2, <2>1, NoMore
  <2>3. a <= f /\ b <= Limit[p] + 1 + f + o
    BY DEF SecondsInv
  <2>4. f \in Nat /\ f1 \in Nat /\ o \in Nat /\ o1 \in Nat /\ f1 >= f /\ o1 >= o /\ Limit[p] \in Nat
    BY <1>1
  <2> HIDE DEF a, a1, b, b1, f, f1, o, o1
  <2>5. a1 <= f1 /\ b1 <= Limit[p] + 1 + f1 + o1
    BY <2>2, <2>3, <2>4
  <2> QED
    BY <2>5 DEF a1, b1, f1, o1
<1> QED
  BY <1>2, <1>3 DEF SecondsInv

(* Letting a request of u pass by path p, now.                             *)
LEMMA LettingPass ==
    ASSUME TypeInv, SecondsInv, NEW u \in Users, NEW p \in Paths, now' = now,
           admitted' = [admitted EXCEPT ![u][p][now] = @ + 1]
    PROVE  /\ \A v \in Users, q \in Paths : \A t \in Times : admitted'[v][q][t] > 0 => t <= now
           /\ \A v \in Users, q \in Paths :
                SecondsOf(v, q)' \subseteq SecondsOf(v, q) \cup (IF v = u /\ q = p THEN {now} ELSE {})
<1> USE DEF TypeInv
<1>1. now \in Times /\ now \in Nat
  BY DEF Times
<1>2. \A v \in Users, q \in Paths : \A t \in Times :
        admitted'[v][q][t] = IF v = u /\ q = p /\ t = now THEN admitted[v][q][t] + 1 ELSE admitted[v][q][t]
  BY <1>1
<1>3. Recent' = Recent
  BY DEF Recent
<1>4. ASSUME NEW v \in Users, NEW q \in Paths, NEW t \in Times, admitted'[v][q][t] > 0
      PROVE  t <= now
  <2>1. CASE v = u /\ q = p /\ t = now
    BY <1>1, <2>1
  <2>2. CASE ~ (v = u /\ q = p /\ t = now)
    <3>1. admitted[v][q][t] > 0
      BY <1>2, <1>4, <2>2
    <3> QED
      BY <3>1 DEF SecondsInv
  <2> QED
    BY <2>1, <2>2
<1>5. Recent \subseteq Times
  BY DEF Recent
<1> QED
  BY <1>2, <1>3, <1>4, <1>5 DEF SecondsOf

(* A step of a proxied request keeps the books of the rate limit.         *)
(* Letting one through adds its second to the set, or costs a failure;    *)
(* who is let through within the limit counted a set that holds all the   *)
(* seconds but this one, or an overlap is noted.                          *)
LEMMA SecondsKept ==
    ASSUME TypeInv, TypeInv', SecondsInv, NEW r \in Slots, ProxyStep(r)
    PROVE  SecondsInv'
<1> DEFINE q == req[r]  u == q.user  p == q.path
<1>1. Passes(r) /\ now' = now /\ faults' \in {faults, faults + 1}
  BY ProxyStepPasses
<1>2. u \in Users /\ p \in Paths /\ q.seen \subseteq Times
  BY <1>1, ProxiedHeads DEF Passes
<1>3. Window \in Nat /\ \A x \in Paths : Limit[x] \in Nat
  BY AdmissionAssumption
<1>0. /\ hits \in [Users -> SUBSET Times] /\ now \in Times /\ now \in Nat /\ Times \subseteq Nat
      /\ faults \in Nat /\ overlaps \in Nat
  BY DEF TypeInv, Times
<1>4. faults' >= faults /\ now' \in {now, now + 1}
  BY <1>0, <1>1
<1>5. CASE IsBlacklisted(r) \/ BlacklistFails(r) \/ CountQuota(r) \/ QuotaFails(r) \/ Proxy(r)
  <2>1. UNCHANGED <<hits, admitted, overlaps>>
    BY <1>5, BlacklistMoves, BlacklistFailMoves, CountQuotaMoves, QuotaFailMoves, ProxyMoves DEF limitVars
  <2>2. /\ overlaps' >= overlaps
        /\ \A v \in Users : \A t \in hits[v] : t \in hits'[v] \/ t <= now - Window
    BY <1>0, <2>1
  <2> QED
    BY <1>4, <2>1, <2>2, SecondsCarriedOver
<1>6. CASE Count(r)
  <2>1. /\ hits' = [hits EXCEPT ![u] = {t \in hits[u] : t > now - Window}]
        /\ UNCHANGED <<admitted, overlaps>>
    BY <1>6, CountMoves
  <2>2. \A v \in Users : \A t \in hits[v] : t \in hits'[v] \/ t <= now - Window
    <3>1. \A v \in Users : \A t \in hits[v] : t \in Nat
      BY <1>0
    <3> DEFINE n == now - Window
    <3>2. n \in Int
      BY <1>0, <1>3
    <3>3. hits' = [hits EXCEPT ![u] = {t \in hits[u] : t > n}]
      BY <2>1
    <3> HIDE DEF u, n
    <3>4. \A t \in Nat : t > n \/ t <= n
      BY <3>2
    <3>5. hits'[u] = {t \in hits[u] : t > n} /\ \A v \in Users \ {u} : hits'[v] = hits[v]
      BY <1>0, <1>2, <3>3
    <3>6. \A v \in Users : \A t \in hits[v] : t \in hits'[v] \/ t <= n
      BY <3>1, <3>4, <3>5
    <3> QED
      BY <3>6 DEF n
  <2>3. overlaps' >= overlaps
    BY <1>0, <2>1
  <2> QED
    BY <1>4, <2>1, <2>2, <2>3, SecondsCarriedOver
<1>7. CASE Add(r) /\ ~ WithinLimit(r)
  <2>1. /\ hits' = [hits EXCEPT ![u] = @ \cup {now}] /\ admitted' = admitted /\ overlaps' \in {overlaps, overlaps + 1}
    BY <1>7, AddMoves
  <2>2. \A v \in Users : \A t \in hits[v] : t \in hits'[v]
    <3> HIDE DEF u
    <3> QED
      BY <1>0, <1>2, <2>1
  <2>3. overlaps' >= overlaps
    BY <1>0, <2>1
  <2> QED
    BY <1>4, <2>1, <2>2, <2>3, SecondsCarriedOver
<1>8. CASE Add(r) /\ WithinLimit(r)
  <2>1. /\ hits' = [hits EXCEPT ![u] = @ \cup {now}]
        /\ overlaps' = IF hits[u] \subseteq q.seen THEN overlaps ELSE overlaps + 1
        /\ admitted' = [admitted EXCEPT ![u][p][now] = @ + 1] /\ faults' = faults
    BY <1>8, AddMoves
  <2>2. Cardinality(q.seen) <= Limit[p]
    BY <1>8 DEF WithinLimit
  <2> HIDE DEF q, u, p
  <2>3. /\ \A v \in Users, x \in Paths : \A t \in Times : admitted'[v][x][t] > 0 => t <= now
        /\ \A v \in Users, x \in Paths :
             SecondsOf(v, x)' \subseteq SecondsOf(v, x) \cup (IF v = u /\ x = p THEN {now} ELSE {})
    BY <1>1, <1>2, <2>1, LettingPass
  <2>4. \A v \in Users : hits[v] \subseteq hits'[v] /\ now \in hits'[u]
    BY <1>0, <1>2, <2>1
  <2>5. \A v \in Users, x \in Paths : SecondsOf(v, x)' \ hits'[v] \subseteq SecondsOf(v, x) \ hits[v]
    BY <2>3, <2>4
  <2>6. \A v \in Users, x \in Paths : IsFiniteSet(SecondsOf(v, x))
    BY TimesAreFinite DEF SecondsOf, Recent
  <2>7. \A v \in Users, x \in Paths : Cardinality(SecondsOf(v, x)' \ hits'[v]) <= faults'
    <3> SUFFICES ASSUME NEW v \in Users, NEW x \in Paths
                 PROVE  Cardinality(SecondsOf(v, x)' \ hits'[v]) <= faults
      BY <2>1
    <3> DEFINE a == Cardinality(SecondsOf(v, x) \ hits[v])  b == Cardinality(SecondsOf(v, x)' \ hits'[v])
    <3>1. IsFiniteSet(SecondsOf(v, x) \ hits[v])
      BY <2>6, FS_Difference
    <3>2. a \in Nat /\ b \in Nat /\ b <= a
      BY <2>5, <3>1, NoMore
    <3>3. a <= faults
      BY DEF SecondsInv
    <3> HIDE DEF a, b
    <3>4. b <= faults
      BY <1>0, <3>2, <3>3
    <3> QED
      BY <3>4 DEF b
  <2>8. ASSUME NEW v \in Users, NEW x \in Paths, v = u, x = p
        PROVE  Cardinality(SecondsOf(v, x)') <= Limit[x] + 1 + faults' + overlaps'
    <3> DEFINE a == Cardinality(SecondsOf(v, x))  b == Cardinality(SecondsOf(v, x)')
    <3>0. SecondsOf(v, x)' \subseteq SecondsOf(v, x) \cup {now}
      BY <2>3
    <3>1. a \in Nat /\ b \in Nat /\ b <= a + 1
      BY <2>6, <3>0, OneMore
    <3>2. CASE ~ (hits[u] \subseteq q.seen)
      <4>1. a <= Limit[x] + 1 + faults + overlaps
        BY DEF SecondsInv
      <4> HIDE DEF a, b
      <4>2. b <= Limit[x] + 1 + faults' + overlaps'
        BY <1>0, <1>2, <1>3, <2>1, <3>1, <3>2, <4>1
      <4> QED
        BY <4>2 DEF b
    <3>3. CASE hits[u] \subseteq q.seen
      <4> DEFINE A == SecondsOf(v, x) \ hits[v]  B == q.seen \cup {now}
                 c == Cardinality(A)  d == Cardinality(B)  e == Cardinality(q.seen)
      <4>1. IsFiniteSet(A) /\ IsFiniteSet(q.seen) /\ c \in Nat /\ e \in Nat
        BY <1>2, <2>6, FS_Difference, FS_CardinalityType, TimesAreFinite
      <4>2. IsFiniteSet(B) /\ d \in Nat /\ d <= e + 1
        BY <4>1, OneMore
      <4>3. SecondsOf(v, x)' \subseteq A \cup B
        BY <2>8, <3>0, <3>3
      <4> HIDE DEF A, B
      <4>4. /\ IsFiniteSet(A \cup B)
            /\ Cardinality(A \cup B) = c + d - Cardinality(A \cap B)
            /\ Cardinality(A \cap B) \in Nat
        BY <4>1, <4>2, FS_Union, FS_Intersection, FS_CardinalityType
      <4>5. b <= Cardinality(A \cup B) /\ Cardinality(A \cup B) \in Nat
        BY <4>3, <4>4, NoMore
      <4>6. c <= faults
        BY DEF SecondsInv, A
      <4>7. e <= Limit[x] /\ overlaps' = overlaps /\ faults' = faults
        BY <2>1, <2>2, <2>8, <3>3
      <4> HIDE DEF b, c, d, e
      <4>8. b <= Limit[x] + 1 + faults + overlaps
        BY <1>0, <1>2, <1>3, <3>1, <4>1, <4>2, <4>4, <4>5, <4>6, <4>7
      <4> QED
        BY <4>7, <4>8 DEF b
    <3> QED
      BY <3>2, <3>3
  <2>9. ASSUME NEW v \in Users, NEW x \in Paths, v # u \/ x # p
        PROVE  Cardinality(SecondsOf(v, x)') <= Limit[x] + 1 + faults' + overlaps'
    <3>1. SecondsOf(v, x)' \subseteq SecondsOf(v, x)
      BY <2>3, <2>9
    <3> DEFINE a == Cardinality(SecondsOf(v, x))  b == Cardinality(SecondsOf(v, x)')
    <3>2. a \in Nat /\ b \in Nat /\ b <= a
      BY <2>6, <3>1, NoMore
    <3>3. a <= Limit[x] + 1 + faults + overlaps
      BY DEF SecondsInv
    <3> HIDE DEF a, b
    <3>4. b <= Limit[x] + 1 + faults' + overlaps'
      BY <1>0, <1>3, <2>1, <3>2, <3>3
    <3> QED
      BY <3>4 DEF b
  <2> SUFFICES ASSUME NEW v \in Users, NEW x \in Paths
               PROVE  Cardinality(SecondsOf(v, x)') <= Limit[x] + 1 + faults' + overlaps'
    BY <1>1, <2>3, <2>7 DEF SecondsInv
  <2> QED
    BY <2>8, <2>9
<1>9. CASE LimitFails(r)
  <2>1. /\ admitted' = [admitted EXCEPT ![u][p][now] = @ + 1] /\ faults' = faults + 1
        /\ UNCHANGED <<hits, overlaps>>
    BY <1>9, LimitFailMoves
  <2> HIDE DEF q, u, p
  <2>2. /\ \A v \in Users, x \in Paths : \A t \in Times : admitted'[v][x][t] > 0 => t <= now
        /\ \A v \in Users, x \in Paths :
             SecondsOf(v, x)' \subseteq SecondsOf(v, x) \cup (IF v = u /\ x = p THEN {now} ELSE {})
    BY <1>1, <1>2, <2>1, LettingPass
  <2>3. \A v \in Users, x \in Paths : SecondsOf(v, x)' \subseteq SecondsOf(v, x) \cup {now}
    BY <2>2
  <2> SUFFICES ASSUME NEW v \in Users, NEW x \in Paths
               PROVE  /\ Cardinality(SecondsOf(v, x)' \ hits[v]) <= faults + 1
                      /\ Cardinality(SecondsOf(v, x)') <= Limit[x] + 1 + (faults + 1) + overlaps
    BY <1>1, <2>1, <2>2 DEF SecondsInv
  <2> DEFINE A == SecondsOf(v, x)  B == SecondsOf(v, x)'
             a == Cardinality(A)  b == Cardinality(B)
             c == Cardinality(A \ hits[v])  d == Cardinality(B \ hits[v])
  <2>4. IsFiniteSet(A) /\ IsFiniteSet(A \ hits[v]) /\ B \subseteq A \cup {now}
        /\ B \ hits[v] \subseteq (A \ hits[v]) \cup {now}
    BY <2>3, TimesAreFinite, FS_Difference DEF SecondsOf, Recent
  <2>5. a <= Limit[x] + 1 + faults + overlaps /\ c <= faults
    BY DEF SecondsInv
  <2>6. a \in Nat /\ b \in Nat /\ b <= a + 1
    <3> HIDE DEF A, B
    <3> QED
      BY <2>4, OneMore
  <2>7. c \in Nat /\ d \in Nat /\ d <= c + 1
    <3> HIDE DEF A, B
    <3> QED
      BY <2>4, OneMore
  <2> HIDE DEF a, b, c, d
  <2>8. d <= faults + 1 /\ b <= Limit[x] + 1 + (faults + 1) + overlaps
    BY <1>0, <1>3, <2>5, <2>6, <2>7
  <2> QED
    BY <2>8 DEF b, d
<1> QED
  BY <1>5, <1>6, <1>7, <1>8, <1>9 DEF ProxyStep

(* The AI requests of user u that have their place in the quota of day d.  *)
Asked(u, d) ==
    {r \in Slots : /\ req[r] \in Proxied /\ req[r].path = "ai" /\ Doing(r, "proxy")
                   /\ req[r].user = u /\ req[r].day = d}
QuotaInv ==
    \A u \in Users, d \in Days :
        /\ served[u][d] + Cardinality(Asked(u, d)) <= Quota + faults
        /\ served[u][d] + Cardinality(Asked(u, d)) <= used[u][d] + faults

(* Requests with a place in the quota are under way.                      *)
LEMMA AskedIsBusy == RequestsInv => \A u \in Users, d \in Days : Asked(u, d) \subseteq Busy
BY ProxiedHeads DEF Asked, Busy

(* A step of a proxied request keeps the books of the quota: a place in   *)
(* it comes by the counter, within the quota, or by a failure, and is     *)
(* given up for the service.                                              *)
LEMMA QuotaKept ==
    ASSUME TypeInv, QuotaInv, NEW r \in Slots, ProxyStep(r)
    PROVE  QuotaInv'
<1> DEFINE q == req[r]
<1>1. Passes(r) /\ faults' \in {faults, faults + 1}
  BY ProxyStepPasses
<1>2. /\ q \in Proxied /\ q.user \in Users /\ q.day \in Days /\ q.late \in BOOLEAN
      /\ faults \in Nat /\ Quota \in Nat /\ Today \in Days
      /\ used \in [Users -> [Days -> Nat]] /\ served \in [Users -> [Days -> Nat]]
  BY <1>1, ProxiedHeads, TodayIsADay, AdmissionAssumption DEF Passes, TypeInv
<1> SUFFICES ASSUME NEW u \in Users, NEW d \in Days
             PROVE  /\ served'[u][d] + Cardinality(Asked(u, d)') <= Quota + faults'
                    /\ served'[u][d] + Cardinality(Asked(u, d)') <= used'[u][d] + faults'
  BY DEF QuotaInv
<1> DEFINE A == Asked(u, d)  B == Asked(u, d)'
           a == Cardinality(A)  b == Cardinality(B)
           s == served[u][d]  s1 == served'[u][d]  w == used[u][d]  w1 == used'[u][d]
           f == faults  f1 == faults'
<1>3. IsFiniteSet(A) /\ a \in Nat
  BY AskedIsBusy, BusyOnes DEF TypeInv
<1>4. B \subseteq A \cup {r}
  BY <1>1 DEF Passes, Others, Asked, Doing
<1>5. r \notin B => B \subseteq A
  BY <1>4
<1>6. s + a <= Quota + f /\ s + a <= w + f
  BY DEF QuotaInv
<1>7. s \in Nat /\ w \in Nat /\ f \in Nat
  BY <1>2
<1>8. b \in Nat /\ b <= a + 1 /\ (r \notin B => b <= a)
  <2> HIDE DEF A, B
  <2> QED
    BY <1>3, <1>4, <1>5, OneMore, NoMore
<1>9. CASE IsBlacklisted(r) \/ BlacklistFails(r) \/ Count(r) \/ Add(r)
  <2>1. r \notin B
    BY <1>1, <1>9, BlacklistMoves, BlacklistFailMoves, CountMoves, AddMoves, ProxiedHeads DEF Asked, Passes
  <2>2. s1 = s /\ w1 = w /\ f1 \in {f, f + 1}
    BY <1>1, <1>9, BlacklistMoves, BlacklistFailMoves, CountMoves, AddMoves DEF limitVars
  <2> HIDE DEF a, b, s, s1, w, w1, f, f1, B
  <2>3. s1 + b <= Quota + f1 /\ s1 + b <= w1 + f1
    BY <1>2, <1>3, <1>6, <1>7, <1>8, <2>1, <2>2
  <2> QED
    BY <2>3 DEF b, s1, w1, f1, B
<1>10. CASE LimitFails(r) \/ QuotaFails(r)
  <2>1. s1 = s /\ w1 = w /\ f1 = f + 1
    BY <1>10, LimitFailMoves, QuotaFailMoves DEF limitVars
  <2> HIDE DEF a, b, s, s1, w, w1, f, f1, B
  <2>2. s1 + b <= Quota + f1 /\ s1 + b <= w1 + f1
    BY <1>2, <1>3, <1>6, <1>7, <1>8, <2>1
  <2> QED
    BY <2>2 DEF b, s1, w1, f1, B
<1>11. CASE CountQuota(r)
  <2>1. /\ used' = [used EXCEPT ![q.user][Today] = @ + 1] /\ f1 = f
        /\ req'[r] # Idle => used'[q.user][Today] <= Quota /\ req'[r].day = Today
        /\ served' = served
    BY <1>11, CountQuotaMoves
  <2>2. r \in B => u = q.user /\ d = Today /\ w1 <= Quota
    BY <1>1, <2>1, ProxiedHeads DEF Asked, Passes
  <2>3. s1 = s /\ w1 = (IF u = q.user /\ d = Today THEN w + 1 ELSE w)
    BY <1>2, <2>1
  <2> HIDE DEF q, a, b, s, s1, w, w1, f, f1, B
  <2>4. CASE r \in B
    <3>1. s1 + b <= Quota + f1 /\ s1 + b <= w1 + f1
      BY <1>2, <1>3, <1>6, <1>7, <1>8, <2>1, <2>2, <2>3, <2>4
    <3> QED
      BY <3>1 DEF b, s1, w1, f1, B
  <2>5. CASE r \notin B
    <3>1. s1 + b <= Quota + f1 /\ s1 + b <= w1 + f1
      BY <1>2, <1>3, <1>6, <1>7, <1>8, <2>1, <2>3, <2>5
    <3> QED
      BY <3>1 DEF b, s1, w1, f1, B
  <2> QED
    BY <2>4, <2>5
<1>12. CASE Proxy(r)
  <2>1. /\ req'[r] = Idle /\ Doing(r, "proxy") /\ f1 = f /\ used' = used
        /\ served' = IF q.path = "ai" THEN [served EXCEPT ![q.user][q.day] = @ + 1] ELSE served
    BY <1>12, ProxyMoves
  <2>2. r \notin B
    BY <2>1, ProxiedHeads DEF Asked
  <2>3. s1 = (IF q.path = "ai" /\ u = q.user /\ d = q.day THEN s + 1 ELSE s) /\ w1 = w
    BY <1>2, <2>1
  <2>4. q.path = "ai" /\ u = q.user /\ d = q.day => r \in A
    BY <1>2, <2>1 DEF Asked
  <2>5. r \in A => b + 1 <= a
    <3>1. B \subseteq A \ {r}
      BY <1>4, <2>2
    <3> HIDE DEF A, B
    <3> QED
      BY <1>3, <3>1, OneLess
  <2> DEFINE mine == q.path = "ai" /\ u = q.user /\ d = q.day
  <2>6. mine \in BOOLEAN
    OBVIOUS
  <2>7. s1 = (IF mine THEN s + 1 ELSE s) /\ (mine => b + 1 <= a)
    BY <2>3, <2>4, <2>5
  <2> HIDE DEF q, a, b, s, s1, w, w1, f, f1, B, A, mine
  <2>8. s1 + b <= Quota + f1 /\ s1 + b <= w1 + f1
    BY <1>2, <1>3, <1>6, <1>7, <1>8, <2>1, <2>2, <2>3, <2>6, <2>7
  <2> QED
    BY <2>8 DEF b, s1, w1, f1, B
<1> QED
  BY <1>9, <1>10, <1>11, <1>12 DEF ProxyStep

(* A step of no proxied request.                                           *)
AdmissionInv == RevokedInv /\ SecondsInv /\ QuotaInv
(* The books of the admission bear every step that moves no proxied       *)
(* request, and the arrival of one.                                       *)
LEMMA AdmissionCarriedOver ==
    ASSUME TypeInv, TypeInv', AdmissionInv, faults' >= faults, now' \in {now, now + 1},
           \A s \in Slots : req'[s] \in Proxied =>
              \/ req'[s] = req[s]
              \/ /\ Doing(s, "token_blacklist")' /\ ~ Doing(s, "proxy")'
                 /\ req'[s].late => Token("token_blacklist", req'[s].user) \in revoked,
           UNCHANGED <<hits, used, admitted, served, overlaps, escaped>>, revoked \subseteq revoked'
    PROVE  AdmissionInv'
<1>0. faults \in Nat /\ faults' \in Nat /\ escaped \in Nat /\ overlaps \in Nat /\ Quota \in Nat
      /\ used \in [Users -> [Days -> Nat]] /\ served \in [Users -> [Days -> Nat]]
  BY AdmissionAssumption DEF TypeInv
<1>1. Through' \subseteq Through
  BY DEF Through, Late, Doing
<1>2. \A s \in Slots : Late(s)' => Token("token_blacklist", req'[s].user) \in revoked'
  BY DEF Late, AdmissionInv, RevokedInv
<1>3. escaped' + Cardinality(Through') <= faults'
  <2> DEFINE a == Cardinality(Through)  b == Cardinality(Through')  f1 == faults'
  <2>1. a \in Nat /\ b \in Nat /\ b <= a
    BY <1>1, ThroughIsBusy, BusyOnes, NoMore DEF TypeInv
  <2>2. escaped + a <= faults /\ f1 >= faults /\ f1 \in Nat
    BY <1>0 DEF AdmissionInv, RevokedInv
  <2> HIDE DEF a, b, f1
  <2>3. escaped + b <= f1
    BY <1>0, <2>1, <2>2
  <2> QED
    BY <2>3 DEF b, f1
<1>4. SecondsInv'
  <2>1. overlaps' >= overlaps /\ \A u \in Users : \A t \in hits[u] : t \in hits'[u] \/ t <= now - Window
    BY <1>0
  <2> QED
    BY <2>1, SecondsCarriedOver DEF AdmissionInv
<1>5. ASSUME NEW u \in Users, NEW d \in Days
      PROVE  /\ served'[u][d] + Cardinality(Asked(u, d)') <= Quota + faults'
             /\ served'[u][d] + Cardinality(Asked(u, d)') <= used'[u][d] + faults'
  <2> DEFINE A == Asked(u, d)  B == Asked(u, d)'  a == Cardinality(A)  b == Cardinality(B)
             s == served[u][d]  w == used[u][d]  f1 == faults'
  <2>1. B \subseteq A
    BY DEF Asked, Doing
  <2>2. IsFiniteSet(A)
    BY AskedIsBusy, BusyOnes DEF TypeInv
  <2>3. a \in Nat /\ b \in Nat /\ b <= a
    <3> HIDE DEF A, B
    <3> QED
      BY <2>1, <2>2, NoMore
  <2>4. s + a <= Quota + faults /\ s + a <= w + faults
    BY DEF AdmissionInv, QuotaInv
  <2>5. s \in Nat /\ w \in Nat /\ f1 >= faults /\ f1 \in Nat
    BY <1>0
  <2> HIDE DEF a, b, s, w, f1, A, B
  <2>6. s + b <= Quota + f1 /\ s + b <= w + f1
    BY <1>0, <2>3, <2>4, <2>5
  <2> QED
    BY <2>6 DEF s, w, f1, b, B
<1> QED
  BY <1>2, <1>3, <1>4, <1>5 DEF AdmissionInv, RevokedInv, QuotaInv

(* A request of assistance goes on, keeping what it is about.              *)
SameRequest(p, q) == p.user = q.user /\ p.body = q.body /\ p.asks = q.asks
Assists(r) ==
    /\ req[r] \in Assisted /\ Others(r)
    /\ req'[r] = Idle \/ (req'[r] \in Assisted /\ SameRequest(req'[r], req[r]))

(* A request of assistance goes on with the rest of its list.             *)
LEMMA RestOfAssisted ==
    ASSUME NEW q \in Assisted
    PROVE  /\ Rest(q).todo = Tail(q.todo) /\ SameRequest(Rest(q), q)
           /\ Rest(q).live = q.live /\ Rest(q).ok = q.ok
           /\ Tail(q.todo) # <<>> => Rest(q) \in Assisted
<1>1. q \in AIRequest
  BY DEF Assisted
<1>2. Tail(q.todo) # <<>> => Tail(q.todo) \in IF q.asks.writes THEN WriteTodos ELSE ReadTodos
  BY AssistedHeads DEF WriteTodos, ReadTodos
<1> HIDE DEF WriteTodos, ReadTodos
<1> QED
  BY <1>1, <1>2 DEF Assisted, AIRequest, Rest, SameRequest

(* A request of assistance is given another list.                         *)
LEMMA ContinueAssisted ==
    ASSUME NEW q \in Assisted, NEW t, t \in IF q.asks.writes THEN WriteTodos ELSE ReadTodos
    PROVE  /\ Continue(q, t) \in Assisted /\ Continue(q, t).todo = t /\ SameRequest(Continue(q, t), q)
           /\ Continue(q, t).live = q.live /\ Continue(q, t).ok = q.ok
<1>1. q \in AIRequest
  BY DEF Assisted
<1> HIDE DEF WriteTodos, ReadTodos
<1> QED
  BY <1>1 DEF Assisted, AIRequest, Continue, SameRequest

Captures(q) == "settle" \in {q.todo[i] : i \in DOMAIN q.todo}
(* Only a request that found no marker has its answer captured: it        *)
(* marks, asks, or settles.                                               *)
LEMMA CapturedBy ==
    ASSUME NEW q \in Assisted
    PROVE  Captures(q) <=> Head(q.todo) \in {"mark", "settle"} \/ q.todo = <<"ask", "settle">>
<1>1. q.todo \in WriteTodos \cup ReadTodos
  BY DEF Assisted
<1>2. ASSUME q.todo \in {<<"mark", "ask", "settle">>, <<"ask", "settle">>, <<"settle">>}
      PROVE  Captures(q) /\ (Head(q.todo) \in {"mark", "settle"} \/ q.todo = <<"ask", "settle">>)
  <2>1. CASE q.todo = <<"mark", "ask", "settle">>
    <3>1. 3 \in DOMAIN q.todo /\ q.todo[3] = "settle" /\ Head(q.todo) = "mark"
      BY <2>1
    <3> QED
      BY <3>1 DEF Captures
  <2>2. CASE q.todo = <<"ask", "settle">>
    <3>1. 2 \in DOMAIN q.todo /\ q.todo[2] = "settle"
      BY <2>2
    <3> QED
      BY <2>2, <3>1 DEF Captures
  <2>3. CASE q.todo = <<"settle">>
    <3>1. 1 \in DOMAIN q.todo /\ q.todo[1] = "settle" /\ Head(q.todo) = "settle"
      BY <2>3
    <3> QED
      BY <3>1 DEF Captures
  <2> QED
    BY <1>2, <2>1, <2>2, <2>3
<1>3. ASSUME q.todo \notin {<<"mark", "ask", "settle">>, <<"ask", "settle">>, <<"settle">>}
      PROVE  ~ Captures(q) /\ Head(q.todo) \notin {"mark", "settle"} /\ q.todo # <<"ask", "settle">>
  <2>1. CASE q.todo = <<"ai_quota", "dedup", "ask">> \/ q.todo = <<"expire", "dedup", "ask">>
    <3>1. DOMAIN q.todo = 1..3 /\ q.todo[1] # "settle" /\ q.todo[2] # "settle" /\ q.todo[3] # "settle"
      BY <2>1
    <3>2. Head(q.todo) \notin {"mark", "settle"}
      BY <2>1
    <3> QED
      BY <1>3, <3>1, <3>2 DEF Captures
  <2>2. CASE q.todo = <<"dedup", "ask">> \/ q.todo = <<"ai_quota", "ask">> \/ q.todo = <<"expire", "ask">>
    <3>1. DOMAIN q.todo = 1..2 /\ q.todo[1] # "settle" /\ q.todo[2] # "settle"
      BY <2>2
    <3>2. Head(q.todo) \notin {"mark", "settle"}
      BY <2>2
    <3> QED
      BY <1>3, <3>1, <3>2 DEF Captures
  <2>3. CASE q.todo = <<"ask">>
    <3>1. DOMAIN q.todo = 1..1 /\ q.todo[1] # "settle" /\ Head(q.todo) = "ask"
      BY <2>3
    <3> QED
      BY <1>3, <3>1 DEF Captures
  <2> QED
    BY <1>1, <1>3, <2>1, <2>2, <2>3 DEF WriteTodos, ReadTodos
<1> QED
  BY <1>2, <1>3

(* Still at work on its body, as far as others can tell by its marker; and *)
(* still to give an answer that counts, or to give its turn back.          *)
Capturing(r) == req[r] \in Assisted /\ Captures(req[r])
Holding(r) ==
    /\ req[r] \in Assisted /\ req[r].asks.writes
    /\ Doing(r, "ask") \/ (Doing(r, "settle") /\ ~ req[r].ok)

(* An empty slot does nothing.                                            *)
LEMMA IdleDoesNothing ==
    ASSUME NEW r, req[r] = Idle
    PROVE  ~ Capturing(r) /\ ~ Holding(r) /\ \A s : ~ Doing(r, s)
BY AssistedHeads DEF Capturing, Holding, Doing, Idle

(* The model's Captured, by what is left to do, in terms of the request   *)
(* itself.                                                                *)
LEMMA CapturedIsCapturing ==
    ASSUME RequestsInv, NEW r \in Slots
    PROVE  /\ req[r] \in Assisted => (Captured(r) <=> Capturing(r))
           /\ Capturing(r) <=> req[r] # Idle /\ "body" \in DOMAIN req[r] /\ Captured(r)
<1>1. Captured(r) <=> Captures(req[r])
  BY DEF Captured, Captures
<1>2. req[r] \in {Idle} \cup Proxied \cup Assisted
  BY DEF RequestsInv
<1>3. req[r] \in Proxied => "body" \notin DOMAIN req[r]
  BY ProxiedHeads
<1>4. req[r] \in Assisted => "body" \in DOMAIN req[r] /\ req[r] # Idle
  BY AssistedHeads
<1> QED
  BY <1>1, <1>2, <1>3, <1>4 DEF Capturing

(* The quota: nobody else can tell that the request is there.              *)
LEMMA QuotaStepMoves ==
    ASSUME TypeInv, NEW r \in Slots, CountAI(r) \/ SetEnd(r) \/ AIQuotaFails(r)
    PROVE  /\ Assists(r) /\ UNCHANGED <<now, begun, limitVars, marker, works, raced, lapses>>
           /\ faults' \in {faults, faults + 1}
           /\ Doing(r, "ai_quota") \/ Doing(r, "expire")
           /\ ~ Capturing(r) /\ ~ Capturing(r)' /\ ~ Holding(r) /\ ~ Holding(r)'
           /\ req'[r] # Idle => req'[r].live = req[r].live
<1> DEFINE q == req[r]
<1>0. RequestsInv
  BY DEF TypeInv
<1>1. Doing(r, "ai_quota") \/ Doing(r, "expire")
  BY DEF CountAI, SetEnd, AIQuotaFails
<1>2. q \in Assisted /\ Head(q.todo) \in {"ai_quota", "expire"}
  BY <1>0, <1>1, Kinds DEF Doing
<1>3. Tail(q.todo) = (IF q.asks.writes THEN <<"dedup", "ask">> ELSE <<"ask">>) /\ Tail(q.todo) # <<>>
  <2>1. Tail(q.todo) = (IF q.asks.writes THEN <<"dedup", "ask">> ELSE <<"ask">>)
    BY <1>2, AssistedHeads
  <2>2. <<"dedup", "ask">> # <<>> /\ <<"ask">> # <<>>
    BY Lists
  <2> HIDE DEF q
  <2> QED
    BY <2>1, <2>2
<1>4. /\ Rest(q) \in Assisted /\ Rest(q).todo = Tail(q.todo) /\ SameRequest(Rest(q), q)
      /\ Rest(q).live = q.live /\ Rest(q).ok = q.ok
  BY <1>2, <1>3, RestOfAssisted
<1> DEFINE p == Continue(Rest(q), <<"expire">> \o Rest(q).todo)
<1>5. <<"expire">> \o Rest(q).todo = IF q.asks.writes THEN <<"expire", "dedup", "ask">> ELSE <<"expire", "ask">>
  BY <1>3, <1>4, Expires
<1>6. /\ p \in Assisted /\ p.todo = <<"expire">> \o Rest(q).todo /\ SameRequest(p, Rest(q)) /\ p.live = q.live
      /\ p.todo # <<>> /\ Head(p.todo) = "expire"
  <2> DEFINE t == <<"expire">> \o Rest(q).todo
  <2>1. t \in (IF Rest(q).asks.writes THEN WriteTodos ELSE ReadTodos) /\ t # <<>> /\ Head(t) = "expire"
    <3>1. Rest(q).asks = q.asks
      BY <1>4 DEF SameRequest
    <3>2. <<"expire", "dedup", "ask">> # <<>> /\ Head(<<"expire", "dedup", "ask">>) = "expire"
      BY Lists
    <3>3. <<"expire", "ask">> # <<>> /\ Head(<<"expire", "ask">>) = "expire"
      BY Lists
    <3> QED
      BY <1>5, <3>1, <3>2, <3>3 DEF WriteTodos, ReadTodos
  <2> HIDE DEF t, q
  <2> QED
    BY <1>4, <2>1, ContinueAssisted DEF t
<1>7. req'[r] \in {Idle, Rest(q), p} /\ Others(r)
  <2>1. \A x : Then(r, x) => req'[r] = (IF x.todo = <<>> THEN Idle ELSE x) /\ Others(r)
    BY <1>0, ThenMoves
  <2>2. Refuse(r) => req'[r] = Idle /\ Others(r)
    BY <1>0, RefuseMoves
  <2>3. Then(r, p) \/ Then(r, Rest(q)) \/ Refuse(r)
    BY DEF CountAI, SetEnd, AIQuotaFails
  <2> HIDE DEF q, p
  <2> QED
    BY <1>3, <1>4, <1>6, <2>1, <2>2, <2>3
<1>8. SameRequest(p, q)
  BY <1>4, <1>6 DEF SameRequest
<1>9. /\ Rest(q).todo = (IF q.asks.writes THEN <<"dedup", "ask">> ELSE <<"ask">>)
      /\ Head(<<"dedup", "ask">>) = "dedup" /\ Head(<<"ask">>) = "ask"
      /\ <<"dedup", "ask">> # <<"ask", "settle">> /\ <<"ask">> # <<"ask", "settle">>
  BY <1>3, <1>4, Lists
<1>10. /\ ~ Captures(q) /\ ~ Captures(Rest(q)) /\ ~ Captures(p)
  BY <1>2, <1>4, <1>6, <1>9, CapturedBy, Lists, SMTT(30)
<1>11. ~ Holding(r) /\ ~ Holding(r)'
  BY <1>2, <1>4, <1>6, <1>7, <1>8, <1>9, AssistedHeads DEF Holding, Doing, SameRequest
<1>12. UNCHANGED <<now, begun, limitVars, marker, works, raced, lapses>> /\ faults' \in {faults, faults + 1}
  BY DEF CountAI, SetEnd, AIQuotaFails, Works, Fault, assistVars
<1> HIDE DEF p
<1> QED
  BY <1>1, <1>2, <1>4, <1>6, <1>7, <1>8, <1>10, <1>11, <1>12, AssistedHeads DEF Assists, Capturing

(* What the list of a request tells about where it stands.                 *)
LEMMA Looks ==
    ASSUME NEW p \in Assisted
    PROVE  /\ p.todo = <<"ask">> => ~ Captures(p) /\ Head(p.todo) = "ask"
           /\ p.todo = <<"ask", "settle">> => Captures(p) /\ Head(p.todo) = "ask"
           /\ p.todo = <<"settle">> => Captures(p) /\ Head(p.todo) = "settle"
           /\ p.todo = <<"mark", "ask", "settle">> => Captures(p) /\ Head(p.todo) = "mark"
           /\ Head(p.todo) \in {"ai_quota", "expire", "dedup"} => ~ Captures(p)
<1>1. <<"ask">> # <<"ask", "settle">>
  OBVIOUS
<1>2. /\ Head(<<"ask">>) = "ask" /\ Head(<<"ask", "settle">>) = "ask" /\ Head(<<"settle">>) = "settle"
      /\ Head(<<"mark", "ask", "settle">>) = "mark"
  BY Lists
<1>3. Head(p.todo) = "ask" <=> p.todo = <<"ask">> \/ p.todo = <<"ask", "settle">>
  BY <1>2, AssistedHeads
<1> QED
  BY <1>1, <1>2, <1>3, CapturedBy

(* What a request holds and captures, by its next statement.              *)
LEMMA WhereItStands ==
    ASSUME NEW r, req[r] \in Assisted
    PROVE  /\ Holding(r) <=> /\ req[r].asks.writes
                             /\ \/ Head(req[r].todo) = "ask"
                                \/ Head(req[r].todo) = "settle" /\ ~ req[r].ok
           /\ Capturing(r) <=> Captures(req[r])
           /\ \A s : Doing(r, s) <=> Head(req[r].todo) = s
BY AssistedHeads DEF Holding, Capturing, Doing

(* The same after a step.                                                 *)
LEMMA WhereItWillStand ==
    ASSUME NEW r, req'[r] \in Assisted
    PROVE  /\ Holding(r)' <=> /\ req'[r].asks.writes
                              /\ \/ Head(req'[r].todo) = "ask"
                                 \/ Head(req'[r].todo) = "settle" /\ ~ req'[r].ok
           /\ Capturing(r)' <=> Captures(req'[r])
           /\ \A s : Doing(r, s)' <=> Head(req'[r].todo) = s
<1>1. Capturing(r)' <=> req'[r] \in Assisted /\ Captures(req'[r])
  BY DEF Capturing
<1>2. Holding(r)' <=> /\ req'[r] \in Assisted /\ req'[r].asks.writes
                      /\ Doing(r, "ask")' \/ (Doing(r, "settle")' /\ ~ req'[r].ok)
  BY DEF Holding
<1>3. \A s : Doing(r, s)' <=> req'[r].todo # <<>> /\ Head(req'[r].todo) = s
  BY DEF Doing
<1>4. req'[r].todo # <<>>
  BY AssistedHeads
<1> QED
  BY <1>1, <1>2, <1>3, <1>4

(* A slot that is empty after a step does nothing then.                   *)
LEMMA IdleWillDoNothing ==
    ASSUME NEW r, req'[r] = Idle
    PROVE  ~ Capturing(r)' /\ ~ Holding(r)' /\ \A s : ~ Doing(r, s)'
BY AssistedHeads DEF Capturing, Holding, Doing, Idle

(* The toll of a request that holds the work on its body, of a body that   *)
(* is marked, and of a request under way whose caller has gone.            *)
Toll(r) == IF Holding(r) THEN 1 ELSE 0
Marked(m) == IF m = "none" THEN 0 ELSE 1
Orphaned(r) == IF Capturing(r) /\ ~ req[r].live THEN 1 ELSE 0

(* Only a request that asks or settles can have lost its caller.           *)
Attended(r) == req[r] \in Assisted /\ ~ req[r].live => Doing(r, "ask") \/ Doing(r, "settle")
LiveInv == \A r \in Slots : Attended(r)

(* A step of one request of assistance, and what it does to the books: the *)
(* work it stands for passes from the marker and the failures to the       *)
(* request and from the request to the answers; and a marker is left       *)
(* behind only by a request whose caller has gone, or by a failure.        *)
Accounts(r, b) ==
    /\ Assists(r) /\ b = req[r].body
    /\ UNCHANGED <<now, begun, limitVars, lapses>> /\ faults' \in {faults, faults + 1}
    /\ \A c \in Bodies \ {b} : marker'[c] = marker[c] /\ works'[c] = works[c] /\ raced'[c] = raced[c]
    /\ works'[b] + Toll(r)' + Marked(marker[b]) + raced[b] + faults
         <= works[b] + Toll(r) + Marked(marker'[b]) + raced'[b] + faults'
    /\ marker'[b] = "processing" /\ ~ Capturing(r)' => marker[b] = "processing"
    /\ Orphaned(r)' + faults + (IF marker'[b] = "processing" /\ Capturing(r) /\ ~ Capturing(r)' THEN 1 ELSE 0)
         <= Orphaned(r) + faults'
    /\ Attended(r)'

(* The figures of the books are numbers, and a marker is one of three.    *)
LEMMA Numbers ==
    ASSUME TypeInv, NEW b \in Bodies
    PROVE  faults \in Nat /\ works[b] \in Nat /\ raced[b] \in Nat /\ marker[b] \in {"none", "processing", "answer"}
BY DEF TypeInv

(* The statements of the quota touch no marker and no work.               *)
LEMMA QuotaStepAccounts ==
    ASSUME TypeInv, LiveInv, NEW r \in Slots, CountAI(r) \/ SetEnd(r) \/ AIQuotaFails(r)
    PROVE  Accounts(r, req[r].body)
<1> DEFINE b == req[r].body
<1>1. /\ Assists(r) /\ UNCHANGED <<now, begun, limitVars, marker, works, raced, lapses>>
      /\ faults' \in {faults, faults + 1}
      /\ Doing(r, "ai_quota") \/ Doing(r, "expire")
      /\ ~ Capturing(r) /\ ~ Capturing(r)' /\ ~ Holding(r) /\ ~ Holding(r)'
      /\ req'[r] # Idle => req'[r].live = req[r].live
  BY QuotaStepMoves
<1>2. req[r] \in Assisted /\ b \in Bodies
  BY <1>1, AssistedHeads DEF Assists
<1>3. req[r].live
  BY <1>1, <1>2, WhereItStands DEF LiveInv, Attended
<1>4. Attended(r)'
  <2>1. Attended(r)' <=> (req'[r] \in Assisted /\ ~ req'[r].live => Doing(r, "ask")' \/ Doing(r, "settle")')
    BY DEF Attended
  <2> QED
    BY <1>1, <1>3, <2>1, AssistedHeads
<1>5. Toll(r) = 0 /\ Toll(r)' = 0 /\ Orphaned(r) = 0 /\ Orphaned(r)' = 0
  BY <1>1 DEF Toll, Orphaned
<1>6. works'[b] = works[b] /\ marker'[b] = marker[b] /\ raced'[b] = raced[b]
  BY <1>1
<1>7. faults \in Nat /\ works[b] \in Nat /\ raced[b] \in Nat /\ Marked(marker[b]) \in Nat
  BY <1>2, Numbers DEF Marked
<1> DEFINE f == faults  f1 == faults'  w == works[b]  w1 == works'[b]  x == raced[b]  x1 == raced'[b]
           m == Marked(marker[b])  m1 == Marked(marker'[b])  t == Toll(r)  t1 == Toll(r)'
           o == Orphaned(r)  o1 == Orphaned(r)'
<1>8. f1 \in {f, f + 1} /\ m1 = m /\ t = 0 /\ t1 = 0 /\ o = 0 /\ o1 = 0 /\ w1 = w /\ x1 = x
  BY <1>1, <1>5, <1>6
<1>9. w1 + t1 + m + x + f <= w + t + m1 + x1 + f1 /\ o1 + f + 0 <= o + f1
  <2> HIDE DEF f, f1, w, w1, x, x1, m, m1, t, t1, o, o1
  <2> QED
    BY <1>7, <1>8 DEF f, w, x, m
<1>10. \A c \in Bodies \ {b} : marker'[c] = marker[c] /\ works'[c] = works[c] /\ raced'[c] = raced[c]
  BY <1>1
<1> HIDE DEF b
<1> QED
  BY <1>1, <1>4, <1>6, <1>9, <1>10 DEF Accounts, b

(* A request of assistance takes a step on its way, or its last.           *)
LEMMA StepOn ==
    ASSUME RequestsInv, NEW r \in Slots, req[r] \in Assisted,
           NEW p \in Assisted, SameRequest(p, req[r]), Then(r, p)
    PROVE  /\ req'[r] = p /\ Assists(r)
           /\ Holding(r)' <=> p.asks.writes /\ (Head(p.todo) = "ask" \/ (Head(p.todo) = "settle" /\ ~ p.ok))
           /\ Capturing(r)' <=> Captures(p)
           /\ Orphaned(r)' = IF Captures(p) /\ ~ p.live THEN 1 ELSE 0
           /\ Attended(r)' <=> p.live \/ Head(p.todo) \in {"ask", "settle"}
<1>1. req'[r] = p /\ Others(r)
  BY ThenMoves, AssistedHeads
<1>2. Assists(r)
  BY <1>1 DEF Assists
<1>3. /\ Holding(r)' <=> p.asks.writes /\ (Head(p.todo) = "ask" \/ (Head(p.todo) = "settle" /\ ~ p.ok))
      /\ Capturing(r)' <=> Captures(p)
      /\ \A s : Doing(r, s)' <=> Head(p.todo) = s
  <2>1. req'[r] \in Assisted
    BY <1>1
  <2>2. /\ Holding(r)' <=> /\ req'[r].asks.writes
                          /\ \/ Head(req'[r].todo) = "ask"
                             \/ Head(req'[r].todo) = "settle" /\ ~ req'[r].ok
        /\ Capturing(r)' <=> Captures(req'[r])
        /\ \A s : Doing(r, s)' <=> Head(req'[r].todo) = s
    BY <2>1, WhereItWillStand
  <2> QED
    BY <1>1, <2>2
<1>4. Orphaned(r)' = IF Capturing(r)' /\ ~ req'[r].live THEN 1 ELSE 0
  BY DEF Orphaned
<1>5. Attended(r)' <=> (req'[r] \in Assisted /\ ~ req'[r].live => Doing(r, "ask")' \/ Doing(r, "settle")')
  BY DEF Attended
<1> QED
  BY <1>1, <1>2, <1>3, <1>4, <1>5

(* A request of assistance that is over.                                  *)
LEMMA StepOut ==
    ASSUME RequestsInv, NEW r \in Slots, req[r] \in Assisted, NEW p, p.todo = <<>>, Refuse(r) \/ Then(r, p)
    PROVE  /\ req'[r] = Idle /\ Assists(r) /\ ~ Holding(r)' /\ ~ Capturing(r)' /\ Attended(r)'
           /\ Orphaned(r)' = 0
<1>1. req'[r] = Idle /\ Others(r)
  BY RefuseMoves, ThenMoves
<1>2. Assists(r) /\ ~ Holding(r)' /\ ~ Capturing(r)'
  BY <1>1, IdleWillDoNothing DEF Assists
<1>3. Attended(r)' <=> (req'[r] \in Assisted /\ ~ req'[r].live => Doing(r, "ask")' \/ Doing(r, "settle")')
  BY DEF Attended
<1>4. Orphaned(r)' = IF Capturing(r)' /\ ~ req'[r].live THEN 1 ELSE 0
  BY DEF Orphaned
<1> QED
  BY <1>1, <1>2, <1>3, <1>4, AssistedHeads

(* Where a request stands before its step.                                 *)
LEMMA StandsNow ==
    ASSUME TypeInv, LiveInv, NEW r \in Slots, NEW s \in {"dedup", "mark", "ask", "settle"}, Doing(r, s)
    PROVE  /\ req[r] \in Assisted /\ req[r].body \in Bodies /\ Head(req[r].todo) = s
           /\ s = "ask" \/ req[r].asks.writes
           /\ s \in {"dedup", "mark"} => req[r].live
           /\ Holding(r) <=> req[r].asks.writes /\ (s = "ask" \/ (s = "settle" /\ ~ req[r].ok))
           /\ Capturing(r) <=> s \in {"mark", "settle"} \/ req[r].todo = <<"ask", "settle">>
           /\ Orphaned(r) = IF Capturing(r) /\ ~ req[r].live THEN 1 ELSE 0
<1>1. req[r] \in Assisted /\ Head(req[r].todo) = s
  BY Kinds DEF Doing, TypeInv
<1>2. \A x : Doing(r, x) <=> x = s
  BY <1>1, WhereItStands
<1>3. Orphaned(r) = IF Capturing(r) /\ ~ req[r].live THEN 1 ELSE 0
  BY DEF Orphaned
<1>4. <<"ask">> # <<"ask", "settle">> /\ Head(<<"ask", "settle">>) = "ask"
  BY Lists
<1>5. /\ Holding(r) <=> req[r].asks.writes /\ (s = "ask" \/ (s = "settle" /\ ~ req[r].ok))
      /\ Capturing(r) <=> Captures(req[r])
  BY <1>1, WhereItStands
<1>6. req[r].body \in Bodies /\ (s = "ask" \/ req[r].asks.writes)
  BY <1>1, AssistedHeads
<1>7. s \in {"dedup", "mark"} => req[r].live
  BY <1>1, <1>2 DEF LiveInv, Attended
<1>8. Captures(req[r]) <=> s \in {"mark", "settle"} \/ req[r].todo = <<"ask", "settle">>
  BY <1>1, CapturedBy
<1> QED
  BY <1>1, <1>3, <1>5, <1>6, <1>7, <1>8

(* The books of a step, figure by figure.                                  *)
LEMMA Balanced ==
    ASSUME TypeInv, NEW r \in Slots, NEW b \in Bodies, b = req[r].body, Assists(r), Attended(r)',
           UNCHANGED <<now, begun, limitVars, lapses>>,
           \A c \in Bodies \ {b} : marker'[c] = marker[c] /\ works'[c] = works[c] /\ raced'[c] = raced[c],
           NEW df \in {0, 1}, NEW dw \in {0, 1}, NEW dx \in {0, 1},
           faults' = faults + df, works'[b] = works[b] + dw, raced'[b] = raced[b] + dx,
           dw + Toll(r)' + Marked(marker[b]) <= Toll(r) + Marked(marker'[b]) + dx + df,
           marker'[b] = "processing" /\ ~ Capturing(r)' => marker[b] = "processing",
           Orphaned(r)' + (IF marker'[b] = "processing" /\ Capturing(r) /\ ~ Capturing(r)' THEN 1 ELSE 0)
              <= Orphaned(r) + df
    PROVE  Accounts(r, b)
<1> DEFINE f == faults  f1 == faults'  w == works[b]  w1 == works'[b]  x == raced[b]  x1 == raced'[b]
           m == Marked(marker[b])  m1 == Marked(marker'[b])  t == Toll(r)  t1 == Toll(r)'
           o == Orphaned(r)  o1 == Orphaned(r)'
           d == IF marker'[b] = "processing" /\ Capturing(r) /\ ~ Capturing(r)' THEN 1 ELSE 0
<1>1. f \in Nat /\ w \in Nat /\ x \in Nat
  BY Numbers
<1>2. m \in {0, 1} /\ m1 \in {0, 1} /\ t \in {0, 1} /\ t1 \in {0, 1} /\ o \in {0, 1} /\ o1 \in {0, 1} /\ d \in {0, 1}
  BY DEF Marked, Toll, Orphaned
<1>3. f1 = f + df /\ w1 = w + dw /\ x1 = x + dx /\ dw + t1 + m <= t + m1 + dx + df /\ o1 + d <= o + df
  OBVIOUS
<1>4. w1 + t1 + m + x + f <= w + t + m1 + x1 + f1 /\ o1 + f + d <= o + f1 /\ f1 \in {f, f + 1}
  <2> HIDE DEF f, f1, w, w1, x, x1, m, m1, t, t1, o, o1, d
  <2> QED
    BY <1>1, <1>2, <1>3
<1> QED
  BY <1>4 DEF Accounts

(* The lookup holds nothing yet when it finds no marker; when it fails    *)
(* the request goes on to the work at the price of a failure.             *)
LEMMA LookupAccounts ==
    ASSUME TypeInv, LiveInv, NEW r \in Slots, Lookup(r) \/ LookupFails(r)
    PROVE  Accounts(r, req[r].body) /\ UNCHANGED assistVars
<1> DEFINE q == req[r]  b == q.body  p == Continue(q, <<"mark", "ask", "settle">>)
<1>0. RequestsInv
  BY DEF TypeInv
<1>1. Doing(r, "dedup") /\ UNCHANGED assistVars /\ UNCHANGED <<now, begun, limitVars>>
  BY DEF Lookup, LookupFails, Works, Fault
<1>2. /\ q \in Assisted /\ b \in Bodies /\ Head(q.todo) = "dedup" /\ q.asks.writes /\ q.live
      /\ ~ Holding(r) /\ ~ Capturing(r) /\ Orphaned(r) = 0
  <2>1. <<"ask", "settle">> # <<>> /\ Head(<<"ask", "settle">>) = "ask"
    BY Lists
  <2> QED
    BY <1>1, <2>1, StandsNow
<1>3. /\ p \in Assisted /\ p.todo = <<"mark", "ask", "settle">> /\ SameRequest(p, q) /\ p.live
  <2>1. <<"mark", "ask", "settle">> \in IF q.asks.writes THEN WriteTodos ELSE ReadTodos
    BY <1>2 DEF WriteTodos
  <2> QED
    BY <1>2, <2>1, ContinueAssisted
<1>4. /\ Rest(q) \in Assisted /\ Rest(q).todo = <<"ask">> /\ SameRequest(Rest(q), q) /\ Rest(q).live
  <2>1. <<"ask">> # <<>> /\ Tail(q.todo) = <<"ask">>
    BY <1>2, AssistedHeads, Lists
  <2> QED
    BY <1>2, <2>1, RestOfAssisted
<1>5. Toll(r) = 0 /\ marker' = marker /\ works' = works /\ raced' = raced /\ lapses' = lapses
  BY <1>1, <1>2 DEF Toll, assistVars
<1>6. works[b] \in Nat /\ raced[b] \in Nat /\ faults \in Nat /\ Marked(marker[b]) \in {0, 1}
  BY <1>2, Numbers DEF Marked
<1>7. CASE Lookup(r)
  <2>1. /\ Assists(r) /\ Attended(r)' /\ ~ Holding(r)' /\ Orphaned(r)' = 0 
    <3>1. Then(r, p) \/ Refuse(r)
      BY <1>7 DEF Lookup, RequestHash
    <3>2. CASE Then(r, p)
      <4> HIDE DEF p
      <4>1. Head(p.todo) = "mark"
        BY <1>3, Looks
      <4> QED
        BY <1>0, <1>2, <1>3, <3>2, <4>1, StepOn
    <3>3. CASE Refuse(r)
      BY <1>0, <1>2, <3>3, StepOut DEF Idle
    <3> QED
      BY <3>1, <3>2, <3>3
  <2>2. faults' = faults + 0 /\ works'[b] = works[b] + 0 /\ raced'[b] = raced[b] + 0 /\ Toll(r)' = 0
    BY <1>5, <1>6, <1>7, <2>1 DEF Lookup, Works, Toll
  <2>3. /\ 0 + Toll(r)' + Marked(marker[b]) <= Toll(r) + Marked(marker'[b]) + 0 + 0
        /\ Orphaned(r)' + (IF marker'[b] = "processing" /\ Capturing(r) /\ ~ Capturing(r)' THEN 1 ELSE 0)
              <= Orphaned(r) + 0
    BY <1>2, <1>5, <1>6, <2>1, <2>2
  <2> QED
    BY <1>1, <1>2, <1>5, <2>1, <2>2, <2>3, Balanced
<1>8. CASE LookupFails(r)
  <2>1. Then(r, Rest(q)) /\ faults' = faults + 1
    BY <1>8 DEF LookupFails, Fault
  <2>2. Assists(r) /\ Attended(r)' /\ Orphaned(r)' = 0
    <3> DEFINE p1 == Rest(q)
    <3>1. ~ Captures(p1) /\ p1 \in Assisted /\ SameRequest(p1, q) /\ p1.live /\ Then(r, p1)
      BY <1>4, <2>1, Looks
    <3> HIDE DEF p1
    <3> QED
      BY <1>0, <1>2, <3>1, StepOn
  <2>3. works'[b] = works[b] + 0 /\ raced'[b] = raced[b] + 0 /\ Toll(r)' \in {0, 1}
    BY <1>5, <1>6 DEF Toll
  <2>4. /\ 0 + Toll(r)' + Marked(marker[b]) <= Toll(r) + Marked(marker'[b]) + 0 + 1
        /\ Orphaned(r)' + (IF marker'[b] = "processing" /\ Capturing(r) /\ ~ Capturing(r)' THEN 1 ELSE 0)
              <= Orphaned(r) + 1
    BY <1>2, <1>5, <1>6, <2>2, <2>3
  <2> QED
    BY <1>1, <1>2, <1>5, <2>1, <2>2, <2>3, <2>4, Balanced
<1> QED
  BY <1>1, <1>7, <1>8

(* Setting the marker takes the work upon the request: free of charge     *)
(* for a body nobody has marked, else counted as a race.                  *)
LEMMA MarkAccounts ==
    ASSUME TypeInv, LiveInv, NEW r \in Slots, Mark(r) \/ MarkFails(r)
    PROVE  Accounts(r, req[r].body) /\ UNCHANGED <<count, until, works, lapses>>
<1> DEFINE q == req[r]  b == q.body  p == Rest(q)
<1>0. RequestsInv
  BY DEF TypeInv
<1>1. /\ Doing(r, "mark") /\ UNCHANGED <<count, until, works, lapses>> /\ UNCHANGED <<now, begun, limitVars>>
      /\ Then(r, p)
  BY DEF Mark, MarkFails, Works, Fault, assistVars
<1>2. /\ q \in Assisted /\ b \in Bodies /\ Head(q.todo) = "mark" /\ q.asks.writes /\ q.live
      /\ ~ Holding(r) /\ Capturing(r) /\ Orphaned(r) = 0
  BY <1>1, StandsNow
<1>3. /\ p \in Assisted /\ p.todo = <<"ask", "settle">> /\ SameRequest(p, q) /\ p.live
  <2>1. <<"ask", "settle">> # <<>> /\ Tail(q.todo) = <<"ask", "settle">>
    BY <1>2, AssistedHeads, Lists
  <2> QED
    BY <1>2, <2>1, RestOfAssisted
<1>4. Assists(r) /\ Attended(r)' /\ Capturing(r)' /\ Orphaned(r)' = 0
  <2>1. Captures(p)
    BY <1>3, Looks
  <2> HIDE DEF p
  <2> QED
    BY <1>0, <1>1, <1>2, <1>3, <2>1, StepOn
<1>5. /\ works[b] \in Nat /\ raced[b] \in Nat /\ faults \in Nat /\ Marked(marker[b]) \in {0, 1}
      /\ Toll(r) = 0 /\ Toll(r)' \in {0, 1}
  BY <1>2, Numbers DEF Marked, Toll
<1>6. Orphaned(r)' + (IF marker'[b] = "processing" /\ Capturing(r) /\ ~ Capturing(r)' THEN 1 ELSE 0) = 0
  BY <1>4
<1>7. CASE Mark(r)
  <2> DEFINE dx == IF marker[b] = "none" THEN 0 ELSE 1
  <2>1. /\ marker' = [marker EXCEPT ![b] = "processing"] /\ faults' = faults
        /\ raced' = [raced EXCEPT ![b] = @ + dx]
    BY <1>7 DEF Mark, RequestHash, Works
  <2>2. /\ marker \in [Bodies -> {"none", "processing", "answer"}] /\ raced \in [Bodies -> Nat]
    BY DEF TypeInv
  <2>3. /\ \A c \in Bodies \ {b} : marker'[c] = marker[c] /\ works'[c] = works[c] /\ raced'[c] = raced[c]
        /\ marker'[b] = "processing" /\ raced'[b] = raced[b] + dx
    <3> HIDE DEF q, b, dx
    <3> QED
      BY <1>1, <1>2, <2>1, <2>2
  <2>4. faults' = faults + 0 /\ works'[b] = works[b] + 0 /\ dx \in {0, 1} /\ Marked(marker'[b]) = 1
        /\ Marked(marker[b]) = dx
    BY <1>1, <1>5, <2>1, <2>3 DEF Marked
  <2>5. /\ 0 + Toll(r)' + Marked(marker[b]) <= Toll(r) + Marked(marker'[b]) + dx + 0
        /\ Orphaned(r)' + (IF marker'[b] = "processing" /\ Capturing(r) /\ ~ Capturing(r)' THEN 1 ELSE 0)
              <= Orphaned(r) + 0
    <3> DEFINE t == Toll(r)  t1 == Toll(r)'  m == Marked(marker[b])  m1 == Marked(marker'[b])
    <3>1. t = 0 /\ t1 \in {0, 1} /\ m = dx /\ m1 = 1 /\ dx \in {0, 1}
      BY <1>5, <2>4
    <3>2. 0 + t1 + m <= t + m1 + dx + 0
      <4> HIDE DEF t, t1, m, m1, dx
      <4> QED
        BY <3>1
    <3> QED
      BY <1>2, <1>6, <3>2
  <2> HIDE DEF dx
  <2> QED
    BY <1>1, <1>2, <1>4, <2>3, <2>4, <2>5, Balanced
<1>8. CASE MarkFails(r)
  <2>1. faults' = faults + 1 /\ marker' = marker /\ raced' = raced
    BY <1>8 DEF MarkFails, Fault, assistVars
  <2>2. works'[b] = works[b] + 0 /\ raced'[b] = raced[b] + 0
    BY <1>1, <1>5, <2>1
  <2>3. /\ 0 + Toll(r)' + Marked(marker[b]) <= Toll(r) + Marked(marker'[b]) + 0 + 1
        /\ Orphaned(r)' + (IF marker'[b] = "processing" /\ Capturing(r) /\ ~ Capturing(r)' THEN 1 ELSE 0)
              <= Orphaned(r) + 1
    BY <1>2, <1>5, <1>6, <2>1
  <2> QED
    BY <1>1, <1>2, <1>4, <2>1, <2>2, <2>3, Balanced
<1> QED
  BY <1>1, <1>7, <1>8

(* Settling keeps the marker for an answer given, gives the turn back     *)
(* for a failure; a settlement that fails leaves the marker behind, paid  *)
(* by a failure or by the caller who had gone.                            *)
LEMMA SettleAccounts ==
    ASSUME TypeInv, LiveInv, NEW r \in Slots, Settle(r) \/ SettleFails(r)
    PROVE  Accounts(r, req[r].body) /\ UNCHANGED <<count, until, works, raced, lapses>>
<1> DEFINE q == req[r]  b == q.body
<1>0. RequestsInv
  BY DEF TypeInv
<1>1. /\ Doing(r, "settle") /\ UNCHANGED <<count, until, works, raced, lapses>>
      /\ UNCHANGED <<now, begun, limitVars>> /\ Then(r, Rest(q))
  BY DEF Settle, SettleFails, NoAnswer, Works, Fault, assistVars
<1>2. /\ q \in Assisted /\ b \in Bodies /\ Head(q.todo) = "settle" /\ q.asks.writes
      /\ Holding(r) <=> ~ q.ok
      /\ Capturing(r) /\ Orphaned(r) = IF ~ q.live THEN 1 ELSE 0
  BY <1>1, StandsNow
<1>3. /\ Assists(r) /\ ~ Holding(r)' /\ ~ Capturing(r)' /\ Attended(r)' /\ Orphaned(r)' = 0
  <2>1. Rest(q).todo = <<>>
    BY <1>2, AssistedHeads, RestOfAssisted, ZenonT(30)
  <2> QED
    BY <1>0, <1>1, <1>2, <2>1, StepOut
<1>4. /\ works[b] \in Nat /\ raced[b] \in Nat /\ faults \in Nat /\ Marked(marker[b]) \in {0, 1}
      /\ Toll(r) = (IF q.ok THEN 0 ELSE 1) /\ Toll(r)' = 0
  BY <1>2, <1>3, Numbers DEF Marked, Toll
<1>5. works'[b] = works[b] + 0 /\ raced'[b] = raced[b] + 0
  BY <1>1, <1>4
<1>6. CASE Settle(r)
  <2>1. /\ marker' = [marker EXCEPT ![b] = IF q.ok THEN "answer" ELSE "none"] /\ faults' = faults /\ q.live
    BY <1>6 DEF Settle, RequestHash, Works
  <2>2. marker \in [Bodies -> {"none", "processing", "answer"}]
    BY DEF TypeInv
  <2>3. /\ \A c \in Bodies \ {b} : marker'[c] = marker[c]
        /\ marker'[b] = IF q.ok THEN "answer" ELSE "none"
    <3> HIDE DEF q, b
    <3> QED
      BY <1>2, <2>1, <2>2
  <2>4. faults' = faults + 0 /\ marker'[b] # "processing" /\ Marked(marker'[b]) = (IF q.ok THEN 1 ELSE 0)
    BY <1>4, <2>1, <2>3 DEF Marked
  <2>5. /\ 0 + Toll(r)' + Marked(marker[b]) <= Toll(r) + Marked(marker'[b]) + 0 + 0
        /\ Orphaned(r)' + (IF marker'[b] = "processing" /\ Capturing(r) /\ ~ Capturing(r)' THEN 1 ELSE 0)
              <= Orphaned(r) + 0
    <3>1. CASE q.ok
      BY <1>2, <1>3, <1>4, <2>4, <3>1
    <3>2. CASE ~ q.ok
      BY <1>2, <1>3, <1>4, <2>4, <3>2
    <3> QED
      BY <3>1, <3>2
  <2>6. \A c \in Bodies \ {b} : marker'[c] = marker[c] /\ works'[c] = works[c] /\ raced'[c] = raced[c]
    BY <1>1, <2>3
  <2> QED
    BY <1>1, <1>2, <1>3, <1>5, <2>4, <2>5, <2>6, Balanced
<1>7. CASE SettleFails(r)
  <2> DEFINE df == IF q.live THEN 1 ELSE 0
  <2>1. faults' = faults + df /\ marker' = marker /\ df \in {0, 1}
    BY <1>4, <1>7 DEF SettleFails, NoAnswer, Fault, Works, assistVars
  <2>2. /\ 0 + Toll(r)' + Marked(marker[b]) <= Toll(r) + Marked(marker'[b]) + 0 + df
        /\ Orphaned(r)' + (IF marker'[b] = "processing" /\ Capturing(r) /\ ~ Capturing(r)' THEN 1 ELSE 0)
              <= Orphaned(r) + df
    <3>1. Toll(r) \in {0, 1}
      BY <1>4
    <3> QED
      BY <1>2, <1>3, <1>4, <2>1, <3>1
  <2>3. \A c \in Bodies \ {b} : marker'[c] = marker[c] /\ works'[c] = works[c] /\ raced'[c] = raced[c]
    BY <1>1, <2>1
  <2>4. marker'[b] = "processing" => marker[b] = "processing"
    BY <2>1
  <2> HIDE DEF df
  <2> QED
    BY <1>1, <1>2, <1>3, <1>5, <2>1, <2>2, <2>3, <2>4, Balanced
<1> QED
  BY <1>1, <1>6, <1>7

(* The end of a question to the AI service: the request that captured its  *)
(* answer has it to settle, any other is done; or it asks again.           *)
Alike(x, q) == x \in Assisted /\ x.todo = q.todo /\ SameRequest(x, q) /\ x.live = q.live /\ x.ok = q.ok

(* The answer, kept or not, of a request that has been asked for.         *)
LEMMA AskEnds ==
    ASSUME TypeInv, LiveInv, NEW r \in Slots, Doing(r, "ask"), NEW v \in BOOLEAN,
           NEW q, Alike(q, req[r]), Then(r, [Rest(q) EXCEPT !.ok = v])
    PROVE  /\ Assists(r) /\ Attended(r)' /\ Orphaned(r)' = Orphaned(r)
           /\ Capturing(r)' <=> Capturing(r)
           /\ Holding(r)' <=> Capturing(r) /\ ~ v
<1> DEFINE p == [Rest(q) EXCEPT !.ok = v]
<1>0. RequestsInv
  BY DEF TypeInv
<1>1. /\ req[r] \in Assisted /\ q \in Assisted /\ Head(q.todo) = "ask" /\ SameRequest(q, req[r])
      /\ Capturing(r) <=> q.todo = <<"ask", "settle">>
      /\ Orphaned(r) = IF Capturing(r) /\ ~ q.live THEN 1 ELSE 0
  BY StandsNow DEF Alike
<1>2. q \in AIRequest
  BY <1>1 DEF Assisted
<1>3. /\ Rest(q) = [q EXCEPT !.todo = Tail(q.todo)] /\ p = [q EXCEPT !.todo = Tail(q.todo), !.ok = v]
  BY <1>2 DEF AIRequest, Rest
<1>4. CASE q.todo = <<"ask", "settle">>
  <2>1. q.asks.writes /\ Tail(q.todo) = <<"settle">> /\ <<"settle">> \in WriteTodos
    <3>1. <<"ask", "settle">> # <<"ask">> /\ <<"settle">> \in WriteTodos
      BY Lists DEF WriteTodos
    <3> QED
      BY <1>1, <1>4, <3>1, AssistedHeads
  <2>2. p \in Assisted /\ p.todo = <<"settle">> /\ SameRequest(p, req[r]) /\ p.live = q.live /\ p.ok = v
    <3> HIDE DEF p
    <3> QED
      BY <1>1, <1>2, <1>3, <2>1 DEF Assisted, AIRequest, SameRequest
  <2>3. Captures(p) /\ Head(p.todo) = "settle" /\ p.asks.writes
    <3>1. p.asks = q.asks
      BY <1>1, <2>2 DEF SameRequest
    <3> HIDE DEF p
    <3> QED
      BY <2>1, <2>2, <3>1, Looks
  <2>4. Then(r, p)
    OBVIOUS
  <2> HIDE DEF p
  <2> QED
    BY <1>0, <1>1, <1>4, <2>2, <2>3, <2>4, StepOn
<1>5. CASE q.todo # <<"ask", "settle">>
  <2>1. Tail(q.todo) = <<>>
    BY <1>1, <1>5, AssistedHeads
  <2>2. p.todo = <<>>
    <3> HIDE DEF p
    <3> QED
      BY <1>2, <1>3, <2>1 DEF AIRequest
  <2>3. Then(r, p)
    OBVIOUS
  <2> HIDE DEF p
  <2> QED
    BY <1>0, <1>1, <1>5, <2>2, <2>3, StepOut
<1> QED
  BY <1>4, <1>5

(* The end of a question without an answer.                               *)
LEMMA AskEndsAsItIs ==
    ASSUME TypeInv, LiveInv, NEW r \in Slots, Doing(r, "ask"), NEW q, Alike(q, req[r]), Then(r, Rest(q))
    PROVE  /\ Assists(r) /\ Attended(r)' /\ Orphaned(r)' = Orphaned(r)
           /\ Capturing(r)' <=> Capturing(r)
           /\ Holding(r)' => Holding(r)
<1>1. /\ req[r] \in Assisted /\ (Holding(r) <=> req[r].asks.writes)
      /\ Capturing(r) <=> req[r].todo = <<"ask", "settle">>
  BY StandsNow
<1>2. q \in AIRequest /\ q.ok \in BOOLEAN
  BY DEF Assisted, AIRequest, Alike
<1>3. [Rest(q) EXCEPT !.ok = q.ok] = Rest(q)
  BY <1>2 DEF AIRequest, Rest
<1>4. Capturing(r) => req[r].asks.writes
  <2>1. <<"ask", "settle">> # <<"ask">> /\ Head(<<"ask", "settle">>) = "ask"
    BY Lists
  <2> QED
    BY <1>1, <2>1, AssistedHeads
<1> QED
  BY <1>1, <1>2, <1>3, <1>4, AskEnds

(* doRequest asks again, or gives up.                                     *)
LEMMA AsksAgain ==
    ASSUME TypeInv, LiveInv, NEW r \in Slots, Doing(r, "ask"), TryAgain(r)
    PROVE  /\ Assists(r) /\ Attended(r)' /\ Orphaned(r)' = Orphaned(r)
           /\ Capturing(r)' <=> Capturing(r)
           /\ Holding(r)' => Holding(r)
<1> DEFINE q == [req[r] EXCEPT !.tries = @ + 1]
<1>0. RequestsInv
  BY DEF TypeInv
<1>1. /\ req[r] \in Assisted /\ Head(req[r].todo) = "ask" /\ (Holding(r) <=> req[r].asks.writes)
      /\ Capturing(r) <=> req[r].todo = <<"ask", "settle">>
      /\ Orphaned(r) = IF Capturing(r) /\ ~ req[r].live THEN 1 ELSE 0
  BY StandsNow
<1>2. Alike(q, req[r])
  <2>1. req[r] \in AIRequest
    BY <1>1 DEF Assisted
  <2> HIDE DEF WriteTodos, ReadTodos
  <2> QED
    BY <1>1, <2>1 DEF Assisted, AIRequest, SameRequest, Alike
<1>3. Then(r, Rest(q)) \/ Then(r, q)
  <2>1. ASSUME q.tries < Tries PROVE Then(r, q)
    BY <2>1 DEF TryAgain, Then
  <2>2. ASSUME ~ (q.tries < Tries) PROVE Then(r, Rest(q))
    BY <2>2 DEF TryAgain, Then
  <2> QED
    BY <2>1, <2>2
<1> HIDE DEF q
<1>4. CASE Then(r, Rest(q))
  BY <1>2, <1>4, AskEndsAsItIs
<1>5. CASE Then(r, q)
  <2>1. Captures(q) <=> q.todo = <<"ask", "settle">>
    BY <1>1, <1>2, CapturedBy DEF Alike
  <2> QED
    BY <1>0, <1>1, <1>2, <1>5, <2>1, StepOn DEF Alike, SameRequest
<1> QED
  BY <1>3, <1>4, <1>5

(* A request is like itself.                                              *)
LEMMA AsItIs ==
    ASSUME NEW q \in Assisted
    PROVE  Alike(q, q)
BY DEF Alike, SameRequest

(* The questions to the service: an answer given is what its request      *)
(* held; one that could not be kept is counted as a race and one lost as  *)
(* a failure, and then the request holds on to the work.                  *)
LEMMA AskAccounts ==
    ASSUME TypeInv, LiveInv, NEW r \in Slots,
           BadRequest(r) \/ Answered(r) \/ Declined(r) \/ ServerError(r) \/ AnswerLost(r) \/ Leave(r)
    PROVE  Accounts(r, req[r].body) /\ UNCHANGED <<count, until, marker, lapses>>
<1> DEFINE q == req[r]  b == q.body
<1>1. /\ UNCHANGED <<count, until, marker, lapses>> /\ UNCHANGED <<now, begun, limitVars>>
      /\ Doing(r, "ask") \/ Doing(r, "settle")
  BY DEF BadRequest, Answered, Declined, ServerError, AnswerLost, Leave, Asks, Works, Fault, assistVars
<1>2. q \in Assisted /\ b \in Bodies
  BY <1>1, StandsNow
<1>3. /\ works[b] \in Nat /\ raced[b] \in Nat /\ faults \in Nat /\ Marked(marker[b]) \in {0, 1}
      /\ Toll(r) \in {0, 1} /\ Orphaned(r) \in {0, 1}
      /\ works \in [Bodies -> Nat] /\ raced \in [Bodies -> Nat]
  BY <1>2, Numbers DEF Marked, Toll, Orphaned, TypeInv
<1>4. (Holding(r)' => Holding(r)) => Toll(r)' <= Toll(r) /\ Toll(r)' \in {0, 1}
  BY DEF Toll
<1>5. CASE BadRequest(r) \/ Declined(r) \/ ServerError(r)
  <2>1. Then(r, Rest(q)) \/ TryAgain(r)
    BY <1>5 DEF BadRequest, Declined, ServerError
  <2>2. Doing(r, "ask") /\ works' = works /\ raced' = raced /\ faults' = faults
    BY <1>5 DEF BadRequest, Declined, ServerError, Asks, Works, assistVars
  <2>3. /\ Assists(r) /\ Attended(r)' /\ Orphaned(r)' = Orphaned(r)
        /\ Capturing(r)' <=> Capturing(r)
        /\ Holding(r)' => Holding(r)
    <3>1. CASE Then(r, Rest(q))
      BY <1>2, <2>2, <3>1, AskEndsAsItIs, AsItIs
    <3>2. CASE TryAgain(r)
      BY <2>2, <3>2, AsksAgain
    <3> QED
      BY <2>1, <3>1, <3>2
  <2>4. faults' = faults + 0 /\ works'[b] = works[b] + 0 /\ raced'[b] = raced[b] + 0 
    BY <1>3, <2>2
  <2>5. /\ 0 + Toll(r)' + Marked(marker[b]) <= Toll(r) + Marked(marker'[b]) + 0 + 0
        /\ Orphaned(r)' + (IF marker'[b] = "processing" /\ Capturing(r) /\ ~ Capturing(r)' THEN 1 ELSE 0)
              <= Orphaned(r) + 0
    BY <1>1, <1>3, <1>4, <2>3
  <2> QED
    BY <1>1, <1>2, <2>2, <2>3, <2>4, <2>5, Balanced
<1>6. CASE AnswerLost(r)
  <2> DEFINE dw == IF q.asks.writes THEN 1 ELSE 0
  <2>1. TryAgain(r) /\ Doing(r, "ask") /\ raced' = raced /\ faults' = faults + 1
        /\ works' = [works EXCEPT ![b] = @ + dw]
    BY <1>6 DEF AnswerLost, Asks, Fault, Worked
  <2>2. /\ Assists(r) /\ Attended(r)' /\ Orphaned(r)' = Orphaned(r)
        /\ Capturing(r)' <=> Capturing(r)
        /\ Holding(r)' => Holding(r)
    BY <2>1, AsksAgain
  <2>3. dw \in {0, 1}
    OBVIOUS
  <2>4. works'[b] = works[b] + dw /\ raced'[b] = raced[b] + 0
        /\ \A c \in Bodies \ {b} : works'[c] = works[c]
    <3> HIDE DEF q, b, dw
    <3> QED
      BY <1>2, <1>3, <2>1
  <2>5. /\ dw + Toll(r)' + Marked(marker[b]) <= Toll(r) + Marked(marker'[b]) + 0 + 1
        /\ Orphaned(r)' + (IF marker'[b] = "processing" /\ Capturing(r) /\ ~ Capturing(r)' THEN 1 ELSE 0)
              <= Orphaned(r) + 1
    <3> HIDE DEF dw
    <3> QED
      BY <1>1, <1>3, <1>4, <2>2, <2>3
  <2>6. \A c \in Bodies \ {b} : marker'[c] = marker[c] /\ works'[c] = works[c] /\ raced'[c] = raced[c]
    BY <1>1, <2>1, <2>4
  <2> HIDE DEF dw
  <2> QED
    BY <1>1, <1>2, <2>1, <2>2, <2>3, <2>4, <2>5, <2>6, Balanced
<1>7. CASE Answered(r)
  <2> DEFINE dw == IF q.asks.writes THEN 1 ELSE 0  dx == IF Unwritable(r) THEN 1 ELSE 0
  <2>1. /\ Doing(r, "ask") /\ faults' = faults
        /\ works' = [works EXCEPT ![b] = @ + dw] /\ raced' = [raced EXCEPT ![b] = @ + dx]
        /\ Then(r, [Rest(q) EXCEPT !.ok = ~ Unwritable(r)])
    BY <1>7 DEF Answered, Asks, Works, Worked
  <2>2. Unwritable(r) \in BOOLEAN /\ (~ Unwritable(r)) \in BOOLEAN
    <3>1. Unwritable(r) <=> (q.asks.streamed /\ Captured(r))
      BY DEF Unwritable
    <3>2. q.asks.streamed \in BOOLEAN
      BY <1>2, AssistedHeads
    <3> QED
      BY <3>2 DEF Unwritable
  <2>3. /\ Assists(r) /\ Attended(r)' /\ Orphaned(r)' = Orphaned(r)
        /\ Capturing(r)' <=> Capturing(r)
        /\ Holding(r)' <=> Capturing(r) /\ Unwritable(r)
    <3> DEFINE v == ~ Unwritable(r)
    <3>1. v \in BOOLEAN /\ Then(r, [Rest(q) EXCEPT !.ok = v])
      BY <2>1, <2>2
    <3> HIDE DEF v
    <3>2. /\ Assists(r) /\ Attended(r)' /\ Orphaned(r)' = Orphaned(r)
          /\ Capturing(r)' <=> Capturing(r)
          /\ Holding(r)' <=> Capturing(r) /\ ~ v
      BY <1>2, <2>1, <3>1, AskEnds, AsItIs
    <3> QED
      BY <3>2 DEF v
  <2>4. works'[b] = works[b] + dw /\ raced'[b] = raced[b] + dx /\ dw \in {0, 1} /\ dx \in {0, 1}
        /\ \A c \in Bodies \ {b} : works'[c] = works[c] /\ raced'[c] = raced[c]
    <3>1. dw \in {0, 1} /\ dx \in {0, 1}
      OBVIOUS
    <3> HIDE DEF q, b, dw, dx
    <3> QED
      BY <1>2, <1>3, <2>1, <3>1
  <2>5. Toll(r) = dw /\ Toll(r)' <= dx /\ Toll(r)' \in {0, 1}
    <3>1. Holding(r) <=> q.asks.writes
      BY <2>1, StandsNow
    <3>2. Toll(r)' = IF Holding(r)' THEN 1 ELSE 0
      BY DEF Toll
    <3> QED
      BY <2>3, <3>1, <3>2 DEF Toll
  <2>6. /\ dw + Toll(r)' + Marked(marker[b]) <= Toll(r) + Marked(marker'[b]) + dx + 0
        /\ Orphaned(r)' + (IF marker'[b] = "processing" /\ Capturing(r) /\ ~ Capturing(r)' THEN 1 ELSE 0)
              <= Orphaned(r) + 0
    <3> HIDE DEF dw, dx
    <3> QED
      BY <1>1, <1>3, <2>3, <2>4, <2>5
  <2>7. /\ \A c \in Bodies \ {b} : marker'[c] = marker[c] /\ works'[c] = works[c] /\ raced'[c] = raced[c]
        /\ faults' = faults + 0
    BY <1>1, <1>3, <2>1, <2>4
  <2> HIDE DEF dw, dx
  <2> QED
    BY <1>1, <1>2, <2>3, <2>4, <2>6, <2>7, Balanced
<1>8. CASE Leave(r)
  <2>1. req' = [req EXCEPT ![r].live = FALSE] /\ q.live /\ faults' = faults + 1 /\ works' = works /\ raced' = raced
    BY <1>8 DEF Leave, Fault, assistVars
  <2> DEFINE p == [q EXCEPT !.live = FALSE]
  <2>2. req' = [req EXCEPT ![r] = p]
    BY <2>1
  <2>3. /\ p \in Assisted /\ p.todo = q.todo /\ SameRequest(p, q) /\ ~ p.live /\ p.ok = q.ok /\ p.todo # <<>>
    <3>1. q \in AIRequest /\ q.todo # <<>>
      BY <1>2, AssistedHeads DEF Assisted
    <3> HIDE DEF WriteTodos, ReadTodos
    <3> QED
      BY <1>2, <3>1 DEF Assisted, AIRequest, SameRequest
  <2>4. Then(r, p)
    BY <2>2, <2>3 DEF Then
  <2>5. /\ Assists(r) /\ (Attended(r)' <=> p.live \/ Head(p.todo) \in {"ask", "settle"})
        /\ Orphaned(r)' = IF Captures(p) /\ ~ p.live THEN 1 ELSE 0
        /\ Capturing(r)' <=> Captures(p)
        /\ Holding(r)' <=> p.asks.writes /\ (Head(p.todo) = "ask" \/ (Head(p.todo) = "settle" /\ ~ p.ok))
    <3>1. RequestsInv
      BY DEF TypeInv
    <3> HIDE DEF p
    <3> QED
      BY <1>2, <2>3, <2>4, <3>1, StepOn
  <2>6. /\ Attended(r)' /\ (Capturing(r)' <=> Capturing(r)) /\ (Holding(r)' => Holding(r)) /\ Orphaned(r)' \in {0, 1}
    <3>1. /\ Holding(r) <=> /\ q.asks.writes
                            /\ Head(q.todo) = "ask" \/ (Head(q.todo) = "settle" /\ ~ q.ok)
          /\ Capturing(r) <=> Captures(q)
          /\ \A s : Doing(r, s) <=> Head(q.todo) = s
      BY <1>2, WhereItStands
    <3>2. Captures(p) <=> Captures(q)
      BY <2>3 DEF Captures
    <3> HIDE DEF p
    <3> QED
      BY <1>1, <2>3, <2>5, <3>1, <3>2 DEF SameRequest
  <2>7. works'[b] = works[b] + 0 /\ raced'[b] = raced[b] + 0 
    BY <1>3, <2>1
  <2>8. /\ 0 + Toll(r)' + Marked(marker[b]) <= Toll(r) + Marked(marker'[b]) + 0 + 1
        /\ Orphaned(r)' + (IF marker'[b] = "processing" /\ Capturing(r) /\ ~ Capturing(r)' THEN 1 ELSE 0)
              <= Orphaned(r) + 1
    BY <1>1, <1>3, <1>4, <2>6
  <2> QED
    BY <1>1, <1>2, <2>1, <2>5, <2>6, <2>7, <2>8, Balanced
<1> QED
  BY <1>1, <1>5, <1>6, <1>7, <1>8

(* One element comes to a finite set, leaves it, or neither.               *)
LEMMA OneChanges ==
    ASSUME NEW A, NEW B, NEW x, IsFiniteSet(A), B \subseteq A \cup {x}
    PROVE  /\ IsFiniteSet(B) /\ Cardinality(A) \in Nat /\ Cardinality(B) \in Nat
           /\ Cardinality(B) + (IF x \in A THEN 1 ELSE 0) <= Cardinality(A) + (IF x \in B THEN 1 ELSE 0)
<1>1. CASE x \in A /\ x \notin B
  <2>1. B \subseteq A \ {x}
    BY <1>1
  <2> QED
    BY <1>1, <2>1, OneLess
<1>2. CASE x \notin A /\ x \in B
  <2>1. /\ IsFiniteSet(B) /\ Cardinality(B) <= Cardinality(A) + 1
        /\ Cardinality(A) \in Nat /\ Cardinality(B) \in Nat
    BY OneMore
  <2> QED
    BY <1>2, <2>1
<1>3. CASE (x \in A /\ x \in B) \/ (x \notin A /\ x \notin B)
  <2>1. B \subseteq A
    BY <1>3
  <2> QED
    BY <1>3, <2>1, NoMore
<1> QED
  BY <1>1, <1>2, <1>3

(* The work on a body is paid for by its marker, by the marks written over *)
(* and the answers not kept, the markers whose time was over, and the      *)
(* failures: the answers given, and those still to come of its holders.    *)
Held(b) == {r \in Slots : Holding(r) /\ req[r].body = b}
WorkInv == \A b \in Bodies : works[b] + Cardinality(Held(b)) <= raced[b] + lapses + faults + Marked(marker[b])

(* A body abandoned, or about to be by a request whose caller has gone, is *)
(* paid for by a failure.                                                  *)
Gone == {r \in Slots : Capturing(r) /\ ~ req[r].live}
FreeInv == IsFiniteSet(Abandoned) /\ Cardinality(Abandoned) + Cardinality(Gone) <= faults

(* Who holds the work, and whose caller has gone, is under way.           *)
LEMMA OnesUnderWay ==
    ASSUME RequestsInv
    PROVE  /\ \A b : Held(b) \subseteq Busy /\ IsFiniteSet(Held(b))
           /\ Gone \subseteq Busy /\ IsFiniteSet(Gone)
<1>1. \A b : Held(b) \subseteq Busy
  BY IdleDoesNothing DEF Held, Busy
<1>2. Gone \subseteq Busy
  BY IdleDoesNothing DEF Gone, Busy
<1> QED
  BY <1>1, <1>2, BusyOnes

(* The abandoned bodies, in terms of who captures.                        *)
LEMMA AbandonedOnes ==
    ASSUME RequestsInv
    PROVE  Abandoned = {b \in Bodies : marker[b] = "processing" /\ \A s \in Slots : Capturing(s) => req[s].body # b}
<1>1. \A b : AtWork(b) = {s \in Slots : Capturing(s) /\ req[s].body = b}
  BY CapturedIsCapturing DEF AtWork
<1> QED
  BY <1>1 DEF Abandoned

(* The same after a step.                                                 *)
LEMMA AbandonedThen ==
    ASSUME RequestsInv'
    PROVE  Abandoned' = {b \in Bodies : /\ marker'[b] = "processing"
                                        /\ \A s \in Slots : Capturing(s)' => req'[s].body # b}
<1>1. ASSUME NEW s \in Slots
      PROVE  Capturing(s)' <=> req'[s] # Idle /\ "body" \in DOMAIN req'[s] /\ Captured(s)'
  <2>1. /\ Captured(s)' <=> Captures(req'[s])
        /\ Capturing(s)' <=> req'[s] \in Assisted /\ Captures(req'[s])
    BY DEF Captured, Captures, Capturing
  <2>2. req'[s] \in {Idle} \cup Proxied \cup Assisted
    BY DEF RequestsInv
  <2>3. req'[s] \in Proxied => "body" \notin DOMAIN req'[s]
    BY ProxiedHeads
  <2>4. req'[s] \in Assisted => "body" \in DOMAIN req'[s] /\ req'[s] # Idle
    BY AssistedHeads
  <2> QED
    BY <2>1, <2>2, <2>3, <2>4
<1>2. \A b : AtWork(b)' = {s \in Slots : Capturing(s)' /\ req'[s].body = b}
  <2>1. \A b : AtWork(b)' = {s \in Slots : /\ req'[s] # Idle /\ "body" \in DOMAIN req'[s]
                                           /\ req'[s].body = b /\ Captured(s)'}
    BY DEF AtWork
  <2> QED
    BY <1>1, <2>1
<1>3. Abandoned' = {b \in Bodies : marker'[b] = "processing" /\ AtWork(b)' = {}}
  BY DEF Abandoned
<1> QED
  BY <1>2, <1>3

(* A request that does not move stands where it stood.                    *)
LEMMA OthersStay ==
    ASSUME NEW r \in Slots, Others(r), NEW s \in Slots \ {r}
    PROVE  /\ req'[s] = req[s] /\ (Holding(s)' <=> Holding(s)) /\ (Capturing(s)' <=> Capturing(s))
           /\ \A x : Doing(s, x)' <=> Doing(s, x)
<1>1. req'[s] = req[s]
  BY DEF Others
<1> QED
  BY <1>1 DEF Holding, Capturing, Doing

(* A step of a request of assistance keeps the books of the work: at its  *)
(* own body by what it accounts for, at the others because nothing is     *)
(* touched there.                                                         *)
LEMMA WorkKept ==
    ASSUME TypeInv, TypeInv', WorkInv, NEW r \in Slots, Accounts(r, req[r].body)
    PROVE  WorkInv'
<1> DEFINE b == req[r].body
<1>1. /\ Assists(r) /\ Others(r) /\ req[r] \in Assisted /\ b \in Bodies
      /\ Holding(r)' => req'[r].body = b
  <2>1. Assists(r)
    BY DEF Accounts
  <2>2. Holding(r)' => req'[r] # Idle
    BY IdleWillDoNothing
  <2> QED
    BY <2>1, <2>2, AssistedHeads DEF Assists, SameRequest
<1>2. \A s \in Slots \ {r} : req'[s] = req[s] /\ (Holding(s)' <=> Holding(s))
  BY <1>1, OthersStay
<1>3. \A c : Held(c)' = {s \in Slots : Holding(s)' /\ req'[s].body = c}
  BY DEF Held
<1>4. ASSUME NEW c \in Bodies, c # b
      PROVE  Held(c)' \subseteq Held(c)
  <2>1. ~ Holding(r)' \/ req'[r].body # c
    BY <1>1, <1>4
  <2> QED
    BY <1>2, <1>3, <2>1 DEF Held
<1>5. \A c : Held(c)' \subseteq Held(c) \cup {r}
  BY <1>2, <1>3 DEF Held
<1>6. \A c : c = b => (r \in Held(c) <=> Holding(r)) /\ (r \in Held(c)' <=> Holding(r)')
  BY <1>1, <1>3 DEF Held
<1>7. faults \in Nat /\ faults' \in Nat /\ lapses \in Nat /\ lapses' = lapses /\ faults' \in {faults, faults + 1}
      /\ \A c \in Bodies : works[c] \in Nat /\ raced[c] \in Nat /\ works'[c] \in Nat /\ raced'[c] \in Nat
  BY DEF TypeInv, Accounts
<1> SUFFICES ASSUME NEW c \in Bodies
             PROVE  works'[c] + Cardinality(Held(c)') <= raced'[c] + lapses' + faults' + Marked(marker'[c])
  BY DEF WorkInv
<1> DEFINE h == Cardinality(Held(c))  h1 == Cardinality(Held(c)')  f == faults  f1 == faults'
           w == works[c]  w1 == works'[c]  x == raced[c]  x1 == raced'[c]
           m == Marked(marker[c])  m1 == Marked(marker'[c])  t == Toll(r)  t1 == Toll(r)'
<1>8. IsFiniteSet(Held(c))
  BY OnesUnderWay DEF TypeInv
<1>9. w + h <= x + lapses + f + m
  BY DEF WorkInv
<1>10. f \in Nat /\ f1 \in Nat /\ w \in Nat /\ w1 \in Nat /\ x \in Nat /\ x1 \in Nat /\ lapses \in Nat
       /\ m \in {0, 1} /\ m1 \in {0, 1} /\ t \in {0, 1} /\ t1 \in {0, 1} /\ (f1 = f \/ f1 = f + 1)
  BY <1>7 DEF Marked, Toll
<1>11. CASE c = b
  <2>1. w1 + t1 + m + x + f <= w + t + m1 + x1 + f1
    BY <1>11 DEF Accounts
  <2>2. h \in Nat /\ h1 \in Nat /\ h1 + t <= h + t1
    BY <1>5, <1>6, <1>8, <1>11, OneChanges DEF Toll
  <2> HIDE DEF h, h1, f, f1, w, w1, x, x1, m, m1, t, t1, b
  <2>3. w1 + h1 <= x1 + lapses + f1 + m1
    BY <1>9, <1>10, <2>1, <2>2
  <2> QED
    BY <1>7, <2>3 DEF w1, h1, x1, f1, m1
<1>12. CASE c # b
  <2>1. w1 = w /\ x1 = x /\ m1 = m
    BY <1>12 DEF Accounts
  <2>2. h \in Nat /\ h1 \in Nat /\ h1 <= h
    BY <1>4, <1>8, <1>12, NoMore
  <2> HIDE DEF h, h1, f, f1, w, w1, x, x1, m, m1, t, t1, b
  <2>3. w1 + h1 <= x1 + lapses + f1 + m1
    BY <1>9, <1>10, <2>1, <2>2
  <2> QED
    BY <1>7, <2>3 DEF w1, h1, x1, f1, m1
<1> QED
  BY <1>11, <1>12

(* A step of a request of assistance keeps the books of the markers left  *)
(* behind.                                                                *)
LEMMA FreeKept ==
    ASSUME TypeInv, TypeInv', FreeInv, NEW r \in Slots, Accounts(r, req[r].body)
    PROVE  FreeInv'
<1>0. PICK b : b = req[r].body
  OBVIOUS
<1>1. /\ Assists(r) /\ Others(r) /\ req[r] \in Assisted /\ b \in Bodies
      /\ Capturing(r)' => req'[r].body = b
  <2>1. Assists(r)
    BY DEF Accounts
  <2>2. Capturing(r)' => req'[r] # Idle
    BY IdleWillDoNothing
  <2> QED
    BY <1>0, <2>1, <2>2, AssistedHeads DEF Assists, SameRequest
<1>2. \A s \in Slots \ {r} : req'[s] = req[s] /\ (Capturing(s)' <=> Capturing(s))
  BY <1>1, OthersStay
<1>3. Gone' = {s \in Slots : Capturing(s)' /\ ~ req'[s].live}
  BY DEF Gone
<1>4. /\ Abandoned = {c \in Bodies : marker[c] = "processing" /\ \A s \in Slots : Capturing(s) => req[s].body # c}
      /\ Abandoned' = {c \in Bodies : /\ marker'[c] = "processing"
                                      /\ \A s \in Slots : Capturing(s)' => req'[s].body # c}
  BY AbandonedOnes, AbandonedThen DEF TypeInv
<1> DEFINE drop == marker'[b] = "processing" /\ Capturing(r) /\ ~ Capturing(r)'
           f == faults  f1 == faults'  o == Orphaned(r)  o1 == Orphaned(r)'
           d == IF drop THEN 1 ELSE 0
           g == Cardinality(Gone)  g1 == Cardinality(Gone')
           a == Cardinality(Abandoned)  a1 == Cardinality(Abandoned')
<1>5. /\ o1 + f + d <= o + f1
      /\ marker'[b] = "processing" /\ ~ Capturing(r)' => marker[b] = "processing"
      /\ \A c \in Bodies \ {b} : marker'[c] = marker[c]
  BY <1>0 DEF Accounts
<1>6. ASSUME NEW c \in Abandoned', c \notin Abandoned
      PROVE  c = b /\ drop
  <2>1. c \in Bodies /\ marker'[c] = "processing" /\ \A s \in Slots : Capturing(s)' => req'[s].body # c
    BY <1>4, <1>6
  <2>2. CASE c # b
    <3>1. marker[c] = "processing"
      BY <1>5, <2>1, <2>2
    <3>2. \A s \in Slots : Capturing(s) => req[s].body # c
      BY <1>0, <1>2, <2>1, <2>2
    <3> QED
      BY <1>4, <1>6, <2>1, <3>1, <3>2
  <2>3. CASE c = b /\ ~ Capturing(r)
    <3>1. ~ Capturing(r)'
      BY <1>1, <2>1, <2>3
    <3>2. marker[c] = "processing"
      BY <1>5, <2>1, <2>3, <3>1
    <3>3. \A s \in Slots : Capturing(s) => req[s].body # c
      BY <1>2, <2>1, <2>3
    <3> QED
      BY <1>4, <1>6, <2>1, <3>2, <3>3
  <2>4. CASE c = b /\ Capturing(r)
    BY <1>1, <2>1, <2>4
  <2> QED
    BY <2>2, <2>3, <2>4
<1>7. IsFiniteSet(Abandoned') /\ a \in Nat /\ a1 \in Nat /\ a1 <= a + d
  <2>1. IsFiniteSet(Abandoned)
    BY DEF FreeInv
  <2>2. CASE drop
    <3>1. Abandoned' \subseteq Abandoned \cup {b}
      BY <1>6
    <3> QED
      BY <2>1, <2>2, <3>1, OneMore
  <2>3. CASE ~ drop
    <3>1. Abandoned' \subseteq Abandoned
      BY <1>6, <2>3
    <3>2. IsFiniteSet(Abandoned') /\ a \in Nat /\ a1 \in Nat /\ a1 <= a
      BY <2>1, <3>1, NoMore
    <3> QED
      BY <2>3, <3>2
  <2> QED
    BY <2>2, <2>3
<1>8. g \in Nat /\ g1 \in Nat /\ g1 + o <= g + o1
  <2>1. Gone' \subseteq Gone \cup {r}
    BY <1>2, <1>3 DEF Gone
  <2>2. IsFiniteSet(Gone)
    BY OnesUnderWay DEF TypeInv
  <2>3. o = (IF r \in Gone THEN 1 ELSE 0) /\ o1 = (IF r \in Gone' THEN 1 ELSE 0)
    BY <1>3 DEF Gone, Orphaned
  <2> QED
    BY <2>1, <2>2, <2>3, OneChanges
<1>9. a + g <= f
  BY DEF FreeInv
<1>10. f \in Nat /\ f1 \in Nat /\ o \in {0, 1} /\ o1 \in {0, 1} /\ d \in {0, 1}
  BY DEF TypeInv, Orphaned
<1>11. a1 + g1 <= f1
  <2> HIDE DEF f, f1, o, o1, d, g, g1, a, a1
  <2> QED
    BY <1>5, <1>7, <1>8, <1>9, <1>10
<1> QED
  BY <1>7, <1>11 DEF FreeInv

(* One request moves, to something that can be under way.                  *)
OneMoves(r) == \E x : req' = [req EXCEPT ![r] = x]

(* Going on and being refused move one request.                           *)
LEMMA ThenIsOne ==
    ASSUME NEW r
    PROVE  /\ \A q : Then(r, q) => OneMoves(r)
           /\ Refuse(r) => OneMoves(r)
<1>1. ASSUME NEW q, Then(r, q) PROVE OneMoves(r)
  BY <1>1 DEF Then, OneMoves
<1>2. ASSUME Refuse(r) PROVE OneMoves(r)
  BY <1>2 DEF Refuse, OneMoves
<1> QED
  BY <1>1, <1>2

(* One request that moves keeps the type of them all.                     *)
LEMMA RequestsStay ==
    ASSUME RequestsInv, NEW r \in Slots, OneMoves(r), req'[r] \in {Idle} \cup Proxied \cup Assisted
    PROVE  RequestsInv'
<1>1. PICK x : req' = [req EXCEPT ![r] = x]
  BY DEF OneMoves
<1>2. req' \in [Slots -> {Idle} \cup Proxied \cup Assisted]
  BY <1>1 DEF RequestsInv
<1>3. Busy' \subseteq Busy \cup {r}
  <2>1. Busy' = {s \in Slots : req'[s] # Idle}
    BY DEF Busy
  <2> QED
    BY <1>1, <2>1 DEF RequestsInv, Busy
<1>4. IsFiniteSet(Busy')
  BY <1>3, OneMore DEF RequestsInv
<1> QED
  BY <1>2, <1>4 DEF RequestsInv

(* A counter of two keys counted on.                                      *)
LEMMA CountedOn ==
    ASSUME NEW A, NEW B, NEW f \in [A -> [B -> Nat]], NEW a \in A, NEW b \in B
    PROVE  [f EXCEPT ![a][b] = @ + 1] \in [A -> [B -> Nat]]
<1> DEFINE g == [f[a] EXCEPT ![b] = @ + 1]
<1>1. f[a] \in [B -> Nat]
  OBVIOUS
<1>2. g \in [B -> Nat]
  BY <1>1
<1>3. [f EXCEPT ![a][b] = @ + 1] = [f EXCEPT ![a] = g]
  OBVIOUS
<1> HIDE DEF g
<1> QED
  BY <1>2, <1>3

(* A counter of three keys counted on.                                    *)
LEMMA CountedOnTwice ==
    ASSUME NEW A, NEW B, NEW C, NEW f \in [A -> [B -> [C -> Nat]]], NEW a \in A, NEW b \in B, NEW c \in C
    PROVE  [f EXCEPT ![a][b][c] = @ + 1] \in [A -> [B -> [C -> Nat]]]
<1> DEFINE g == [f[a] EXCEPT ![b][c] = @ + 1]
<1>1. f[a] \in [B -> [C -> Nat]]
  OBVIOUS
<1>2. g \in [B -> [C -> Nat]]
  BY <1>1, CountedOn
<1>3. [f EXCEPT ![a][b][c] = @ + 1] = [f EXCEPT ![a] = g]
  OBVIOUS
<1> HIDE DEF g
<1> QED
  BY <1>2, <1>3

(* A step of a proxied request keeps the types.                           *)
LEMMA ProxyStepType ==
    ASSUME TypeInv, NEW r \in Slots, ProxyStep(r), UNCHANGED assistVars
    PROVE  TypeInv'
<1> DEFINE u == req[r].user  p == req[r].path
<1>1. Passes(r) /\ now' = now /\ faults' \in {faults, faults + 1}
  BY ProxyStepPasses
<1>2. /\ u \in Users /\ p \in Paths /\ req[r].day \in Days /\ Today \in Days /\ req[r].late \in BOOLEAN
      /\ req'[r] \in {Idle} \cup Proxied \cup Assisted
  BY <1>1, ProxiedHeads, TodayIsADay DEF Passes, TypeInv
<1>3. OneMoves(r)
  BY ThenIsOne DEF ProxyStep, IsBlacklisted, BlacklistFails, Count, Add, LimitFails, CountQuota, QuotaFails, Proxy
<1>4. RequestsInv'
  BY <1>2, <1>3, RequestsStay DEF TypeInv
<1>5. UNCHANGED <<count, until, marker, works, raced, lapses>>
  BY DEF assistVars
<1>6. now \in Times /\ hits \in [Users -> SUBSET Times]
      /\ used \in [Users -> [Days -> Nat]] /\ served \in [Users -> [Days -> Nat]]
      /\ admitted \in [Users -> [Paths -> [Times -> Nat]]]
      /\ overlaps \in Nat /\ escaped \in Nat /\ faults \in Nat
  BY DEF TypeInv
<1>7. hits' \in [Users -> SUBSET Times]
  <2>1. \/ hits' = hits
        \/ hits' = [hits EXCEPT ![u] = {t \in hits[u] : t > now - Window}]
        \/ hits' = [hits EXCEPT ![u] = @ \cup {now}]
    BY BlacklistMoves, BlacklistFailMoves, CountMoves, AddMoves, LimitFailMoves, CountQuotaMoves,
       QuotaFailMoves, ProxyMoves DEF ProxyStep, limitVars
  <2> HIDE DEF u
  <2> QED
    BY <1>2, <1>6, <2>1
<1>8. used' \in [Users -> [Days -> Nat]] /\ served' \in [Users -> [Days -> Nat]]
  <2>1. used' = used \/ used' = [used EXCEPT ![u][Today] = @ + 1]
    BY BlacklistMoves, BlacklistFailMoves, CountMoves, AddMoves, LimitFailMoves, CountQuotaMoves,
       QuotaFailMoves, ProxyMoves DEF ProxyStep, limitVars
  <2>2. served' = served \/ served' = [served EXCEPT ![u][req[r].day] = @ + 1]
    BY BlacklistMoves, BlacklistFailMoves, CountMoves, AddMoves, LimitFailMoves, CountQuotaMoves,
       QuotaFailMoves, ProxyMoves DEF ProxyStep, limitVars
  <2> DEFINE d == req[r].day  e == Today
  <2>3. (used' = used \/ used' = [used EXCEPT ![u][e] = @ + 1])
        /\ (served' = served \/ served' = [served EXCEPT ![u][d] = @ + 1]) /\ d \in Days /\ e \in Days
    BY <1>2, <2>1, <2>2
  <2> HIDE DEF u, d, e
  <2>4. used' \in [Users -> [Days -> Nat]]
    <3>1. [used EXCEPT ![u][e] = @ + 1] \in [Users -> [Days -> Nat]]
      BY <1>2, <1>6, <2>3, CountedOn
    <3> QED
      BY <1>6, <2>3, <3>1, Zenon
  <2>5. served' \in [Users -> [Days -> Nat]]
    <3>1. [served EXCEPT ![u][d] = @ + 1] \in [Users -> [Days -> Nat]]
      BY <1>2, <1>6, <2>3, CountedOn
    <3> QED
      BY <1>6, <2>3, <3>1, Zenon
  <2> QED
    BY <2>4, <2>5
<1>9. admitted' \in [Users -> [Paths -> [Times -> Nat]]]
  <2>1. admitted' = admitted \/ admitted' = [admitted EXCEPT ![u][p][now] = @ + 1]
    BY BlacklistMoves, BlacklistFailMoves, CountMoves, AddMoves, LimitFailMoves, CountQuotaMoves,
       QuotaFailMoves, ProxyMoves DEF ProxyStep, limitVars
  <2> HIDE DEF u, p
  <2>2. [admitted EXCEPT ![u][p][now] = @ + 1] \in [Users -> [Paths -> [Times -> Nat]]]
    BY <1>2, <1>6, CountedOnTwice
  <2> QED
    BY <1>6, <2>1, <2>2, Zenon
<1>10. overlaps' \in Nat /\ escaped' \in Nat /\ faults' \in Nat
  <2>1. overlaps' \in {overlaps, overlaps + 1} /\ escaped' \in {escaped, escaped + 1, escaped + 0}
    BY <1>6, BlacklistMoves, BlacklistFailMoves, CountMoves, AddMoves, LimitFailMoves, CountQuotaMoves,
       QuotaFailMoves, ProxyMoves DEF ProxyStep, limitVars
  <2> QED
    BY <1>1, <1>6, <2>1
<1> QED
  BY <1>1, <1>4, <1>5, <1>6, <1>7, <1>8, <1>9, <1>10 DEF TypeInv

(* A step of a request of assistance keeps the types when its counters    *)
(* and markers have them.                                                 *)
LEMMA AssistStepType ==
    ASSUME TypeInv, NEW r \in Slots, Assists(r), OneMoves(r), faults' \in {faults, faults + 1},
           UNCHANGED <<now, limitVars, lapses>>,
           count' \in [Users -> Nat], until' \in [Users -> Nat \cup {Nil}],
           marker' \in [Bodies -> {"none", "processing", "answer"}],
           works' \in [Bodies -> Nat], raced' \in [Bodies -> Nat]
    PROVE  TypeInv'
<1>1. RequestsInv'
  <2>1. req'[r] \in {Idle} \cup Proxied \cup Assisted
    BY DEF Assists
  <2> QED
    BY <2>1, RequestsStay DEF TypeInv
<1>2. faults' \in Nat
  BY DEF TypeInv
<1> QED
  BY <1>1, <1>2 DEF TypeInv, limitVars

(* Every step of a request of assistance accounts for what it does, and   *)
(* only the quota's touch the counters.                                   *)
LEMMA AssistNextAccounts ==
    ASSUME TypeInv, LiveInv, NEW r \in Slots, AssistNext(r)
    PROVE  /\ Accounts(r, req[r].body)
           /\ \/ CountAI(r) \/ SetEnd(r) \/ AIQuotaFails(r)
              \/ UNCHANGED <<count, until>> /\ ~ Doing(r, "expire")
<1>1. CASE CountAI(r) \/ SetEnd(r) \/ AIQuotaFails(r)
  BY <1>1, QuotaStepAccounts
<1>2. ASSUME ~ (CountAI(r) \/ SetEnd(r) \/ AIQuotaFails(r))
      PROVE  ~ Doing(r, "expire")
  <2>1. Doing(r, "dedup") \/ Doing(r, "mark") \/ Doing(r, "ask") \/ Doing(r, "settle")
    BY <1>2 DEF AssistNext, Lookup, LookupFails, Mark, MarkFails, Settle, SettleFails, BadRequest, Answered,
                Declined, ServerError, AnswerLost, Leave, Asks
  <2> QED
    BY <2>1 DEF Doing
<1>3. CASE Lookup(r) \/ LookupFails(r)
  BY <1>2, <1>3, LookupAccounts DEF assistVars
<1>4. CASE Mark(r) \/ MarkFails(r)
  BY <1>2, <1>4, MarkAccounts
<1>5. CASE Settle(r) \/ SettleFails(r)
  BY <1>2, <1>5, SettleAccounts
<1>6. CASE BadRequest(r) \/ Answered(r) \/ Declined(r) \/ ServerError(r) \/ AnswerLost(r) \/ Leave(r)
  BY <1>2, <1>6, AskAccounts
<1> QED
  BY <1>1, <1>3, <1>4, <1>5, <1>6 DEF AssistNext

(* Every step of a request of assistance keeps the types.                 *)
LEMMA AssistNextType ==
    ASSUME TypeInv, LiveInv, NEW r \in Slots, AssistNext(r)
    PROVE  TypeInv'
<1> DEFINE u == req[r].user  b == req[r].body
<1>1. /\ Assists(r) /\ faults' \in {faults, faults + 1} /\ UNCHANGED <<now, limitVars, lapses>>
  BY AssistNextAccounts DEF Accounts
<1>2. u \in Users /\ b \in Bodies
  BY <1>1, AssistedHeads DEF Assists
<1>3. OneMoves(r)
  <2>1. \A q : Then(r, q) => OneMoves(r)
    BY ThenIsOne
  <2>2. Refuse(r) => OneMoves(r)
    BY ThenIsOne
  <2>3. CASE Leave(r)
    <3>1. req' = [req EXCEPT ![r] = [req[r] EXCEPT !.live = FALSE]]
      BY <2>3 DEF Leave
    <3> QED
      BY <3>1 DEF OneMoves
  <2>4. CASE ServerError(r) \/ AnswerLost(r)
    BY <2>1, <2>4 DEF ServerError, AnswerLost, TryAgain
  <2>5. CASE CountAI(r)
    BY <2>1, <2>2, <2>5 DEF CountAI
  <2>6. CASE SetEnd(r) \/ AIQuotaFails(r) \/ LookupFails(r) \/ Mark(r) \/ MarkFails(r) \/ Settle(r)
             \/ SettleFails(r) \/ BadRequest(r) \/ Answered(r) \/ Declined(r)
    BY <2>1, <2>6 DEF SetEnd, AIQuotaFails, LookupFails, Mark, MarkFails, Settle, SettleFails, BadRequest,
                      Answered, Declined
  <2>7. CASE Lookup(r)
    BY <2>1, <2>2, <2>7 DEF Lookup
  <2> QED
    BY <2>3, <2>4, <2>5, <2>6, <2>7 DEF AssistNext
<1>4. /\ count \in [Users -> Nat] /\ until \in [Users -> Nat \cup {Nil}]
      /\ marker \in [Bodies -> {"none", "processing", "answer"}]
      /\ works \in [Bodies -> Nat] /\ raced \in [Bodies -> Nat]
  BY DEF TypeInv
<1> USE DEF assistVars
<1>5. count' \in [Users -> Nat] /\ until' \in [Users -> Nat \cup {Nil}]
  <2>1. CASE CountAI(r)
    <3> DEFINE n == Current(u) + 1  e == IF n = 1 THEN Nil ELSE until[u]
    <3>1. Current(u) \in Nat
      BY <1>2, <1>4 DEF Current
    <3>2. n \in Nat /\ e \in Nat \cup {Nil}
      BY <1>2, <1>4, <3>1
    <3>3. count' = [count EXCEPT ![u] = n] /\ until' = [until EXCEPT ![u] = e]
      BY <2>1 DEF CountAI
    <3> HIDE DEF n, e
    <3> QED
      BY <1>2, <1>4, <3>2, <3>3
  <2>2. CASE SetEnd(r)
    <3>1. now + Day \in Nat
      BY AdmissionAssumption DEF TypeInv, Times
    <3> DEFINE e == now + Day
    <3>2. until' = [until EXCEPT ![u] = e] /\ count' = count
      BY <2>2 DEF SetEnd
    <3> HIDE DEF e
    <3> QED
      BY <1>2, <1>4, <3>1, <3>2 DEF e
  <2>3. CASE AIQuotaFails(r)
    BY <1>4, <2>3 DEF AIQuotaFails
  <2> QED
    BY <1>4, <2>1, <2>2, <2>3, AssistNextAccounts
<1>6. marker' \in [Bodies -> {"none", "processing", "answer"}]
  <2>1. CASE Mark(r)
    BY <1>4, <2>1 DEF Mark
  <2>2. CASE Settle(r)
    BY <1>4, <2>2 DEF Settle
  <2>3. CASE ~ (Mark(r) \/ Settle(r))
    BY <1>4, <2>3 DEF AssistNext, CountAI, SetEnd, AIQuotaFails, Lookup, LookupFails, MarkFails, SettleFails,
                      BadRequest, Answered, Declined, ServerError, AnswerLost, Leave
  <2> QED
    BY <2>1, <2>2, <2>3
<1>7. works' \in [Bodies -> Nat]
  <2> DEFINE w == IF req[r].asks.writes THEN 1 ELSE 0
  <2>1. works' = works \/ works' = [works EXCEPT ![b] = @ + w]
    BY DEF AssistNext, CountAI, SetEnd, AIQuotaFails, Lookup, LookupFails, Mark, MarkFails, Settle, SettleFails,
           BadRequest, Answered, Declined, ServerError, AnswerLost, Leave, Worked
  <2>2. w \in Nat
    OBVIOUS
  <2> HIDE DEF w
  <2> QED
    BY <1>4, <2>1, <2>2
<1>8. raced' \in [Bodies -> Nat]
  <2> DEFINE w == IF Unwritable(r) THEN 1 ELSE 0  x == IF marker[b] = "none" THEN 0 ELSE 1
  <2>1. raced' = raced \/ raced' = [raced EXCEPT ![b] = @ + w] \/ raced' = [raced EXCEPT ![b] = @ + x]
    BY DEF AssistNext, CountAI, SetEnd, AIQuotaFails, Lookup, LookupFails, Mark, MarkFails, Settle, SettleFails,
           BadRequest, Answered, Declined, ServerError, AnswerLost, Leave, RequestHash
  <2>2. w \in Nat /\ x \in Nat
    OBVIOUS
  <2> HIDE DEF w, x
  <2> QED
    BY <1>4, <2>1, <2>2
<1> QED
  BY <1>1, <1>3, <1>5, <1>6, <1>7, <1>8, AssistStepType

(* A counter without an end is paid for by a failure.                      *)
EndlessInv == IsFiniteSet(Endless) /\ Cardinality(Endless) <= faults

(* The counters without an end after a step.                              *)
LEMMA EndlessThen ==
    Endless' = {u \in Users : /\ count'[u] > 0 /\ until'[u] = Nil
                              /\ ~ \E s \in Slots : Doing(s, "expire")' /\ req'[s].user = u}
BY DEF Endless

(* A step that touches no counter, and no request about to end one,       *)
(* leaves no new counter without an end.                                  *)
LEMMA NoNewEndless ==
    ASSUME UNCHANGED <<count, until>>,
           \A s \in Slots : Doing(s, "expire") => Doing(s, "expire")' /\ req'[s].user = req[s].user
    PROVE  Endless' \subseteq Endless
BY EndlessThen DEF Endless

(* Fewer such counters and no fewer failures keep the balance.            *)
LEMMA EndlessStays ==
    ASSUME TypeInv, TypeInv', EndlessInv, Endless' \subseteq Endless, faults' >= faults
    PROVE  EndlessInv'
<1> DEFINE a == Cardinality(Endless)  a1 == Cardinality(Endless')  f == faults  f1 == faults'
<1>1. IsFiniteSet(Endless') /\ a \in Nat /\ a1 \in Nat /\ a1 <= a
  BY NoMore DEF EndlessInv
<1>2. a <= f /\ f \in Nat /\ f1 \in Nat /\ f1 >= f
  BY DEF EndlessInv, TypeInv
<1>3. a1 <= f1
  <2> HIDE DEF a, a1, f, f1
  <2> QED
    BY <1>1, <1>2
<1> QED
  BY <1>1, <1>3 DEF EndlessInv

(* The quota's statements keep the balance: who counts first goes on to   *)
(* set the end, an end set is not Nil, and an EXPIRE that fails costs a   *)
(* failure.                                                               *)
LEMMA EndlessKept ==
    ASSUME TypeInv, TypeInv', LiveInv, EndlessInv, NEW r \in Slots, AssistNext(r)
    PROVE  EndlessInv'
<1> DEFINE u == req[r].user
<1>1. /\ Assists(r) /\ faults' \in {faults, faults + 1} /\ faults \in Nat
  BY AssistNextAccounts DEF Accounts, TypeInv
<1>2. u \in Users /\ Others(r) /\ req[r] \in Assisted
  BY <1>1, AssistedHeads DEF Assists
<1>3. \A s \in Slots \ {r} : req'[s] = req[s] /\ (Doing(s, "expire")' <=> Doing(s, "expire"))
  BY <1>2, OthersStay
<1>4. faults' >= faults
  BY <1>1
<1>5. /\ count \in [Users -> Nat] /\ until \in [Users -> Nat \cup {Nil}]
  BY DEF TypeInv
<1>6. CASE UNCHANGED <<count, until>> /\ ~ Doing(r, "expire")
  <2>1. Endless' \subseteq Endless
    BY <1>3, <1>6, NoNewEndless
  <2> QED
    BY <1>4, <2>1, EndlessStays
<1>7. CASE CountAI(r)
  <2> DEFINE n == Current(u) + 1  e == IF n = 1 THEN Nil ELSE until[u]
  <2>1. count' = [count EXCEPT ![u] = n] /\ until' = [until EXCEPT ![u] = e] /\ Doing(r, "ai_quota")
    BY <1>7 DEF CountAI
  <2>2. ~ Doing(r, "expire")
    BY <2>1 DEF Doing
  <2>3. \A v \in Users \ {u} : count'[v] = count[v] /\ until'[v] = until[v]
    BY <2>1
  <2>4. \A v \in Endless' : v # u => v \in Endless
    BY <1>3, <2>2, <2>3, EndlessThen DEF Endless
  <2>5. u \in Endless' => u \in Endless
    <3>1. CASE n = 1
      <4> DEFINE q == Rest(req[r])  p == Continue(q, <<"expire">> \o q.todo)
      <4>1. Then(r, p)
        BY <1>7, <3>1 DEF CountAI, ExpiresOn
      <4>2. Doing(r, "expire")' /\ req'[r].user = u
        <5>1. /\ Tail(req[r].todo) = (IF req[r].asks.writes THEN <<"dedup", "ask">> ELSE <<"ask">>)
              /\ Tail(req[r].todo) # <<>>
          <6>1. <<"dedup", "ask">> # <<>> /\ <<"ask">> # <<>>
            OBVIOUS
          <6> QED
            BY <1>2, <2>1, <6>1, AssistedHeads DEF Doing
        <5>2. q \in Assisted /\ q.todo = Tail(req[r].todo) /\ SameRequest(q, req[r])
          BY <1>2, <5>1, RestOfAssisted
        <5>3. <<"expire">> \o q.todo = IF req[r].asks.writes THEN <<"expire", "dedup", "ask">> ELSE <<"expire", "ask">>
          BY <5>1, <5>2, Expires
        <5> DEFINE t == <<"expire">> \o q.todo
        <5>4. t \in (IF q.asks.writes THEN WriteTodos ELSE ReadTodos) /\ t # <<>> /\ Head(t) = "expire"
          <6>1. q.asks = req[r].asks
            BY <5>2 DEF SameRequest
          <6>2. /\ <<"expire", "dedup", "ask">> # <<>> /\ Head(<<"expire", "dedup", "ask">>) = "expire"
                /\ <<"expire", "ask">> # <<>> /\ Head(<<"expire", "ask">>) = "expire"
            BY Lists
          <6> QED
            BY <5>3, <6>1, <6>2 DEF WriteTodos, ReadTodos
        <5>5. p \in Assisted /\ p.todo = t /\ SameRequest(p, q)
          <6> HIDE DEF q, t
          <6> QED
            BY <5>2, <5>4, ContinueAssisted DEF t
        <5>6. req'[r] = p
          <6> HIDE DEF p, t
          <6> QED
            BY <4>1, <5>4, <5>5, ThenMoves DEF TypeInv
        <5> QED
          BY <5>2, <5>4, <5>5, <5>6 DEF Doing, SameRequest
      <4> QED
        BY <4>2, EndlessThen
    <3>2. CASE n # 1
      <4>1. Current(u) = count[u] /\ count[u] > 0
        BY <1>2, <1>5, <3>2 DEF Current
      <4>2. until'[u] = until[u]
        BY <1>2, <1>5, <2>1, <3>2
      <4> HIDE DEF u
      <4> QED
        BY <1>2, <1>3, <2>2, <4>1, <4>2, EndlessThen DEF Endless
    <3> QED
      BY <3>1, <3>2
  <2>6. Endless' \subseteq Endless
    BY <2>4, <2>5
  <2> QED
    BY <1>4, <2>6, EndlessStays
<1>8. CASE SetEnd(r)
  <2> DEFINE e == now + Day
  <2>1. until' = [until EXCEPT ![u] = e] /\ count' = count /\ Doing(r, "expire")
    BY <1>8 DEF SetEnd
  <2>2. e \in Nat /\ e # Nil
    BY AdmissionAssumption DEF TypeInv, Times
  <2> HIDE DEF u, e
  <2>3. u \notin Endless'
    BY <1>2, <1>5, <2>1, <2>2, EndlessThen
  <2>4. \A v \in Endless' : v # u => v \in Endless
    BY <1>3, <2>1, EndlessThen DEF Endless, u
  <2>5. Endless' \subseteq Endless
    BY <2>3, <2>4
  <2> QED
    BY <1>4, <2>5, EndlessStays
<1>9. CASE AIQuotaFails(r)
  <2>1. UNCHANGED <<count, until>> /\ faults' = faults + 1
    BY <1>9 DEF AIQuotaFails, Fault, assistVars
  <2>2. \A v \in Endless' : v # u => v \in Endless
    BY <1>3, <2>1, EndlessThen DEF Endless
  <2>3. Endless' \subseteq Endless \cup {u}
    BY <2>2
  <2> DEFINE a == Cardinality(Endless)  a1 == Cardinality(Endless')
  <2>4. IsFiniteSet(Endless') /\ a \in Nat /\ a1 \in Nat /\ a1 <= a + 1
    BY <2>3, OneMore DEF EndlessInv
  <2>5. a <= faults
    BY DEF EndlessInv
  <2> HIDE DEF a, a1
  <2>6. a1 <= faults + 1
    BY <1>1, <2>4, <2>5
  <2> QED
    BY <2>1, <2>4, <2>6 DEF EndlessInv, a1
<1> QED
  BY <1>6, <1>7, <1>8, <1>9, AssistNextAccounts

AssistanceInv == LiveInv /\ WorkInv /\ FreeInv /\ EndlessInv

(* A step of requests that are proxied, or of none, and the arrival of one *)
(* of assistance.                                                          *)
LEMMA AssistanceCarriedOver ==
    ASSUME TypeInv, TypeInv', AssistanceInv, faults' >= faults, UNCHANGED assistVars,
           \A s \in Slots : \/ req'[s] = req[s]
                            \/ /\ req[s] \notin Assisted
                               /\ req'[s] \notin Assisted \/ (req'[s].live /\ Head(req'[s].todo) = "ai_quota")
    PROVE  AssistanceInv'
<1>1. ASSUME NEW s \in Slots, req'[s] # req[s]
      PROVE  /\ ~ Holding(s)' /\ ~ Capturing(s)' /\ ~ Capturing(s) /\ ~ Doing(s, "expire")
             /\ Attended(s)'
  <2>1. req[s] \notin Assisted
    BY <1>1
  <2>2. ~ Capturing(s) /\ ~ Doing(s, "expire")
    BY <2>1, Kinds DEF Capturing, TypeInv
  <2>3. CASE req'[s] \notin Assisted
    <3>1. ~ Holding(s)' /\ ~ Capturing(s)' /\ Attended(s)'
      BY <2>3 DEF Holding, Capturing, Attended
    <3> QED
      BY <2>2, <3>1
  <2>4. CASE req'[s] \in Assisted /\ req'[s].live /\ Head(req'[s].todo) = "ai_quota"
    <3>1. ~ Holding(s)' /\ ~ Capturing(s)'
      BY <2>4, WhereItWillStand, Looks
    <3>2. Attended(s)'
      BY <2>4 DEF Attended
    <3> QED
      BY <2>2, <3>1, <3>2
  <2> QED
    BY <1>1, <2>3, <2>4
<1>2. ASSUME NEW s \in Slots, req'[s] = req[s]
      PROVE  /\ (Holding(s)' <=> Holding(s)) /\ (Capturing(s)' <=> Capturing(s))
             /\ (Doing(s, "expire")' <=> Doing(s, "expire")) /\ (Attended(s)' <=> Attended(s))
  BY <1>2 DEF Holding, Capturing, Doing, Attended
<1>3. LiveInv'
  BY <1>1, <1>2 DEF AssistanceInv, LiveInv
<1>4. EndlessInv'
  <2>1. Endless' \subseteq Endless
    BY <1>1, <1>2, NoNewEndless DEF assistVars
  <2> QED
    BY <2>1, EndlessStays DEF AssistanceInv
<1>5. WorkInv'
  <2> SUFFICES ASSUME NEW b \in Bodies
               PROVE  works'[b] + Cardinality(Held(b)') <= raced'[b] + lapses' + faults' + Marked(marker'[b])
    BY DEF WorkInv
  <2> DEFINE h == Cardinality(Held(b))  h1 == Cardinality(Held(b)')  f == faults  f1 == faults'
             w == works[b]  x == raced[b]  m == Marked(marker[b])
  <2>1. Held(b)' = {s \in Slots : Holding(s)' /\ req'[s].body = b}
    BY DEF Held
  <2>2. Held(b)' \subseteq Held(b)
    BY <1>1, <1>2, <2>1 DEF Held
  <2>3. h \in Nat /\ h1 \in Nat /\ h1 <= h
    BY <2>2, OnesUnderWay, NoMore DEF TypeInv
  <2>4. w + h <= x + lapses + f + m
    BY DEF WorkInv, AssistanceInv
  <2>5. f \in Nat /\ f1 \in Nat /\ f1 >= f /\ w \in Nat /\ x \in Nat /\ m \in {0, 1} /\ lapses \in Nat
    BY Numbers DEF TypeInv, Marked
  <2>6. works' = works /\ raced' = raced /\ lapses' = lapses /\ marker' = marker
    BY DEF assistVars
  <2>7. w + h1 <= x + lapses + f1 + m
    <3> HIDE DEF h, h1, f, f1, w, x, m
    <3> QED
      BY <2>3, <2>4, <2>5
  <2> QED
    BY <2>6, <2>7
<1>6. FreeInv'
  <2>1. Gone' = {s \in Slots : Capturing(s)' /\ ~ req'[s].live}
    BY DEF Gone
  <2>2. Gone' \subseteq Gone
    BY <1>1, <1>2, <2>1 DEF Gone
  <2>3. /\ Abandoned = {b \in Bodies : marker[b] = "processing" /\ \A s \in Slots : Capturing(s) => req[s].body # b}
        /\ Abandoned' = {b \in Bodies : /\ marker'[b] = "processing"
                                        /\ \A s \in Slots : Capturing(s)' => req'[s].body # b}
    BY AbandonedOnes, AbandonedThen DEF TypeInv
  <2>4. Abandoned' \subseteq Abandoned
    <3>1. marker' = marker
      BY DEF assistVars
    <3>2. \A s \in Slots : Capturing(s) => Capturing(s)' /\ req'[s].body = req[s].body
      BY <1>1, <1>2
    <3> QED
      BY <2>3, <3>1, <3>2
  <2> DEFINE a == Cardinality(Abandoned)  a1 == Cardinality(Abandoned')  f == faults  f1 == faults'
             g == Cardinality(Gone)  g1 == Cardinality(Gone')
  <2>5. g \in Nat /\ g1 \in Nat /\ g1 <= g
    BY <2>2, OnesUnderWay, NoMore DEF TypeInv
  <2>6. IsFiniteSet(Abandoned') /\ a \in Nat /\ a1 \in Nat /\ a1 <= a
    BY <2>4, NoMore DEF AssistanceInv, FreeInv
  <2>7. a + g <= f /\ f \in Nat /\ f1 \in Nat /\ f1 >= f
    BY DEF AssistanceInv, FreeInv, TypeInv
  <2>8. a1 + g1 <= f1
    <3> HIDE DEF a, a1, f, f1, g, g1
    <3> QED
      BY <2>5, <2>6, <2>7
  <2> QED
    BY <2>6, <2>8 DEF FreeInv
<1> QED
  BY <1>3, <1>4, <1>5, <1>6 DEF AssistanceInv

(* Every step of a request of assistance keeps the books of assistance.   *)
LEMMA AssistanceKept ==
    ASSUME TypeInv, TypeInv', AssistanceInv, NEW r \in Slots, AssistNext(r)
    PROVE  AssistanceInv'
<1>1. Accounts(r, req[r].body)
  BY AssistNextAccounts DEF AssistanceInv
<1>2. Others(r) /\ Attended(r)'
  BY <1>1 DEF Accounts, Assists
<1>3. \A s \in Slots \ {r} : Attended(s)' <=> Attended(s)
  <2> TAKE s \in Slots \ {r}
  <2>1. req'[s] = req[s]
    BY <1>2 DEF Others
  <2> QED
    BY <2>1 DEF Attended, Doing
<1>4. LiveInv'
  BY <1>2, <1>3 DEF AssistanceInv, LiveInv
<1> QED
  BY <1>1, <1>4, WorkKept, FreeKept, EndlessKept DEF AssistanceInv

(* What many requests point to is no more than they are.                   *)
LEMMA PointedTo ==
    ASSUME NEW S, IsFiniteSet(S), NEW f, DOMAIN f = S, f = [x \in S |-> f[x]],
           NEW A, IsFiniteSet(A), NEW B, B \subseteq A \cup {f[x] : x \in S}
    PROVE  /\ IsFiniteSet(B) /\ Cardinality(B) <= Cardinality(A) + Cardinality(S)
           /\ Cardinality(A) \in Nat /\ Cardinality(B) \in Nat /\ Cardinality(S) \in Nat
<1> DEFINE T == {f[x] : x \in S}
<1>1. f \in Surjection(S, T)
  BY DEF Surjection
<1>2. IsFiniteSet(T) /\ Cardinality(T) <= Cardinality(S)
  <2> HIDE DEF T
  <2> QED
    BY <1>1, FS_Surjection
<1> HIDE DEF T
<1>3. /\ IsFiniteSet(A \cup T) /\ Cardinality(A \cup T) = Cardinality(A) + Cardinality(T) - Cardinality(A \cap T)
      /\ IsFiniteSet(A \cap T)
  BY <1>2, FS_Union, FS_Intersection
<1>4. IsFiniteSet(B) /\ Cardinality(B) <= Cardinality(A \cup T)
  BY <1>3, FS_Subset DEF T
<1>5. /\ Cardinality(A) \in Nat /\ Cardinality(B) \in Nat /\ Cardinality(S) \in Nat
      /\ Cardinality(T) \in Nat /\ Cardinality(A \cap T) \in Nat /\ Cardinality(A \cup T) \in Nat
  BY <1>2, <1>3, <1>4, FS_CardinalityType
<1> QED
  BY <1>2, <1>3, <1>4, <1>5

IInv == TypeInv /\ AdmissionInv /\ AssistanceInv

(* A crash pays for every request it loses.                                *)
LEMMA CrashStep ==
    ASSUME IInv, Crash
    PROVE  IInv'
<1> DEFINE k == Cardinality(Busy)  f == faults  f1 == faults'
<1>1. /\ faults' = faults + Cardinality(Busy) /\ req' = [r \in Slots |-> Idle]
      /\ UNCHANGED <<now, begun, limitVars, assistVars>>
  BY DEF Crash, Busy
<1>2. IsFiniteSet(Busy) /\ k \in Nat
  BY FS_CardinalityType DEF IInv, TypeInv, RequestsInv
<1>3. f \in Nat /\ f1 \in Nat /\ f1 = f + k /\ faults' >= faults
  BY <1>1, <1>2 DEF IInv, TypeInv
<1>4. \A s \in Slots : /\ req'[s] = Idle /\ ~ Holding(s)' /\ ~ Capturing(s)' /\ Attended(s)'
                       /\ ~ Doing(s, "expire")' /\ req'[s] \notin Proxied
  <2> TAKE s \in Slots
  <2>1. req'[s] = Idle
    BY <1>1
  <2>2. Idle \notin Assisted /\ Idle \notin Proxied
    BY AssistedHeads, ProxiedHeads
  <2> QED
    BY <2>1, <2>2, IdleWillDoNothing DEF Attended
<1>5. TypeInv'
  <2>1. Busy' = {}
    BY <1>4 DEF Busy
  <2>2. RequestsInv'
    BY <1>1, <2>1, FS_EmptySet DEF RequestsInv
  <2> QED
    BY <1>1, <1>3, <2>2 DEF IInv, TypeInv, limitVars, assistVars
<1>6. AdmissionInv'
  <2>1. UNCHANGED <<hits, used, admitted, served, overlaps, escaped>> /\ revoked \subseteq revoked'
        /\ now' \in {now, now + 1}
    BY <1>1 DEF limitVars
  <2> QED
    BY <1>3, <1>4, <1>5, <2>1, AdmissionCarriedOver DEF IInv
<1>7. UNCHANGED <<count, until, marker, works, raced, lapses>>
  BY <1>1 DEF assistVars
<1>8. WorkInv'
  <2> SUFFICES ASSUME NEW b \in Bodies
               PROVE  works'[b] + Cardinality(Held(b)') <= raced'[b] + lapses' + faults' + Marked(marker'[b])
    BY DEF WorkInv
  <2> DEFINE h == Cardinality(Held(b))  h1 == Cardinality(Held(b)')
             w == works[b]  x == raced[b]  m == Marked(marker[b])
  <2>1. Held(b)' = {}
    BY <1>4 DEF Held
  <2>2. h \in Nat /\ h1 = 0
    BY <2>1, OnesUnderWay, FS_CardinalityType, FS_EmptySet DEF IInv, TypeInv
  <2>3. w + h <= x + lapses + f + m
    BY DEF WorkInv, AssistanceInv, IInv
  <2>4. w \in Nat /\ x \in Nat /\ m \in {0, 1} /\ lapses \in Nat
    BY DEF IInv, TypeInv, Marked
  <2>5. w + h1 <= x + lapses + f1 + m
    <3> HIDE DEF h, h1, f, f1, w, x, m, k
    <3> QED
      BY <1>2, <1>3, <2>2, <2>3, <2>4
  <2> QED
    BY <1>7, <2>5
<1>9. FreeInv'
  <2>1. Gone' = {}
    BY <1>4 DEF Gone
  <2>2. /\ Abandoned = {b \in Bodies : marker[b] = "processing" /\ \A s \in Slots : Capturing(s) => req[s].body # b}
        /\ Abandoned' = {b \in Bodies : /\ marker'[b] = "processing"
                                        /\ \A s \in Slots : Capturing(s)' => req'[s].body # b}
    BY <1>5, AbandonedOnes, AbandonedThen DEF IInv, TypeInv
  <2> DEFINE at == [s \in Busy |-> req[s].body]
             a == Cardinality(Abandoned)  a1 == Cardinality(Abandoned')  g == Cardinality(Gone)
  <2>3. Abandoned' \subseteq Abandoned \cup {at[s] : s \in Busy}
    <3> SUFFICES ASSUME NEW b \in Abandoned', b \notin Abandoned
                 PROVE  \E s \in Busy : at[s] = b
      OBVIOUS
    <3>1. PICK s \in Slots : Capturing(s) /\ req[s].body = b
      BY <1>7, <2>2
    <3>2. s \in Busy
      BY <3>1, IdleDoesNothing DEF Busy
    <3> QED
      BY <3>1, <3>2
  <2>4. IsFiniteSet(Abandoned)
    BY DEF IInv, AssistanceInv, FreeInv
  <2>5. IsFiniteSet(Abandoned') /\ a1 <= a + k /\ a \in Nat /\ a1 \in Nat
    <3>1. DOMAIN at = Busy /\ at = [s \in Busy |-> at[s]]
      OBVIOUS
    <3> HIDE DEF at
    <3> QED
      BY <1>2, <2>3, <2>4, <3>1, PointedTo
  <2>6. g \in Nat /\ a + g <= f
    BY OnesUnderWay, FS_CardinalityType DEF IInv, TypeInv, AssistanceInv, FreeInv
  <2>7. a1 + 0 <= f1
    <3> HIDE DEF a, a1, g, f, f1, k
    <3> QED
      BY <1>2, <1>3, <2>5, <2>6
  <2> QED
    BY <2>1, <2>5, <2>7, FS_EmptySet DEF FreeInv
<1>10. EndlessInv'
  <2> DEFINE at == [s \in Busy |-> req[s].user]
             a == Cardinality(Endless)  a1 == Cardinality(Endless')
  <2>1. Endless' \subseteq Endless \cup {at[s] : s \in Busy}
    <3> SUFFICES ASSUME NEW u \in Endless', u \notin Endless
                 PROVE  \E s \in Busy : at[s] = u
      OBVIOUS
    <3>1. PICK s \in Slots : Doing(s, "expire") /\ req[s].user = u
      BY <1>7, EndlessThen DEF Endless
    <3>2. s \in Busy
      BY <3>1, IdleDoesNothing DEF Busy
    <3> QED
      BY <3>1, <3>2
  <2>2. IsFiniteSet(Endless) /\ a <= f
    BY DEF IInv, AssistanceInv, EndlessInv
  <2>3. IsFiniteSet(Endless') /\ a1 <= a + k /\ a \in Nat /\ a1 \in Nat
    <3>1. DOMAIN at = Busy /\ at = [s \in Busy |-> at[s]]
      OBVIOUS
    <3> HIDE DEF at
    <3> QED
      BY <1>2, <2>1, <2>2, <3>1, PointedTo
  <2>4. a1 <= f1
    <3> HIDE DEF a, a1, f, f1, k
    <3> QED
      BY <1>2, <1>3, <2>2, <2>3
  <2> QED
    BY <2>3, <2>4 DEF EndlessInv
<1>11. LiveInv'
  BY <1>4 DEF LiveInv
<1> QED
  BY <1>5, <1>6, <1>8, <1>9, <1>10, <1>11 DEF IInv, AssistanceInv

(* A marker whose time is over frees its body, and is counted.             *)
LEMMA LapseStep ==
    ASSUME IInv, NEW b \in Bodies, Lapse(b)
    PROVE  IInv'
<1>1. /\ marker' = [marker EXCEPT ![b] = "none"] /\ lapses' = lapses + 1
      /\ UNCHANGED <<admissionVars, count, until, works, raced>>
  BY DEF Lapse
<1>2. UNCHANGED <<req, now, begun, faults, limitVars>>
  BY <1>1 DEF admissionVars
<1>3. TypeInv'
  BY <1>1, <1>2 DEF IInv, TypeInv, RequestsInv, Busy, limitVars
<1>4. AdmissionInv'
  <2>1. UNCHANGED <<hits, used, admitted, served, overlaps, escaped>> /\ revoked \subseteq revoked'
        /\ now' \in {now, now + 1} /\ faults' >= faults
    BY <1>2 DEF limitVars, IInv, TypeInv
  <2> QED
    BY <1>2, <1>3, <2>1, AdmissionCarriedOver DEF IInv
<1>5. \A s \in Slots : /\ (Holding(s)' <=> Holding(s)) /\ (Capturing(s)' <=> Capturing(s))
                       /\ (Doing(s, "expire")' <=> Doing(s, "expire")) /\ (Attended(s)' <=> Attended(s))
  BY <1>2 DEF Holding, Capturing, Doing, Attended
<1>6. LiveInv'
  BY <1>5 DEF IInv, AssistanceInv, LiveInv
<1>7. EndlessInv'
  <2>1. Endless' \subseteq Endless /\ faults' >= faults
    BY <1>1, <1>2, <1>5, NoNewEndless DEF IInv, TypeInv
  <2> QED
    BY <1>3, <2>1, EndlessStays DEF IInv, AssistanceInv
<1>8. \A c \in Bodies : marker'[c] = IF c = b THEN "none" ELSE marker[c]
  BY <1>1 DEF IInv, TypeInv
<1>9. WorkInv'
  <2> SUFFICES ASSUME NEW c \in Bodies
               PROVE  works[c] + Cardinality(Held(c)') <= raced[c] + (lapses + 1) + faults + Marked(marker'[c])
    BY <1>1, <1>2 DEF WorkInv
  <2> DEFINE h == Cardinality(Held(c))  h1 == Cardinality(Held(c)')
             w == works[c]  x == raced[c]  m == Marked(marker[c])  m1 == Marked(marker'[c])
  <2>1. Held(c)' = Held(c)
    BY <1>2, <1>5 DEF Held
  <2>2. h \in Nat /\ h1 = h
    BY <2>1, OnesUnderWay, FS_CardinalityType DEF IInv, TypeInv
  <2>3. w + h <= x + lapses + faults + m
    BY DEF WorkInv, AssistanceInv, IInv
  <2>4. w \in Nat /\ x \in Nat /\ m \in {0, 1} /\ m1 \in {0, 1} /\ lapses \in Nat /\ faults \in Nat
    BY DEF IInv, TypeInv, Marked
  <2>5. w + h1 <= x + (lapses + 1) + faults + m1
    <3> HIDE DEF h, h1, w, x, m, m1
    <3>1. c # b => m1 = m
      BY <1>8 DEF m, m1
    <3> QED
      BY <2>2, <2>3, <2>4, <3>1
  <2> QED
    BY <2>5
<1>10. FreeInv'
  <2>1. Gone' = Gone
    BY <1>2, <1>5 DEF Gone
  <2>2. /\ Abandoned = {c \in Bodies : marker[c] = "processing" /\ \A s \in Slots : Capturing(s) => req[s].body # c}
        /\ Abandoned' = {c \in Bodies : /\ marker'[c] = "processing"
                                        /\ \A s \in Slots : Capturing(s)' => req'[s].body # c}
    BY <1>3, AbandonedOnes, AbandonedThen DEF IInv, TypeInv
  <2>3. Abandoned' \subseteq Abandoned
    BY <1>2, <1>5, <1>8, <2>2
  <2> DEFINE a == Cardinality(Abandoned)  a1 == Cardinality(Abandoned')  g == Cardinality(Gone)
  <2>4. IsFiniteSet(Abandoned') /\ a \in Nat /\ a1 \in Nat /\ a1 <= a
    BY <2>3, NoMore DEF IInv, AssistanceInv, FreeInv
  <2>5. g \in Nat /\ a + g <= faults /\ faults \in Nat
    BY OnesUnderWay, FS_CardinalityType DEF IInv, TypeInv, AssistanceInv, FreeInv
  <2>6. a1 + g <= faults
    <3> HIDE DEF a, a1, g
    <3> QED
      BY <2>4, <2>5
  <2> QED
    BY <1>2, <2>1, <2>4, <2>6 DEF FreeInv
<1> QED
  BY <1>3, <1>4, <1>6, <1>7, <1>9, <1>10 DEF IInv, AssistanceInv

(* A request of assistance comes with a whole list.                        *)
LEMMA AssistMoves ==
    ASSUME TypeInv, NEW r \in Slots, NEW u \in Users, NEW b \in Bodies, NEW h \in Operations, Assist(r, u, b, h)
    PROVE  /\ req[r] = Idle /\ req'[r] \in Assisted /\ Others(r) /\ OneMoves(r)
           /\ req'[r].live /\ Head(req'[r].todo) = "ai_quota"
           /\ UNCHANGED <<now, faults, limitVars, assistVars>>
<1>1. h.asks \in [writes : BOOLEAN, streamed : BOOLEAN] /\ (h.needs = "nothing") \in BOOLEAN
  <2>1. \E needs \in {"file", "body", "id", "nothing"}, w \in BOOLEAN, s \in BOOLEAN :
          h = [needs |-> needs, asks |-> [writes |-> w, streamed |-> s]]
    BY OperationsAssumption
    DEF PostTranscription, PostNotes, PostDocument, PostFlashcards, PostQuiz, GetNotesSession,
        GetReadingSession, GetFlashcardSession, GetQuizSession, FetchStudyHistory, FetchNotesHistory,
        Handler, Operation, Transcribe, GenerateNotes, AnalyzeDocument, GenerateFlashcards, GenerateQuiz,
        GetSession, GetStudyHistory, GetNotesHistory
  <2> QED
    BY <2>1
<1> DEFINE todo == IF h.asks.writes THEN <<"ai_quota", "dedup", "ask">> ELSE <<"ai_quota", "ask">>
           asked(c) == [todo |-> todo, user |-> u, body |-> b, asks |-> h.asks, complete |-> c,
                        tries |-> 0, live |-> TRUE, ok |-> FALSE]
<1>2. PICK complete \in {TRUE, h.needs = "nothing"} : Begin(r, asked(complete))
  BY DEF Assist
<1>3. complete \in BOOLEAN
  BY <1>1, <1>2
<1>4. todo \in (IF h.asks.writes THEN WriteTodos ELSE ReadTodos) /\ Head(todo) = "ai_quota"
  <2>1. /\ Head(<<"ai_quota", "dedup", "ask">>) = "ai_quota" /\ Head(<<"ai_quota", "ask">>) = "ai_quota"
    BY Lists
  <2> QED
    BY <2>1 DEF WriteTodos, ReadTodos
<1> DEFINE q == asked(complete)
<1>5. q \in Assisted /\ q.live /\ Head(q.todo) = "ai_quota"
  <2> HIDE DEF todo, WriteTodos, ReadTodos
  <2> QED
    BY <1>1, <1>3, <1>4 DEF Assisted, AIRequest
<1>6. req[r] = Idle /\ req' = [req EXCEPT ![r] = q]
  BY <1>2 DEF Begin
<1> HIDE DEF q
<1>7. req'[r] = q /\ Others(r) /\ OneMoves(r)
  BY <1>6 DEF TypeInv, RequestsInv, Others, OneMoves
<1>8. UNCHANGED <<now, faults, limitVars, assistVars>>
  BY DEF Assist
<1> QED
  BY <1>5, <1>6, <1>7, <1>8

(* Nothing but requests has changed, and of those one.                     *)
LEMMA ArrivalType ==
    ASSUME TypeInv, NEW r \in Slots, OneMoves(r), req'[r] \in {Idle} \cup Proxied \cup Assisted,
           UNCHANGED <<now, faults, limitVars, assistVars>>
    PROVE  TypeInv'
<1>1. RequestsInv'
  BY RequestsStay DEF TypeInv
<1> QED
  BY <1>1 DEF TypeInv, limitVars, assistVars

(* The arrival of a request of assistance keeps the invariant.            *)
LEMMA AssistStep ==
    ASSUME IInv, NEW r \in Slots, NEW u \in Users, NEW b \in Bodies, NEW h \in Operations, Assist(r, u, b, h)
    PROVE  IInv'
<1>0. TypeInv /\ AdmissionInv /\ AssistanceInv
  BY DEF IInv
<1>1. /\ req[r] = Idle /\ req'[r] \in Assisted /\ Others(r) /\ OneMoves(r)
      /\ req'[r].live /\ Head(req'[r].todo) = "ai_quota"
      /\ UNCHANGED <<now, faults, limitVars, assistVars>>
  BY <1>0, AssistMoves
<1>2. TypeInv'
  BY <1>0, <1>1, ArrivalType
<1>3. faults' >= faults
  BY <1>0, <1>1 DEF TypeInv
<1>4. AdmissionInv'
  <2>1. UNCHANGED <<hits, used, admitted, served, overlaps, escaped>> /\ revoked \subseteq revoked'
        /\ now' \in {now, now + 1}
    BY <1>1 DEF limitVars
  <2>2. \A s \in Slots : req'[s] \in Proxied => req'[s] = req[s]
    BY <1>1, ProxiedHeads, AssistedHeads DEF Others
  <2> QED
    BY <1>0, <1>2, <1>3, <2>1, <2>2, AdmissionCarriedOver
<1>5. AssistanceInv'
  <2>1. req[r] \notin Assisted
    BY <1>1, AssistedHeads
  <2>2. \A s \in Slots : \/ req'[s] = req[s]
                         \/ /\ req[s] \notin Assisted
                            /\ req'[s] \notin Assisted \/ (req'[s].live /\ Head(req'[s].todo) = "ai_quota")
    BY <1>1, <2>1 DEF Others
  <2>3. UNCHANGED assistVars
    BY <1>1
  <2> QED
    BY <1>0, <1>2, <1>3, <2>2, <2>3, AssistanceCarriedOver
<1> QED
  BY <1>2, <1>4, <1>5 DEF IInv

(* The arrival of a request to proxy keeps the invariant.                 *)
LEMMA ArriveStep ==
    ASSUME IInv, NEW r \in Slots, NEW u \in Users, NEW p \in Paths, Arrive(r, u, p), UNCHANGED assistVars
    PROVE  IInv'
<1>0. TypeInv /\ AdmissionInv /\ AssistanceInv
  BY DEF IInv
<1>1. /\ req[r] = Idle /\ req'[r] \in Proxied /\ Others(r)
      /\ Doing(r, "token_blacklist")' /\ ~ Doing(r, "proxy")'
      /\ req'[r].late => Token("token_blacklist", req'[r].user) \in revoked
      /\ UNCHANGED <<now, faults, limitVars>>
  BY <1>0, ArriveMoves
<1>2. OneMoves(r)
  BY DEF Arrive, Begin, OneMoves
<1>3. TypeInv'
  BY <1>0, <1>1, <1>2, ArrivalType
<1>4. faults' >= faults
  BY <1>0, <1>1 DEF TypeInv
<1>5. AdmissionInv'
  <2>1. UNCHANGED <<hits, used, admitted, served, overlaps, escaped>> /\ revoked \subseteq revoked'
        /\ now' \in {now, now + 1}
    BY <1>1 DEF limitVars
  <2>2. \A s \in Slots : req'[s] \in Proxied =>
           \/ req'[s] = req[s]
           \/ /\ Doing(s, "token_blacklist")' /\ ~ Doing(s, "proxy")'
              /\ req'[s].late => Token("token_blacklist", req'[s].user) \in revoked
    BY <1>1 DEF Others
  <2> QED
    BY <1>0, <1>3, <1>4, <2>1, <2>2, AdmissionCarriedOver
<1>6. AssistanceInv'
  <2>1. req[r] \notin Assisted /\ req'[r] \notin Assisted
    BY <1>1, AssistedHeads, ProxiedHeads
  <2>2. \A s \in Slots : \/ req'[s] = req[s]
                         \/ /\ req[s] \notin Assisted
                            /\ req'[s] \notin Assisted \/ (req'[s].live /\ Head(req'[s].todo) = "ai_quota")
    BY <1>1, <2>1 DEF Others
  <2> QED
    BY <1>0, <1>3, <1>4, <2>2, AssistanceCarriedOver
<1> QED
  BY <1>3, <1>5, <1>6 DEF IInv

(* A step of a proxied request keeps the invariant.                       *)
LEMMA ProxyStepStep ==
    ASSUME IInv, NEW r \in Slots, ProxyStep(r), UNCHANGED assistVars
    PROVE  IInv'
<1>0. TypeInv /\ AdmissionInv /\ AssistanceInv
  BY DEF IInv
<1>1. TypeInv'
  BY <1>0, ProxyStepType
<1>2. AdmissionInv'
  BY <1>0, <1>1, RevokedKept, SecondsKept, QuotaKept DEF AdmissionInv
<1>3. Passes(r) /\ faults' \in {faults, faults + 1} /\ faults \in Nat
  BY <1>0, ProxyStepPasses DEF TypeInv
<1>4. AssistanceInv'
  <2>1. req[r] \notin Assisted /\ req'[r] \notin Assisted
    BY <1>3, AssistedHeads, ProxiedHeads DEF Passes
  <2>2. \A s \in Slots : \/ req'[s] = req[s]
                         \/ /\ req[s] \notin Assisted
                            /\ req'[s] \notin Assisted \/ (req'[s].live /\ Head(req'[s].todo) = "ai_quota")
    BY <1>3, <2>1 DEF Passes, Others
  <2>3. faults' >= faults
    BY <1>3
  <2> QED
    BY <1>0, <1>1, <2>2, <2>3, AssistanceCarriedOver
<1> QED
  BY <1>1, <1>2, <1>4 DEF IInv

(* A step of a request of assistance keeps the invariant.                 *)
LEMMA AssistNextStep ==
    ASSUME IInv, NEW r \in Slots, AssistNext(r)
    PROVE  IInv'
<1>0. TypeInv /\ AdmissionInv /\ AssistanceInv /\ LiveInv
  BY DEF IInv, AssistanceInv
<1>1. TypeInv'
  BY <1>0, AssistNextType
<1>2. AssistanceInv'
  BY <1>0, <1>1, AssistanceKept
<1>3. /\ Assists(r) /\ faults' \in {faults, faults + 1} /\ faults \in Nat
      /\ UNCHANGED <<now, limitVars>>
  BY <1>0, AssistNextAccounts DEF Accounts, TypeInv
<1>4. AdmissionInv'
  <2>1. UNCHANGED <<hits, used, admitted, served, overlaps, escaped>> /\ revoked \subseteq revoked'
        /\ now' \in {now, now + 1} /\ faults' >= faults
    BY <1>3 DEF limitVars
  <2>2. \A s \in Slots : req'[s] \in Proxied => req'[s] = req[s]
    BY <1>3, ProxiedHeads, AssistedHeads DEF Assists, Others
  <2> QED
    BY <1>0, <1>1, <2>1, <2>2, AdmissionCarriedOver
<1> QED
  BY <1>1, <1>2, <1>4 DEF IInv

(* The clock ticks, or a token is revoked: no request moves.               *)
LEMMA QuietStep ==
    ASSUME IInv, UNCHANGED assistVars, Tick \/ \E u \in Users : Revoke(u)
    PROVE  IInv'
<1>0. TypeInv /\ AdmissionInv /\ AssistanceInv
  BY DEF IInv
<1>1. /\ UNCHANGED <<req, faults, hits, used, admitted, served, overlaps, escaped>>
      /\ revoked \subseteq revoked' /\ now' \in {now, now + 1} /\ now' \in Times
  <2>1. CASE Tick
    BY <1>0, <2>1, AdmissionAssumption DEF Tick, limitVars, TypeInv, Times
  <2>2. CASE \E u \in Users : Revoke(u)
    BY <1>0, <2>2 DEF Revoke, TypeInv
  <2> QED
    BY <2>1, <2>2
<1>2. TypeInv'
  BY <1>0, <1>1 DEF TypeInv, RequestsInv, Busy, assistVars
<1>3. faults' >= faults
  BY <1>0, <1>1 DEF TypeInv
<1>4. AdmissionInv'
  BY <1>0, <1>1, <1>2, <1>3, AdmissionCarriedOver
<1>5. AssistanceInv'
  BY <1>0, <1>1, <1>2, <1>3, AssistanceCarriedOver
<1> QED
  BY <1>2, <1>4, <1>5 DEF IInv

(* The invariant holds when the gateway starts.                           *)
LEMMA Start ==
    ASSUME Init
    PROVE  IInv
<1> USE DEF Init, AdmissionInit
<1>1. \A r \in Slots : /\ req[r] = Idle /\ ~ Capturing(r) /\ ~ Holding(r) /\ req[r] \notin Proxied /\ Attended(r)
                       /\ ~ Doing(r, "expire")
  <2> TAKE r \in Slots
  <2>1. req[r] = Idle
    OBVIOUS
  <2>2. Idle \notin Proxied /\ Idle \notin Assisted
    BY ProxiedHeads, AssistedHeads
  <2> QED
    BY <2>1, <2>2, IdleDoesNothing DEF Attended
<1>2. TypeInv
  <2>1. Busy = {}
    BY <1>1 DEF Busy
  <2>2. RequestsInv
    BY <2>1, FS_EmptySet DEF RequestsInv
  <2>3. now \in Times
    BY AdmissionAssumption DEF Times
  <2>4. used \in [Users -> [Days -> Nat]] /\ served \in [Users -> [Days -> Nat]]
        /\ admitted \in [Users -> [Paths -> [Times -> Nat]]]
    BY DEF Days
  <2> QED
    BY <2>2, <2>3, <2>4 DEF TypeInv
<1>3. AdmissionInv
  <2>1. Through = {} /\ \A u \in Users, d \in Days : Asked(u, d) = {}
    BY <1>1 DEF Through, Late, Asked
  <2>2. \A u \in Users, p \in Paths : \A t \in Times : admitted[u][p][t] = 0
    OBVIOUS
  <2>3. \A u \in Users, p \in Paths : SecondsOf(u, p) = {} /\ SecondsOf(u, p) \ hits[u] = {}
    BY <2>2 DEF SecondsOf, Recent
  <2>4. Cardinality({}) = 0 /\ Quota \in Nat /\ \A p \in Paths : Limit[p] \in Nat
    BY FS_EmptySet, AdmissionAssumption
  <2>5. RevokedInv
    BY <1>1, <2>1, <2>4 DEF RevokedInv, Late
  <2>6. SecondsInv
    <3>1. \A u \in Users, p \in Paths : \A t \in Times : ~ (admitted[u][p][t] > 0)
      BY <2>2
    <3>2. faults = 0 /\ overlaps = 0
      OBVIOUS
    <3>3. ASSUME NEW u \in Users, NEW p \in Paths
          PROVE  /\ Cardinality(SecondsOf(u, p) \ hits[u]) <= faults
                 /\ Cardinality(SecondsOf(u, p)) <= Limit[p] + 1 + faults + overlaps
      <4>1. Cardinality(SecondsOf(u, p)) = 0 /\ Cardinality(SecondsOf(u, p) \ hits[u]) = 0 /\ Limit[p] \in Nat
        BY <2>3, <2>4
      <4> QED
        BY <3>2, <4>1
    <3> QED
      BY <3>1, <3>3 DEF SecondsInv
  <2>7. QuotaInv
    <3>1. \A u \in Users, d \in Days : served[u][d] = 0 /\ used[u][d] = 0
      BY DEF Days
    <3>2. \A u \in Users, d \in Days : Cardinality(Asked(u, d)) = 0
      BY <2>1, <2>4
    <3>3. faults = 0
      OBVIOUS
    <3>4. ASSUME NEW u \in Users, NEW d \in Days
          PROVE  /\ served[u][d] + Cardinality(Asked(u, d)) <= Quota + faults
                 /\ served[u][d] + Cardinality(Asked(u, d)) <= used[u][d] + faults
      <4> DEFINE s == served[u][d]  w == used[u][d]  c == Cardinality(Asked(u, d))  f == faults
      <4>1. s = 0 /\ w = 0 /\ c = 0 /\ f = 0
        BY <3>1, <3>2, <3>3
      <4> HIDE DEF s, w, c, f
      <4>2. s + c <= Quota + f /\ s + c <= w + f
        BY <2>4, <4>1
      <4> QED
        BY <4>2 DEF s, w, c, f
    <3> QED
      BY <3>4 DEF QuotaInv
  <2> QED
    BY <2>5, <2>6, <2>7 DEF AdmissionInv
<1>4. AssistanceInv
  <2>1. Gone = {} /\ Endless = {} /\ Abandoned = {} /\ \A b : Held(b) = {}
    BY <1>1 DEF Gone, Endless, Abandoned, Held
  <2>2. Cardinality({}) = 0 /\ IsFiniteSet({})
    BY FS_EmptySet
  <2>3. WorkInv
    <3>1. \A b \in Bodies : works[b] = 0 /\ raced[b] = 0 /\ Marked(marker[b]) = 0 /\ Cardinality(Held(b)) = 0
      BY <2>1, <2>2 DEF Marked
    <3>2. faults = 0 /\ lapses = 0
      OBVIOUS
    <3> QED
      BY <3>1, <3>2 DEF WorkInv
  <2>4. FreeInv /\ EndlessInv
    BY <2>1, <2>2 DEF FreeInv, EndlessInv
  <2>5. LiveInv
    BY <1>1 DEF LiveInv
  <2> QED
    BY <2>3, <2>4, <2>5 DEF AssistanceInv
<1> QED
  BY <1>2, <1>3, <1>4 DEF IInv

(* Every step keeps the invariant.                                        *)
LEMMA Step ==
    ASSUME IInv, [Next]_vars
    PROVE  IInv'
<1>1. ASSUME NEW r \in Slots, AdmissionNext(r), UNCHANGED assistVars PROVE IInv'
  <2>1. CASE \E u \in Users, p \in Paths : Arrive(r, u, p)
    BY <1>1, <2>1, ArriveStep
  <2>2. CASE ProxyStep(r)
    BY <1>1, <2>2, ProxyStepStep
  <2> QED
    BY <1>1, <2>1, <2>2 DEF AdmissionNext, ProxyStep
<1>2. CASE UNCHANGED vars
  <2>1. UNCHANGED <<req, now, begun, faults, limitVars, assistVars>>
    BY <1>2 DEF vars, admissionVars
  <2>2. TypeInv /\ AdmissionInv /\ AssistanceInv
    BY DEF IInv
  <2>3. TypeInv'
    BY <2>1, <2>2 DEF TypeInv, RequestsInv, Busy, limitVars, assistVars
  <2>4. /\ UNCHANGED <<hits, used, admitted, served, overlaps, escaped>> /\ revoked \subseteq revoked'
        /\ now' \in {now, now + 1} /\ faults' >= faults
    BY <2>1, <2>2 DEF limitVars, TypeInv
  <2>5. AdmissionInv'
    BY <2>1, <2>2, <2>3, <2>4, AdmissionCarriedOver
  <2>6. AssistanceInv'
    BY <2>1, <2>2, <2>3, <2>4, AssistanceCarriedOver
  <2> QED
    BY <2>3, <2>5, <2>6 DEF IInv
<1>3. CASE Crash
  BY <1>3, CrashStep
<1> QED
  BY <1>1, <1>2, <1>3, AssistStep, AssistNextStep, QuietStep, LapseStep DEF Next

(* The variables of the gateway's middleware keep their types: every      *)
(* request under way has a list of its path or its operation still to     *)
(* do.                                                                    *)
THEOREM TypeCorrect == Spec => []TypeInv
<1>1. IInv => TypeInv
  BY DEF IInv
<1> QED
  BY <1>1, Start, Step, PTL DEF Spec

(* For any number of users, requests, paths, and any limits: whose token  *)
(* was revoked before the request came is not served, no more seconds of  *)
(* a window let a user's requests pass than the limit and one, no more    *)
(* AI requests a day are proxied than the quota, and no counter stays     *)
(* without an end, but for what failures and overlaps account for         *)
(* (jwt.go, rate_limit.go, ai_quota.go).                                  *)
THEOREM LimitsAreKept == Spec => []LimitsHold
<1>1. ASSUME IInv PROVE LimitsHold
  <2>0. TypeInv /\ RevokedInv /\ SecondsInv /\ QuotaInv /\ EndlessInv
    BY <1>1 DEF IInv, AdmissionInv, AssistanceInv
  <2>1. RevokedRefused
    <3> DEFINE c == Cardinality(Through)
    <3>1. c \in Nat /\ escaped \in Nat /\ faults \in Nat /\ escaped + c <= faults
      BY <2>0, ThroughIsBusy, BusyOnes DEF TypeInv, RevokedInv
    <3> HIDE DEF c
    <3> QED
      BY <3>1 DEF RevokedRefused
  <2>2. SecondsLimited
    BY <2>0 DEF SecondsInv, SecondsLimited, SecondsOf
  <2>3. QuotaHolds
    <3> SUFFICES ASSUME NEW u \in Users, NEW d \in DOMAIN served[u]
                 PROVE  served[u][d] <= Quota + faults
      BY DEF QuotaHolds
    <3> DEFINE c == Cardinality(Asked(u, d))
    <3>1. d \in Days /\ served[u][d] \in Nat /\ faults \in Nat /\ Quota \in Nat
      BY <2>0, AdmissionAssumption DEF TypeInv
    <3>2. c \in Nat
      BY <2>0, <3>1, AskedIsBusy, BusyOnes DEF TypeInv
    <3>3. served[u][d] + c <= Quota + faults
      BY <2>0, <3>1 DEF QuotaInv
    <3> HIDE DEF c
    <3> QED
      BY <3>1, <3>2, <3>3
  <2> QED
    BY <2>0, <2>1, <2>2, <2>3 DEF LimitsHold, EndlessInv, QuotaExpires
<1> QED
  BY <1>1, Start, Step, PTL DEF Spec

(* For any number of bodies and requests: a body is worked on once, but   *)
(* for what marks written over, answers that could not be kept, markers   *)
(* whose time was over and failures account for; and a marker nobody      *)
(* works under stands for a failure (ai_dedup.go).                        *)
THEOREM RepeatsAreHandled == Spec => []RepeatsHandled
<1>1. ASSUME IInv PROVE RepeatsHandled
  <2>0. TypeInv /\ WorkInv /\ FreeInv
    BY <1>1 DEF IInv, AssistanceInv
  <2>1. OneWorkPerBody
    <3> SUFFICES ASSUME NEW b \in Bodies
                 PROVE  works[b] <= 1 + raced[b] + lapses + faults
      BY DEF OneWorkPerBody
    <3> DEFINE c == Cardinality(Held(b))  w == works[b]  x == raced[b]  m == Marked(marker[b])
    <3>1. c \in Nat /\ w \in Nat /\ x \in Nat /\ m \in {0, 1} /\ lapses \in Nat /\ faults \in Nat
      BY <2>0, OnesUnderWay, FS_CardinalityType DEF TypeInv, Marked
    <3>2. w + c <= x + lapses + faults + m
      BY <2>0 DEF WorkInv
    <3>3. w <= 1 + x + lapses + faults
      <4> HIDE DEF c, w, x, m
      <4> QED
        BY <3>1, <3>2
    <3> QED
      BY <3>3
  <2>2. MarkerFreed
    <3> DEFINE a == Cardinality(Abandoned)  g == Cardinality(Gone)
    <3>1. a \in Nat /\ g \in Nat /\ faults \in Nat /\ a + g <= faults
      BY <2>0, OnesUnderWay, FS_CardinalityType DEF TypeInv, FreeInv
    <3>2. a <= faults
      <4> HIDE DEF a, g
      <4> QED
        BY <3>1
    <3> QED
      BY <3>2 DEF MarkerFreed
  <2> QED
    BY <2>1, <2>2 DEF RepeatsHandled
<1> QED
  BY <1>1, Start, Step, PTL DEF Spec

-----------------------------------------------------------------------------
(* The client of the orchestrator.                                         *)
LEMMA Bounds ==
    /\ MaxFailures \in Nat /\ MaxFailures > 0 /\ Timeout \in Nat /\ MaxRetries \in Nat
    /\ MaxOutages \in Nat /\ MaxCancels \in Nat
BY ClientAssumption, SMT

LEMMA StateNowType ==
    ASSUME state \in States
    PROVE  /\ StateNow \in States
           /\ state = "closed" <=> StateNow = "closed"
           /\ Admits(StateNow) <=> StateNow \in {"closed", "half-open"}
BY SMT DEF States, StateNow, Admits

(* What a finished request leaves behind has the right type.               *)
LEMMA ReturnType ==
    ASSUME ClientTypeOK, NEW c \in Callers, NEW a \in Answers, Return(c, a)
    PROVE  /\ pc' \in [Callers -> {"idle", "calling", "answered", "backoff"}]
           /\ gone' \subseteq Callers
           /\ answer' \in [Callers -> Answers]
           /\ \A d \in Callers : pc'[d] = "backoff" => pc[d] = "backoff"
BY DEF ClientTypeOK, Return

LEMMA EnterType ==
    ASSUME ClientTypeOK, NEW c \in Callers, NEW n \in 0..MaxRetries, Enter(c, n)
    PROVE  ClientTypeOK'
<1> USE DEF ClientTypeOK
<1>1. StateNow \in States /\ (Admits(StateNow) <=> StateNow \in {"closed", "half-open"})
  BY StateNowType
<1>2. CASE Admits(StateNow)
  <2>1. /\ pc' = [pc EXCEPT ![c] = "calling"]
        /\ before' = [before EXCEPT ![c] = StateNow]
        /\ attempt' = [attempt EXCEPT ![c] = n]
        /\ UNCHANGED <<gone, answer, failures, age, result, world>>
        /\ state' = StateNow
    BY <1>2 DEF Enter
  <2>2. \A d \in Callers : pc'[d] = "backoff" => d # c /\ pc[d] = "backoff"
    BY <2>1
  <2>3. \A d \in Callers : pc'[d] = "backoff" => attempt'[d] < MaxRetries
    BY <2>1, <2>2
  <2> QED
    BY <1>1, <1>2, <2>1, <2>3 DEF world
<1>3. CASE ~ Admits(StateNow)
  <2>1. "rejected" \in Answers
    BY DEF Answers
  <2>2. Return(c, "rejected") /\ UNCHANGED <<before, attempt, failures, age, result, world>>
    BY <1>3 DEF Enter
  <2>3. state' \in States
    BY <1>1 DEF Enter
  <2> QED
    BY <2>1, <2>2, <2>3, ReturnType DEF world
<1> QED
  BY <1>2, <1>3

LEMMA RecordType ==
    ASSUME ClientTypeOK, NEW c \in Callers, Record(c)
    PROVE  ClientTypeOK'
<1> USE DEF ClientTypeOK
<1>1. state' \in States /\ failures' \in 0..MaxFailures /\ age' \in 0..(Timeout + 1)
  <2>1. CASE result[c] = "failed"
    BY <2>1, Bounds, SMT DEF Record, RecordFailure, UpTo, States
  <2>2. CASE result[c] # "failed"
    BY <2>2, Bounds, SMT DEF Record, RecordSuccess, States
  <2> QED
    BY <2>1, <2>2
<1>2. /\ pc' \in [Callers -> {"idle", "calling", "answered", "backoff"}]
      /\ gone' \subseteq Callers
      /\ answer' \in [Callers -> Answers]
      /\ \A d \in Callers : pc'[d] = "backoff" => attempt[d] < MaxRetries
  <2>1. CASE Return(c, result[c])
    <3>1. result[c] \in Answers
      BY DEF Answers
    <3> QED
      BY <2>1, <3>1, ReturnType
  <2>2. CASE ~ Return(c, result[c])
    BY <2>2 DEF Record, RetriesLeft
  <2> QED
    BY <2>1, <2>2
<1> QED
  BY <1>1, <1>2 DEF Record, world

LEMMA ClientTypesFirst == ClientInit => ClientTypeOK
<1>1. 0 \in 0..MaxFailures /\ Timeout + 1 \in 0..(Timeout + 1) /\ 0 \in 0..MaxRetries
      /\ 0 \in 0..MaxOutages /\ 0 \in 0..MaxCancels
  BY Bounds, SMT
<1> SUFFICES ASSUME ClientInit PROVE ClientTypeOK
  OBVIOUS
<1> USE DEF ClientInit
<1>2. state \in States /\ failures \in 0..MaxFailures /\ age \in 0..(Timeout + 1)
  BY <1>1 DEF States
<1>3. /\ pc \in [Callers -> {"idle", "calling", "answered", "backoff"}]
      /\ \A c \in Callers : pc[c] # "backoff"
      /\ before \in [Callers -> {"closed", "half-open"}]
  OBVIOUS
<1>4. /\ attempt \in [Callers -> 0..MaxRetries]
      /\ result \in [Callers -> Results] /\ answer \in [Callers -> Answers]
  BY <1>1 DEF Results, Answers
<1>5. /\ gone \subseteq Callers /\ down \in BOOLEAN
      /\ outages \in 0..MaxOutages /\ cancels \in 0..MaxCancels
  BY <1>1
<1> QED
  BY <1>2, <1>3, <1>4, <1>5 DEF ClientTypeOK

LEMMA ClientTypesStep == ClientTypeOK /\ [ClientNext]_clientVars => ClientTypeOK'
<1> SUFFICES ASSUME ClientTypeOK, [ClientNext]_clientVars PROVE ClientTypeOK'
  OBVIOUS
<1>1. ASSUME NEW c \in Callers, Request(c) PROVE ClientTypeOK'
  <2>1. 0 \in 0..MaxRetries
    BY Bounds, SMT
  <2> QED
    BY <1>1, <2>1, EnterType DEF Request
<1>2. ASSUME NEW c \in Callers, Retry(c) PROVE ClientTypeOK'
  <2>1. attempt[c] \in 0..MaxRetries /\ attempt[c] < MaxRetries
    BY <1>2 DEF Retry, ClientTypeOK
  <2>2. NextAttempt(attempt[c]) \in 0..MaxRetries
    BY <2>1, Bounds, SMT DEF NextAttempt
  <2> QED
    BY <1>2, <2>2, EnterType DEF Retry
<1>3. ASSUME NEW c \in Callers, GiveUp(c) PROVE ClientTypeOK'
  <2>1. "cancelled" \in Answers
    BY DEF Answers
  <2> QED
    BY <1>3, <2>1, ReturnType DEF GiveUp, ClientTypeOK, breaker, world
<1>4. ASSUME NEW c \in Callers, NEW r \in Results, Responded(c, r) PROVE ClientTypeOK'
  BY <1>4 DEF Responded, ClientTypeOK, breaker, world
<1>5. ASSUME NEW c \in Callers, Record(c) PROVE ClientTypeOK'
  BY <1>5, RecordType
<1>6. ASSUME NEW c \in Callers, Cancel(c) PROVE ClientTypeOK'
  <2>1. cancels' \in 0..MaxCancels
    BY <1>6, Bounds, SMT DEF Cancel, ClientTypeOK
  <2> QED
    BY <1>6, <2>1 DEF Cancel, ClientTypeOK, breaker
<1>7. CASE TimePasses
  BY <1>7, Bounds, SMT DEF TimePasses, ClientTypeOK, callers, world
<1>8. CASE BreakDown
  BY <1>8, Bounds, SMT DEF BreakDown, ClientTypeOK, callers, breaker
<1>9. CASE Repair
  BY <1>9 DEF Repair, ClientTypeOK, callers, breaker
<1>10. CASE UNCHANGED clientVars
  BY <1>10 DEF clientVars, breaker, callers, world, ClientTypeOK
<1> QED
  BY <1>1, <1>2, <1>3, <1>4, <1>5, <1>6, <1>7, <1>8, <1>9, <1>10 DEF ClientNext, CallerStep

(* Every variable keeps its type, and only attempts that are not the last  *)
(* are followed by a backoff.                                              *)
THEOREM ClientTypes == ClientSpec => []ClientTypeOK
BY ClientTypesFirst, ClientTypesStep, PTL DEF ClientSpec

-----------------------------------------------------------------------------
(* A step that changes the breaker is a currentState, a recordResult or    *)
(* the passing of time.                                                    *)
LEMMA BreakerSteps ==
    ASSUME ClientTypeOK, [ClientNext]_clientVars
    PROVE  \/ UNCHANGED breaker
           \/ state' = StateNow /\ UNCHANGED <<failures, age>>
           \/ \E c \in Callers : pc[c] = "answered" /\ (RecordFailure(c) \/ RecordSuccess(c))
           \/ TimePasses
<1>1. ASSUME NEW c \in Callers, CallerStep(c)
      PROVE  \/ UNCHANGED breaker
             \/ state' = StateNow /\ UNCHANGED <<failures, age>>
             \/ pc[c] = "answered" /\ (RecordFailure(c) \/ RecordSuccess(c))
  BY <1>1 DEF CallerStep, Request, Retry, Enter, GiveUp, Responded, Record, breaker
<1>2. ASSUME NEW c \in Callers, Cancel(c) PROVE UNCHANGED breaker
  BY <1>2 DEF Cancel
<1>3. BreakDown \/ Repair \/ UNCHANGED clientVars => UNCHANGED breaker
  BY DEF BreakDown, Repair, clientVars
<1> QED
  BY <1>1, <1>2, <1>3 DEF ClientNext

(* No result, however late it comes in and whatever state it belongs to,   *)
(* leaves the circuit closed with its threshold reached.                   *)
THEOREM ClosedIsBelow == ClientSpec => []ClosedBelowThreshold
<1>1. ClientInit => ClosedBelowThreshold
  BY Bounds, SMT DEF ClientInit, ClosedBelowThreshold
<1>2. ClientTypeOK /\ ClosedBelowThreshold /\ [ClientNext]_clientVars => ClosedBelowThreshold'
  <2> SUFFICES ASSUME ClientTypeOK, ClosedBelowThreshold, [ClientNext]_clientVars PROVE ClosedBelowThreshold'
    OBVIOUS
  <2> USE DEF ClosedBelowThreshold
  <2>1. CASE UNCHANGED breaker
    BY <2>1 DEF breaker
  <2>2. CASE state' = StateNow /\ UNCHANGED <<failures, age>>
    BY <2>2 DEF StateNow
  <2>3. ASSUME NEW c \in Callers, RecordFailure(c) PROVE ClosedBelowThreshold'
    BY <2>3, Bounds, SMT DEF RecordFailure, UpTo, Threshold, ClientTypeOK
  <2>4. ASSUME NEW c \in Callers, RecordSuccess(c) PROVE ClosedBelowThreshold'
    BY <2>4, Bounds, SMT DEF RecordSuccess
  <2>5. CASE TimePasses
    BY <2>5 DEF TimePasses
  <2> QED
    BY <2>1, <2>2, <2>3, <2>4, <2>5, BreakerSteps
<1> QED
  BY <1>1, <1>2, ClientTypes, PTL DEF ClientSpec

-----------------------------------------------------------------------------
LEMMA ProtocolStep ==
    ASSUME ClientTypeOK, UpToDate, [ClientNext]_clientVars
    PROVE  [Protocol!Next]_(Protocol!vars)
<1> USE DEF Protocol!Next, Protocol!vars
<1>1. CASE UNCHANGED breaker
  BY <1>1 DEF breaker, Cooled
<1>2. CASE state' = StateNow /\ UNCHANGED <<failures, age>>
  BY <1>2 DEF StateNow, Cooled, Protocol!Test
<1>3. ASSUME NEW c \in Callers, RecordFailure(c) PROVE Protocol!Fail
  <2>1. ~ Cooled'
    BY <1>3, Bounds, SMT DEF RecordFailure, Cooled
  <2> QED
    BY <1>3, <2>1 DEF RecordFailure, Protocol!Fail
<1>4. ASSUME NEW c \in Callers, pc[c] = "answered", RecordSuccess(c)
      PROVE  [Protocol!Next]_(Protocol!vars)
  <2>1. before[c] = state
    BY <1>4 DEF UpToDate
  <2> QED
    BY <1>4, <2>1 DEF RecordSuccess, Cooled, Protocol!Recover
<1>5. CASE TimePasses
  BY <1>5, Bounds, SMT DEF TimePasses, ClientTypeOK, Cooled, Protocol!CoolDown
<1> QED
  BY <1>1, <1>2, <1>3, <1>4, <1>5, BreakerSteps

(* For any number of requests: a step against the protocol is a result of  *)
(* a call that began in another state.                                     *)
THEOREM OnlyStaleResultsBreakIt == ClientSpec => ProtocolUnlessStale
<1>1. ClientTypeOK /\ [ClientNext]_clientVars => (UpToDate => [Protocol!Next]_(Protocol!vars))
  BY ProtocolStep
<1> QED
  BY <1>1, ClientTypes, PTL DEF ClientSpec, ProtocolUnlessStale

-----------------------------------------------------------------------------
(* Failures the circuit is still to hear of: without an outage they are    *)
(* those of users who left.                                                *)
Unheard ==
    {c \in Callers : (pc[c] = "answered" /\ result[c] = "failed") \/ (pc[c] = "calling" /\ c \in gone)}

(* Without an outage every failure, counted or unheard, stands for a user  *)
(* who left, and no state but closed was reached with fewer of them than   *)
(* the threshold.                                                          *)
Blamed ==
    /\ \A c \in Callers : pc[c] = "idle" => c \notin gone
    /\ outages = 0 =>
         /\ ~ down /\ IsFiniteSet(Unheard) /\ failures + Cardinality(Unheard) <= cancels
         /\ state # "closed" => cancels >= MaxFailures
         /\ \A c \in Callers : before[c] = "half-open" => cancels >= MaxFailures

LEMMA FewerUnheard ==
    ASSUME NEW S, NEW T, IsFiniteSet(S), T \subseteq S
    PROVE  IsFiniteSet(T) /\ Cardinality(T) \in Nat /\ Cardinality(S) \in Nat /\ Cardinality(T) <= Cardinality(S)
BY FS_Subset, FS_CardinalityType

LEMMA OneUnheardMore ==
    ASSUME NEW S, NEW x, IsFiniteSet(S)
    PROVE  /\ IsFiniteSet(S \cup {x}) /\ Cardinality(S \cup {x}) \in Nat /\ Cardinality(S) \in Nat
           /\ Cardinality(S \cup {x}) <= Cardinality(S) + 1
           /\ x \notin S => Cardinality(S \cup {x}) = Cardinality(S) + 1
<1>1. Cardinality(S) \in Nat
  BY FS_CardinalityType
<1>2. /\ IsFiniteSet(S \cup {x})
      /\ Cardinality(S \cup {x}) = (IF x \in S THEN Cardinality(S) ELSE Cardinality(S) + 1)
  BY FS_AddElement
<1> QED
  BY <1>1, <1>2

(* A step after which nobody new is unheard and the circuit is as it was.  *)
LEMMA NothingNewToBlame ==
    ASSUME ClientTypeOK, ClientTypeOK', Blamed, \A c \in Callers : pc'[c] = "idle" => c \notin gone',
           Unheard' \subseteq Unheard, UNCHANGED <<failures, world>>,
           state' = state \/ state # "closed",
           \A c \in Callers : before'[c] = "half-open" => before[c] = "half-open" \/ state # "closed"
    PROVE  Blamed'
<1>1. outages' = outages /\ down' = down /\ cancels' = cancels /\ failures' = failures
  BY DEF world
<1> SUFFICES ASSUME outages = 0
             PROVE  /\ ~ down' /\ IsFiniteSet(Unheard') /\ failures' + Cardinality(Unheard') <= cancels'
                    /\ state' # "closed" => cancels' >= MaxFailures
                    /\ \A c \in Callers : before'[c] = "half-open" => cancels' >= MaxFailures
  BY <1>1 DEF Blamed
<1>2. /\ ~ down /\ IsFiniteSet(Unheard) /\ failures + Cardinality(Unheard) <= cancels
      /\ state # "closed" => cancels >= MaxFailures
      /\ \A c \in Callers : before[c] = "half-open" => cancels >= MaxFailures
  BY DEF Blamed
<1> DEFINE S == Unheard  T == Unheard'
<1>3. IsFiniteSet(T) /\ Cardinality(T) \in Nat /\ Cardinality(S) \in Nat /\ Cardinality(T) <= Cardinality(S)
  <2> HIDE DEF S, T
  <2> QED
    BY <1>2, FewerUnheard DEF S, T
<1>4. failures + Cardinality(T) <= cancels
  <2> DEFINE s == Cardinality(S)  t == Cardinality(T)
  <2>1. s \in Nat /\ t \in Nat /\ t <= s /\ failures + s <= cancels /\ failures \in Nat /\ cancels \in Nat
    BY <1>2, <1>3, Bounds DEF ClientTypeOK
  <2> HIDE DEF s, t
  <2>2. failures + t <= cancels
    BY <2>1
  <2> QED
    BY <2>2 DEF t
<1> QED
  BY <1>1, <1>2, <1>3, <1>4

LEMMA BlamedStep == ClientTypeOK /\ ClientTypeOK' /\ Blamed /\ [ClientNext]_clientVars => Blamed'
<1> SUFFICES ASSUME ClientTypeOK, ClientTypeOK', Blamed, [ClientNext]_clientVars PROVE Blamed'
  OBVIOUS
<1>0. \A c \in Callers : pc[c] = "idle" => c \notin gone
  BY DEF Blamed
<1>1. ASSUME NEW c \in Callers, NEW n, Enter(c, n), pc[c] \in {"idle", "backoff"}, c \notin gone
      PROVE  Blamed'
  <2>1. CASE Admits(StateNow)
    <3>1. /\ pc' = [pc EXCEPT ![c] = "calling"] /\ before' = [before EXCEPT ![c] = StateNow]
          /\ UNCHANGED <<gone, failures, result, world>> /\ state' = StateNow
      BY <1>1, <2>1 DEF Enter
    <3>2. \A d \in Callers : pc'[d] = "idle" => d \notin gone'
      BY <1>0, <3>1 DEF ClientTypeOK
    <3>3. Unheard' \subseteq Unheard
      BY <1>1, <3>1 DEF Unheard, ClientTypeOK
    <3>4. StateNow = state \/ state # "closed"
      BY DEF StateNow
    <3>5. StateNow = "half-open" => state # "closed"
      BY DEF StateNow
    <3>6. \A d \in Callers : before'[d] = "half-open" => before[d] = "half-open" \/ state # "closed"
      BY <3>1, <3>5 DEF ClientTypeOK
    <3> QED
      BY <3>1, <3>2, <3>3, <3>4, <3>6, NothingNewToBlame
  <2>2. CASE ~ Admits(StateNow)
    <3>1. /\ pc' = [pc EXCEPT ![c] = "idle"] /\ gone' = gone \ {c}
          /\ UNCHANGED <<before, failures, result, world>> /\ state' = StateNow
      BY <1>1, <2>2 DEF Enter, Return
    <3>2. \A d \in Callers : pc'[d] = "idle" => d \notin gone'
      BY <1>0, <3>1 DEF ClientTypeOK
    <3>3. Unheard' \subseteq Unheard
      BY <3>1 DEF Unheard, ClientTypeOK
    <3>4. StateNow = state \/ state # "closed"
      BY DEF StateNow
    <3> QED
      BY <3>1, <3>2, <3>3, <3>4, NothingNewToBlame
  <2> QED
    BY <2>1, <2>2
<1>2. ASSUME NEW c \in Callers, Request(c) PROVE Blamed'
  BY <1>0, <1>1, <1>2 DEF Request
<1>3. ASSUME NEW c \in Callers, Retry(c) PROVE Blamed'
  BY <1>1, <1>3 DEF Retry
<1>4. ASSUME NEW c \in Callers, GiveUp(c) PROVE Blamed'
  <2>1. /\ pc' = [pc EXCEPT ![c] = "idle"] /\ gone' = gone \ {c}
        /\ UNCHANGED <<state, failures, before, result, world>>
    BY <1>4 DEF GiveUp, Return, breaker
  <2>2. \A d \in Callers : pc'[d] = "idle" => d \notin gone'
    BY <1>0, <2>1 DEF ClientTypeOK
  <2>3. Unheard' \subseteq Unheard
    BY <2>1 DEF Unheard, ClientTypeOK
  <2> QED
    BY <2>1, <2>2, <2>3, NothingNewToBlame
<1>5. ASSUME NEW c \in Callers, NEW r \in Results, Responded(c, r) PROVE Blamed'
  <2>1. /\ pc[c] = "calling" /\ (r = "failed" <=> (down \/ c \in gone))
        /\ result' = [result EXCEPT ![c] = r] /\ pc' = [pc EXCEPT ![c] = "answered"]
        /\ UNCHANGED <<state, failures, before, gone, world>>
    BY <1>5 DEF Responded, breaker
  <2>2. \A d \in Callers : pc'[d] = "idle" => d \notin gone'
    BY <1>0, <2>1 DEF ClientTypeOK
  <2>3. CASE outages = 0
    <3>1. ~ down
      BY <2>3 DEF Blamed
    <3>2. Unheard' \subseteq Unheard
      BY <2>1, <3>1 DEF Unheard, ClientTypeOK
    <3> QED
      BY <2>1, <2>2, <3>2, NothingNewToBlame
  <2>4. CASE outages # 0
    BY <2>1, <2>2, <2>4 DEF Blamed, world
  <2> QED
    BY <2>3, <2>4
<1>6. ASSUME NEW c \in Callers, Record(c) PROVE Blamed'
  <2>1. /\ pc[c] = "answered" /\ pc' \in [Callers -> {"idle", "calling", "answered", "backoff"}]
        /\ pc'[c] \in {"idle", "backoff"} /\ \A d \in Callers : d # c => pc'[d] = pc[d]
        /\ \A d \in Callers : d # c => (d \in gone' <=> d \in gone)
        /\ pc'[c] = "idle" => c \notin gone'
        /\ UNCHANGED <<before, result, world>>
    BY <1>6 DEF Record, Return, ClientTypeOK
  <2>2. \A d \in Callers : pc'[d] = "idle" => d \notin gone'
    BY <1>0, <2>1
  <2>3. outages' = outages /\ down' = down /\ cancels' = cancels /\ before' = before
    BY <2>1 DEF world
  <2> SUFFICES ASSUME outages = 0
               PROVE  /\ ~ down' /\ IsFiniteSet(Unheard') /\ failures' + Cardinality(Unheard') <= cancels'
                      /\ state' # "closed" => cancels' >= MaxFailures
                      /\ \A d \in Callers : before'[d] = "half-open" => cancels' >= MaxFailures
    BY <2>2, <2>3 DEF Blamed
  <2>4. /\ ~ down /\ IsFiniteSet(Unheard) /\ failures + Cardinality(Unheard) <= cancels
        /\ state # "closed" => cancels >= MaxFailures
        /\ \A d \in Callers : before[d] = "half-open" => cancels >= MaxFailures
    BY DEF Blamed
  <2>5. Unheard' \subseteq Unheard /\ c \notin Unheard'
    BY <2>1 DEF Unheard
  <2> DEFINE S == Unheard  T == Unheard'
  <2>6. IsFiniteSet(T) /\ Cardinality(T) \in Nat /\ Cardinality(S) \in Nat /\ Cardinality(T) <= Cardinality(S)
    <3> HIDE DEF S, T
    <3> QED
      BY <2>4, <2>5, FewerUnheard DEF S, T
  <2>7. result[c] = "failed" => Cardinality(T) + 1 <= Cardinality(S)
    <3> SUFFICES ASSUME result[c] = "failed" PROVE Cardinality(T) + 1 <= Cardinality(S)
      OBVIOUS
    <3>1. c \in S /\ c \notin T /\ T \subseteq S /\ IsFiniteSet(S)
      BY <2>1, <2>4, <2>5 DEF Unheard
    <3> HIDE DEF S, T
    <3>2. Cardinality(T \cup {c}) = Cardinality(T) + 1
      BY <2>6, <3>1, OneUnheardMore
    <3>3. T \cup {c} \subseteq S
      BY <3>1
    <3>4. Cardinality(T \cup {c}) <= Cardinality(S)
      BY <3>1, <3>3, FewerUnheard
    <3> QED
      BY <3>2, <3>4
  <2> DEFINE s == Cardinality(S)  t == Cardinality(T)
  <2>8. /\ s \in Nat /\ t \in Nat /\ t <= s /\ failures + s <= cancels /\ failures \in Nat /\ cancels \in Nat
        /\ result[c] = "failed" => t + 1 <= s
    BY <2>4, <2>6, <2>7, Bounds DEF ClientTypeOK
  <2> HIDE DEF s, t
  <2>9. CASE result[c] = "failed"
    <3>1. RecordFailure(c)
      BY <1>6, <2>9 DEF Record
    <3>2. failures' = (IF failures + 1 < MaxFailures THEN failures + 1 ELSE MaxFailures)
      BY <3>1 DEF RecordFailure, UpTo
    <3>3. failures' + t <= cancels
      BY <2>8, <2>9, <3>2, Bounds
    <3>4. failures + 1 >= MaxFailures => cancels >= MaxFailures
      BY <2>8, <2>9, Bounds
    <3>5. state' # "closed" => cancels >= MaxFailures
      BY <2>4, <3>1, <3>4 DEF RecordFailure, Threshold
    <3> QED
      BY <2>3, <2>4, <2>6, <3>3, <3>5 DEF t
  <2>10. CASE result[c] # "failed"
    <3>1. failures' = 0 /\ (state' = "closed" \/ state' = state)
      BY <1>6, <2>10 DEF Record, RecordSuccess
    <3>2. failures' + t <= cancels
      BY <2>8, <3>1
    <3> QED
      BY <2>3, <2>4, <2>6, <3>1, <3>2 DEF t
  <2> QED
    BY <2>9, <2>10
<1>7. ASSUME NEW c \in Callers, Cancel(c) PROVE Blamed'
  <2>1. /\ pc[c] # "idle" /\ cancels' = cancels + 1 /\ gone' = gone \cup {c}
        /\ UNCHANGED <<state, failures, pc, before, result, down, outages>>
    BY <1>7 DEF Cancel, breaker
  <2>2. \A d \in Callers : pc'[d] = "idle" => d \notin gone'
    BY <1>0, <2>1
  <2> SUFFICES ASSUME outages = 0
               PROVE  /\ ~ down' /\ IsFiniteSet(Unheard') /\ failures' + Cardinality(Unheard') <= cancels'
                      /\ state' # "closed" => cancels' >= MaxFailures
                      /\ \A d \in Callers : before'[d] = "half-open" => cancels' >= MaxFailures
    BY <2>1, <2>2 DEF Blamed
  <2>3. /\ ~ down /\ IsFiniteSet(Unheard) /\ failures + Cardinality(Unheard) <= cancels
        /\ state # "closed" => cancels >= MaxFailures
        /\ \A d \in Callers : before[d] = "half-open" => cancels >= MaxFailures
    BY DEF Blamed
  <2>4. Unheard' \subseteq Unheard \cup {c}
    BY <2>1 DEF Unheard
  <2> DEFINE S == Unheard  T == Unheard'  U == S \cup {c}
  <2>5. IsFiniteSet(T) /\ Cardinality(T) \in Nat /\ Cardinality(S) \in Nat /\ Cardinality(T) <= Cardinality(S) + 1
    <3>1. IsFiniteSet(S) /\ T \subseteq U
      BY <2>3, <2>4
    <3> HIDE DEF S, T
    <3>2. IsFiniteSet(U) /\ Cardinality(U) \in Nat /\ Cardinality(S) \in Nat /\ Cardinality(U) <= Cardinality(S) + 1
      BY <3>1, OneUnheardMore
    <3> HIDE DEF U
    <3>3. IsFiniteSet(T) /\ Cardinality(T) \in Nat /\ Cardinality(T) <= Cardinality(U)
      BY <3>1, <3>2, FewerUnheard
    <3> QED
      BY <3>2, <3>3
  <2> DEFINE s == Cardinality(S)  t == Cardinality(T)
  <2>6. s \in Nat /\ t \in Nat /\ t <= s + 1 /\ failures + s <= cancels /\ failures \in Nat /\ cancels \in Nat
    BY <2>3, <2>5, Bounds DEF ClientTypeOK
  <2> HIDE DEF s, t
  <2>7. failures + t <= cancels + 1 /\ (cancels >= MaxFailures => cancels + 1 >= MaxFailures)
    BY <2>6, Bounds
  <2> QED
    BY <2>1, <2>3, <2>5, <2>7 DEF t
<1>8. CASE TimePasses \/ UNCHANGED clientVars
  <2>1. UNCHANGED <<state, failures, pc, before, result, gone, world>>
    BY <1>8 DEF TimePasses, clientVars, breaker, callers
  <2>2. Unheard' \subseteq Unheard /\ \A d \in Callers : pc'[d] = "idle" => d \notin gone'
    BY <1>0, <2>1 DEF Unheard
  <2> QED
    BY <2>1, <2>2, NothingNewToBlame
<1>9. CASE BreakDown
  <2>1. outages' # 0 /\ pc' = pc /\ gone' = gone
    BY <1>9, Bounds DEF BreakDown, ClientTypeOK, callers
  <2> QED
    BY <1>0, <2>1 DEF Blamed
<1>10. CASE Repair
  <2>1. outages # 0 /\ outages' = outages /\ pc' = pc /\ gone' = gone
    BY <1>10 DEF Repair, Blamed, callers
  <2> QED
    BY <1>0, <2>1 DEF Blamed
<1> QED
  BY <1>2, <1>3, <1>4, <1>5, <1>6, <1>7, <1>8, <1>9, <1>10 DEF ClientNext, CallerStep

LEMMA BlamedFirst == ClientInit => Blamed
<1> SUFFICES ASSUME ClientInit PROVE Blamed
  OBVIOUS
<1>1. Unheard = {} /\ failures = 0 /\ cancels = 0 /\ ~ down /\ state = "closed" /\ gone = {}
  BY DEF ClientInit, Unheard
<1>2. \A c \in Callers : before[c] = "closed"
  BY DEF ClientInit
<1>3. IsFiniteSet(Unheard) /\ Cardinality(Unheard) = 0
  BY <1>1, FS_EmptySet
<1> QED
  BY <1>1, <1>2, <1>3 DEF Blamed

(* The safety half of CutOffOnlyWhileDown: as long as the orchestrator has *)
(* never been out, nothing but as many users who left as the threshold     *)
(* opens the circuit, though every retry of doWithRetry counts.            *)
THEOREM OpensOnlyForAReason == ClientSpec => []OpensForAReason
<1>1. ClientTypeOK /\ Blamed => OpensForAReason
  BY Bounds DEF ClientTypeOK, Blamed, OpensForAReason
<1> QED
  BY <1>1, BlamedFirst, BlamedStep, ClientTypes, PTL DEF ClientSpec
===============================================================================
