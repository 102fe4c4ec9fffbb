-------------------------- MODULE CommandBusProofs --------------------------
(***************************************************************************)
(* Proofs about the command bus and the event bus, for any commands,       *)
(* requests, policies and subscriptions and any number of dispatches.      *)
(*                                                                         *)
(* The invariant relates the frames of the stack to the positions of the   *)
(* events they published: the stack is in order (PathInv), each execution  *)
(* has got as far as its frame and its events say (LedgerInv), executions  *)
(* nest (NestInv), and each publication has handed its event to all but    *)
(* the handlers it still has to call (DeliveryInv).  Its parts take the    *)
(* state as arguments, so that a step that pops a frame and pushes another *)
(* is two lemmas one after the other.                                      *)
(***************************************************************************)
EXTENDS CommandBus, SequenceTheorems, TLAPS

StageNames == {"validate", "authorize", "execute", "return"}
Answers == {"none", "success", "failure", "raised"}

\* Frames and events when there have been n executions and m events.
PipelineFrames(n) == [kind : {"pipeline"}, id : 1 .. n, stage : StageNames]
PublicationFrames(m) ==
  [kind : {"publication"}, event : 1 .. m, handlers : Seq(Subscriptions),
   handler : Subscriptions \cup {NoHandler}]
FrameSet(n, m) == PipelineFrames(n) \cup PublicationFrames(m)
EventSet(n) == [name : Names, id : 1 .. n, audience : SUBSET Subscriptions]

IsPipe(f) == f.kind = "pipeline"
IsPub(f) == f.kind = "publication"
IsStart(e) == e.name = "ExecutionStarted"

\* The decision about execution id of ex.
Verdict(ex, id) == Evaluate(ex[id].action, ex[id].params, ex[id].role)

TypeInv(st, h, a, r, ex) ==
  /\ ex \in Seq(Requests)
  /\ h \in Seq(EventSet(Len(ex)))
  /\ st \in Seq(FrameSet(Len(ex), Len(h)))
  /\ a \in [1 .. Len(ex) -> Answers]
  /\ r \in [1 .. Len(ex) -> Answers]

\* The code a frame runs may call into the buses.
CallsOut(f) == IF IsPipe(f) THEN f.stage \in {"validate", "execute"} ELSE f.handler # NoHandler

\* What stands on what: a pipeline on code that dispatched it, a publication on the
\* pipeline whose start or end it is.
PathInv(st, h) ==
  /\ \A k \in DOMAIN st : IsPub(st[k]) =>
       /\ k > 1
       /\ IsPipe(st[k - 1])
       /\ st[k - 1].id = h[st[k].event].id
       /\ st[k - 1].stage = IF IsStart(h[st[k].event]) THEN "validate" ELSE "return"
  /\ \A k \in DOMAIN st : IsPipe(st[k]) /\ k > 1 => CallsOut(st[k - 1])

\* Executions and publications are on the stack in the order they began.
OrderInv(st) ==
  \A j, k \in DOMAIN st : j < k =>
    /\ IsPipe(st[j]) /\ IsPipe(st[k]) => st[j].id < st[k].id
    /\ IsPub(st[j]) /\ IsPub(st[k]) => st[j].event < st[k].event

OnStack(st, id) == \E k \in DOMAIN st : IsPipe(st[k]) /\ st[k].id = id

\* Execution id has published its end.
Ended(h, id) == \E n \in DOMAIN h : h[n].id = id /\ ~IsStart(h[n])

\* The history by itself: one start for each execution in their order, and an end after it.
HistoryInv(h, ex) ==
  /\ \A id \in 1 .. Len(ex) : \E n \in DOMAIN h : h[n].id = id /\ IsStart(h[n])
  /\ \A m, n \in DOMAIN h : m < n /\ IsStart(h[m]) /\ IsStart(h[n]) => h[m].id < h[n].id
  /\ \A m, n \in DOMAIN h : ~IsStart(h[m]) /\ IsStart(h[n]) /\ h[m].id = h[n].id => n < m
  /\ \A m, n \in DOMAIN h : ~IsStart(h[m]) /\ ~IsStart(h[n]) /\ h[m].id = h[n].id => n = m

\* How far an execution has got, told by its frame, its answer, its result and its events.
LedgerInv(st, h, a, r, ex) ==
  /\ \A id \in 1 .. Len(ex) :
       /\ r[id] = "none" <=> OnStack(st, id)
       /\ r[id] \in {"success", "failure"} => Ended(h, id)
       /\ r[id] = "raised" => ~Ended(h, id)
       /\ r[id] = "success" => a[id] = "success"
       /\ r[id] = "failure" => a[id] # "success"
       /\ Verdict(ex, id) = "DENY" => a[id] = "none"
  /\ \A n \in DOMAIN h :
       /\ h[n].name = "ExecutionCompleted" => a[h[n].id] = "success"
       /\ h[n].name = "ExecutionFailed" => a[h[n].id] # "success"
  /\ \A k \in DOMAIN st : IsPipe(st[k]) =>
       /\ st[k].stage = "return" <=> Ended(h, st[k].id)
       /\ st[k].stage # "return" => a[st[k].id] = "none"
       /\ st[k].stage = "execute" => Verdict(ex, st[k].id) # "DENY"

\* Executions nest.
NestInv(h, r) ==
  \A s, t, e \in DOMAIN h :
    /\ IsStart(h[s]) /\ IsStart(h[t]) /\ ~IsStart(h[e]) /\ h[e].id = h[s].id
    /\ s < t /\ t < e
    => /\ r[h[t].id] # "none"
       /\ \A f \in DOMAIN h : ~IsStart(h[f]) /\ h[f].id = h[t].id => f < e

CoreInv(st, h, a, r, ex) ==
  /\ TypeInv(st, h, a, r, ex)
  /\ PathInv(st, h) /\ OrderInv(st)
  /\ HistoryInv(h, ex) /\ LedgerInv(st, h, a, r, ex) /\ NestInv(h, r)

Once(q) == \A j, k \in DOMAIN q : q[j] = q[k] => j = k

\* A subscription is in one list, once, and has an id that is not given out again.
SubscriptionInv(subs, iss) ==
  /\ subs \in [Types -> Seq(Subscriptions)] /\ iss \subseteq Subscriptions
  /\ \A t \in Types : Once(subs[t]) /\ \A s \in Elements(subs[t]) : TypeOf[s] = t /\ s \in iss

Published(st, n) == \E k \in DOMAIN st : IsPub(st[k]) /\ st[k].event = n

DeliveryInv(st, h, rec) ==
  /\ rec \in [Subscriptions -> Seq(DOMAIN h)]
  /\ \A s \in Subscriptions :
       /\ Once(rec[s])
       /\ \A n \in Elements(rec[s]) : s \in h[n].audience
       /\ \A n \in DOMAIN h : s \in h[n].audience /\ ~Published(st, n) => n \in Elements(rec[s])
       /\ \A j, k \in DOMAIN rec[s] :
            IsStart(h[rec[s][j]]) /\ ~IsStart(h[rec[s][k]]) /\ h[rec[s][j]].id = h[rec[s][k]].id => j < k
  /\ \A k \in DOMAIN st : IsPub(st[k]) =>
       /\ Once(st[k].handlers)
       /\ \A s \in Subscriptions :
            s \in Elements(st[k].handlers) <=>
              s \in h[st[k].event].audience /\ st[k].event \notin Elements(rec[s])

IInv ==
  /\ CoreInv(stack, history, answer, result, executions)
  /\ SubscriptionInv(subscribers, issued)
  /\ DeliveryInv(stack, history, received)
  /\ commands \subseteq Actions /\ Len(executions) <= MaxExecutions

-----------------------------------------------------------------------------
(* Sequences. *)

LEMMA PushFacts ==
  ASSUME NEW S, NEW s \in Seq(S), NEW f
  PROVE  /\ Len(s) \in Nat /\ DOMAIN s = 1 .. Len(s)
         /\ Len(Append(s, f)) = Len(s) + 1
         /\ DOMAIN Append(s, f) = 1 .. Len(s) + 1
         /\ Append(s, f)[Len(s) + 1] = f
         /\ \A k \in 1 .. Len(s) : Append(s, f)[k] = s[k]
         /\ Append(s, f) # <<>>
<1>1. s \in Seq(S \cup {f})
  BY SeqMonotonic
<1> QED BY <1>1, AppendProperties

LEMMA PopFacts ==
  ASSUME NEW S, NEW s \in Seq(S), s # <<>>
  PROVE  /\ Len(s) \in Nat \ {0} /\ DOMAIN s = 1 .. Len(s)
         /\ Below(s) \in Seq(S)
         /\ Len(Below(s)) = Len(s) - 1
         /\ DOMAIN Below(s) = 1 .. Len(s) - 1
         /\ \A k \in 1 .. Len(s) - 1 : Below(s)[k] = s[k]
<1>1. Len(s) \in Nat \ {0} /\ DOMAIN s = 1 .. Len(s) /\ \A k \in 1 .. Len(s) : s[k] \in S
  OBVIOUS
<1>2. \A k \in 1 .. Len(s) - 1 : s[k] \in S
  BY <1>1
<1>3. 1 \in Int /\ Len(s) - 1 \in Int
  BY <1>1
<1>4. /\ Below(s) \in Seq(S)
      /\ Len(Below(s)) = IF 1 <= Len(s) - 1 THEN Len(s) - 1 - 1 + 1 ELSE 0
      /\ \A k \in 1 .. Len(s) - 1 - 1 + 1 : Below(s)[k] = s[1 + k - 1]
  BY <1>2, <1>3, SubSeqProperties DEF Below
<1>5. Len(Below(s)) = Len(s) - 1 /\ DOMAIN Below(s) = 1 .. Len(s) - 1
  <2>1. Len(s) \in Nat \ {0}
    BY <1>1
  <2>2. Len(Below(s)) = IF 1 <= Len(s) - 1 THEN Len(s) - 1 - 1 + 1 ELSE 0
    BY <1>4
  <2>3. \A n \in Nat \ {0} : (IF 1 <= n - 1 THEN n - 1 - 1 + 1 ELSE 0) = n - 1
    OBVIOUS
  <2>4. DOMAIN Below(s) = 1 .. Len(Below(s))
    BY <1>4
  <2> QED BY <2>1, <2>2, <2>3, <2>4
<1>6. ASSUME NEW k \in 1 .. Len(s) - 1 PROVE Below(s)[k] = s[k]
  <2>1. k \in 1 .. Len(s) - 1 - 1 + 1 /\ 1 + k - 1 = k
    BY <1>1
  <2> QED BY <2>1, <1>4
<1> QED BY <1>1, <1>4, <1>5, <1>6

LEMMA WithTopFacts ==
  ASSUME NEW S, NEW s \in Seq(S), s # <<>>, NEW f
  PROVE  /\ Len(s) \in Nat \ {0} /\ DOMAIN s = 1 .. Len(s)
         /\ Len(WithTop(s, f)) = Len(s)
         /\ DOMAIN WithTop(s, f) = 1 .. Len(s)
         /\ WithTop(s, f)[Len(s)] = f
         /\ \A k \in 1 .. Len(s) - 1 : WithTop(s, f)[k] = s[k]
         /\ WithTop(s, f) # <<>>
         /\ f \in S => WithTop(s, f) \in Seq(S)
<1>1. /\ Len(s) \in Nat \ {0} /\ DOMAIN s = 1 .. Len(s)
      /\ Below(s) \in Seq(S) /\ Len(Below(s)) = Len(s) - 1
      /\ \A k \in 1 .. Len(s) - 1 : Below(s)[k] = s[k]
  BY PopFacts
<1>2. f \in S => Append(Below(s), f) \in Seq(S)
  BY <1>1, AppendProperties
<1> DEFINE b == Below(s)
<1>3. /\ Len(Append(b, f)) = Len(b) + 1
      /\ DOMAIN Append(b, f) = 1 .. Len(b) + 1
      /\ Append(b, f)[Len(b) + 1] = f
      /\ \A k \in 1 .. Len(b) : Append(b, f)[k] = b[k]
      /\ Append(b, f) # <<>>
  <2>1. b \in Seq(S)
    BY <1>1
  <2> HIDE DEF b
  <2> QED BY <2>1, PushFacts
<1>4. Len(s) - 1 + 1 = Len(s)
  BY <1>1
<1> QED BY <1>1, <1>2, <1>3, <1>4 DEF WithTop

\* Where a position is that is not one of the last.
LEMMA LastPositions ==
  ASSUME NEW n \in Nat
  PROVE  /\ \A k \in 1 .. n + 2 : k = n + 2 \/ k = n + 1 \/ k \in 1 .. n
         /\ \A k \in 1 .. n + 1 : k = n + 1 \/ (k = n /\ n > 0) \/ (k \in 1 .. n - 1 /\ k \in 1 .. n /\ k # n)
OBVIOUS

LEMMA TopPosition ==
  ASSUME NEW n \in Nat \ {0}
  PROVE  n \in 1 .. n /\ (\A k \in 1 .. n - 1 : k \in 1 .. n) /\ \A k \in 1 .. n : k = n \/ k \in 1 .. n - 1
OBVIOUS

\* A frame is what its constructor makes of its fields.
LEMMA FrameFacts ==
  ASSUME NEW n \in Nat, NEW m \in Nat, NEW f \in FrameSet(n, m)
  PROVE  /\ IsPipe(f) <=> ~IsPub(f)
         /\ IsPipe(f) => /\ f.id \in 1 .. n /\ f.stage \in StageNames
                         /\ \A g \in StageNames :
                              /\ [f EXCEPT !.stage = g] = Pipeline(f.id, g)
                              /\ [f EXCEPT !.stage = g] \in FrameSet(n, m)
         /\ IsPub(f) => /\ f.event \in 1 .. m /\ f.handlers \in Seq(Subscriptions)
                        /\ f.handler \in Subscriptions \cup {NoHandler}
<1>1. CASE f \in PipelineFrames(n)
  BY <1>1 DEF FrameSet, PipelineFrames, IsPipe, IsPub, Pipeline, StageNames
<1>2. CASE f \in PublicationFrames(m)
  BY <1>2 DEF PublicationFrames, IsPipe, IsPub
<1> QED BY <1>1, <1>2 DEF FrameSet

\* Constructors make frames.
LEMMA NewFrames ==
  ASSUME NEW n \in Nat, NEW m \in Nat
  PROVE  /\ \A id \in 1 .. n, g \in StageNames :
              LET f == Pipeline(id, g) IN
              f \in FrameSet(n, m) /\ IsPipe(f) /\ ~IsPub(f) /\ f.id = id /\ f.stage = g
         /\ \A e \in 1 .. m, q \in Seq(Subscriptions) :
              LET f == Publication(e, q) IN
              /\ f \in FrameSet(n, m) /\ IsPub(f) /\ ~IsPipe(f)
              /\ f.event = e /\ f.handlers = q /\ f.handler = NoHandler
BY DEF FrameSet, PipelineFrames, PublicationFrames, Pipeline, Publication, IsPipe, IsPub

\* Frames stay frames as executions and events are added.
LEMMA FramesGrow ==
  ASSUME NEW n \in Nat, NEW m \in Nat, NEW i \in Nat, NEW j \in Nat, n <= i, m <= j
  PROVE  FrameSet(n, m) \subseteq FrameSet(i, j) /\ EventSet(n) \subseteq EventSet(i)
<1>1. 1 .. n \subseteq 1 .. i /\ 1 .. m \subseteq 1 .. j
  OBVIOUS
<1> QED BY <1>1 DEF FrameSet, PipelineFrames, PublicationFrames, EventSet

-----------------------------------------------------------------------------
(* The core invariant, step by step. *)

\* Types of what the core invariant is about.
LEMMA CoreTypes ==
  ASSUME NEW st, NEW h, NEW a, NEW r, NEW ex, CoreInv(st, h, a, r, ex)
  PROVE  /\ Len(ex) \in Nat /\ Len(h) \in Nat /\ Len(st) \in Nat
         /\ DOMAIN h = 1 .. Len(h) /\ DOMAIN st = 1 .. Len(st)
         /\ \A n \in DOMAIN h : h[n] \in EventSet(Len(ex)) /\ h[n].id \in 1 .. Len(ex) /\ h[n].name \in Names
         /\ \A k \in DOMAIN st : st[k] \in FrameSet(Len(ex), Len(h))
         /\ \A k \in DOMAIN st :
              /\ IsPipe(st[k]) <=> ~IsPub(st[k])
              /\ IsPipe(st[k]) => st[k].id \in 1 .. Len(ex) /\ st[k].stage \in StageNames
              /\ IsPub(st[k]) => st[k].event \in 1 .. Len(h)
<1>1. ex \in Seq(Requests) /\ h \in Seq(EventSet(Len(ex))) /\ st \in Seq(FrameSet(Len(ex), Len(h)))
  BY DEF CoreInv, TypeInv
<1>2. /\ Len(ex) \in Nat /\ Len(h) \in Nat /\ Len(st) \in Nat
      /\ DOMAIN h = 1 .. Len(h) /\ DOMAIN st = 1 .. Len(st)
      /\ \A n \in DOMAIN h : h[n] \in EventSet(Len(ex))
      /\ \A k \in DOMAIN st : st[k] \in FrameSet(Len(ex), Len(h))
  BY <1>1
<1>3. \A n \in DOMAIN h : h[n].id \in 1 .. Len(ex) /\ h[n].name \in Names
  BY <1>2 DEF EventSet
<1> QED BY <1>2, <1>3, FrameFacts

\* A stack that is cut, or whose top frame moves on, is still in order.
LEMMA SameShape ==
  ASSUME NEW st, NEW h, NEW b, NEW n \in Nat, NEW m \in Nat, m <= n,
         DOMAIN st = 1 .. n, DOMAIN b = 1 .. m,
         \A k \in 1 .. m - 1 : b[k] = st[k],
         m > 0 => /\ IsPipe(b[m]) <=> IsPipe(st[m])
                  /\ IsPub(b[m]) <=> IsPub(st[m])
                  /\ IsPipe(b[m]) => b[m].id = st[m].id
                  /\ IsPub(b[m]) => b[m].event = st[m].event,
         PathInv(st, h), OrderInv(st)
  PROVE  PathInv(b, h) /\ OrderInv(b)
<1>1. ASSUME NEW k \in 1 .. m
      PROVE  /\ k \in DOMAIN st
             /\ IsPipe(b[k]) <=> IsPipe(st[k])
             /\ IsPub(b[k]) <=> IsPub(st[k])
             /\ IsPipe(b[k]) => b[k].id = st[k].id
             /\ IsPub(b[k]) => b[k].event = st[k].event
             /\ k > 1 => k - 1 \in DOMAIN st /\ b[k - 1] = st[k - 1]
  BY k \in 1 .. m - 1 \/ k = m
<1>2. ASSUME NEW k \in 1 .. m, IsPub(b[k])
      PROVE  /\ k > 1
             /\ IsPipe(b[k - 1])
             /\ b[k - 1].id = h[b[k].event].id
             /\ b[k - 1].stage = IF IsStart(h[b[k].event]) THEN "validate" ELSE "return"
  BY <1>1, <1>2 DEF PathInv
<1>3. ASSUME NEW k \in 1 .. m, IsPipe(b[k]), k > 1 PROVE CallsOut(b[k - 1])
  BY <1>1, <1>3 DEF PathInv
<1>4. OrderInv(b)
  BY <1>1 DEF OrderInv
<1> QED BY <1>2, <1>3, <1>4 DEF PathInv

LEMMA CutShape ==
  ASSUME NEW st, NEW h, NEW b, Len(st) \in Nat \ {0}, DOMAIN st = 1 .. Len(st),
         DOMAIN b = 1 .. Len(st) - 1, \A k \in 1 .. Len(st) - 1 : b[k] = st[k],
         PathInv(st, h), OrderInv(st)
  PROVE  PathInv(b, h) /\ OrderInv(b)
<1> DEFINE n == Len(st)
           m == Len(st) - 1
<1>1. /\ n \in Nat /\ m \in Nat /\ m <= n
      /\ DOMAIN st = 1 .. n /\ DOMAIN b = 1 .. m
      /\ \A k \in 1 .. m - 1 : b[k] = st[k]
      /\ m > 0 => b[m] = st[m]
  OBVIOUS
<1> HIDE DEF n, m
<1> QED BY <1>1, SameShape

LEMMA TopShape ==
  ASSUME NEW st, NEW h, NEW b, Len(st) \in Nat \ {0}, DOMAIN st = 1 .. Len(st),
         DOMAIN b = 1 .. Len(st), \A k \in 1 .. Len(st) - 1 : b[k] = st[k],
         IsPipe(b[Len(st)]) <=> IsPipe(st[Len(st)]),
         IsPub(b[Len(st)]) <=> IsPub(st[Len(st)]),
         IsPipe(b[Len(st)]) => b[Len(st)].id = st[Len(st)].id,
         IsPub(b[Len(st)]) => b[Len(st)].event = st[Len(st)].event,
         PathInv(st, h), OrderInv(st)
  PROVE  PathInv(b, h) /\ OrderInv(b)
<1> DEFINE n == Len(st)
<1>1. /\ n \in Nat /\ n <= n
      /\ DOMAIN st = 1 .. n /\ DOMAIN b = 1 .. n
      /\ \A k \in 1 .. n - 1 : b[k] = st[k]
      /\ IsPipe(b[n]) <=> IsPipe(st[n])
      /\ IsPub(b[n]) <=> IsPub(st[n])
      /\ IsPipe(b[n]) => b[n].id = st[n].id
      /\ IsPub(b[n]) => b[n].event = st[n].event
  OBVIOUS
<1> HIDE DEF n
<1> QED BY <1>1, SameShape

\* A publication that returns changes nothing but the stack.
LEMMA PopPublication ==
  ASSUME NEW st, NEW h, NEW a, NEW r, NEW ex, CoreInv(st, h, a, r, ex),
         st # <<>>, IsPub(st[Len(st)])
  PROVE  CoreInv(Below(st), h, a, r, ex)
<1> DEFINE b == Below(st)
<1>1. /\ Len(st) \in Nat \ {0} /\ DOMAIN st = 1 .. Len(st)
      /\ b \in Seq(FrameSet(Len(ex), Len(h))) /\ DOMAIN b = 1 .. Len(st) - 1
      /\ \A k \in 1 .. Len(st) - 1 : b[k] = st[k]
  BY PopFacts DEF CoreInv, TypeInv
<1>2. ~IsPipe(st[Len(st)])
  BY <1>1, CoreTypes
<1> HIDE DEF b
<1>3. \A id : OnStack(b, id) <=> OnStack(st, id)
  BY <1>1, <1>2 DEF OnStack
<1>4. TypeInv(b, h, a, r, ex)
  BY <1>1 DEF CoreInv, TypeInv
<1>5. PathInv(b, h) /\ OrderInv(b)
  BY <1>1, CutShape DEF CoreInv
<1>6. LedgerInv(b, h, a, r, ex)
  BY <1>1, <1>3 DEF CoreInv, LedgerInv
<1> QED BY <1>4, <1>5, <1>6 DEF CoreInv, b

\* A pipeline that returns, or raises in validate(), leaves its result.
LEMMA PopPipeline ==
  ASSUME NEW st, NEW h, NEW a, NEW r, NEW ex, CoreInv(st, h, a, r, ex),
         st # <<>>, NEW f, f = st[Len(st)], IsPipe(f), NEW x \in Answers \ {"none"},
         \/ f.stage = "return" /\ x = IF a[f.id] = "success" THEN "success" ELSE "failure"
         \/ f.stage = "validate" /\ x = "raised"
  PROVE  CoreInv(Below(st), h, a, [r EXCEPT ![f.id] = x], ex)
<1> DEFINE b == Below(st)
           r2 == [r EXCEPT ![f.id] = x]
<1>1. /\ Len(st) \in Nat \ {0} /\ DOMAIN st = 1 .. Len(st)
      /\ b \in Seq(FrameSet(Len(ex), Len(h))) /\ DOMAIN b = 1 .. Len(st) - 1
      /\ \A k \in 1 .. Len(st) - 1 : b[k] = st[k]
  BY PopFacts DEF CoreInv, TypeInv
<1>2. f.id \in 1 .. Len(ex)
  BY <1>1, CoreTypes
<1>3. /\ r2 \in [1 .. Len(ex) -> Answers] /\ r2[f.id] = x
      /\ \A id \in 1 .. Len(ex) : id # f.id => r2[id] = r[id]
  BY <1>2 DEF CoreInv, TypeInv
<1> HIDE DEF b, r2
<1>4. ~OnStack(b, f.id)
  <2>1. \A k \in 1 .. Len(st) - 1 : IsPipe(st[k]) => st[k].id < f.id
    BY <1>1 DEF CoreInv, OrderInv
  <2>2. \A k \in 1 .. Len(st) - 1 : IsPipe(st[k]) => st[k].id # f.id
    BY <1>1, <1>2, <2>1, CoreTypes
  <2> QED BY <1>1, <2>2 DEF OnStack
<1>5. \A id : id # f.id => (OnStack(b, id) <=> OnStack(st, id))
  BY <1>1 DEF OnStack
<1>6. TypeInv(b, h, a, r2, ex)
  BY <1>1, <1>3 DEF CoreInv, TypeInv
<1>7. PathInv(b, h) /\ OrderInv(b)
  BY <1>1, CutShape DEF CoreInv
<1>8. LedgerInv(b, h, a, r2, ex)
  <2>1. f.stage = "return" <=> Ended(h, f.id)
    BY <1>1 DEF CoreInv, LedgerInv
  <2>2. ASSUME NEW id \in 1 .. Len(ex)
        PROVE  /\ r2[id] = "none" <=> OnStack(b, id)
               /\ r2[id] \in {"success", "failure"} => Ended(h, id)
               /\ r2[id] = "raised" => ~Ended(h, id)
               /\ r2[id] = "success" => a[id] = "success"
               /\ r2[id] = "failure" => a[id] # "success"
               /\ Verdict(ex, id) = "DENY" => a[id] = "none"
    BY <1>3, <1>4, <1>5, <2>1 DEF CoreInv, LedgerInv
  <2>3. \A k \in DOMAIN b : IsPipe(b[k]) =>
          /\ b[k].stage = "return" <=> Ended(h, b[k].id)
          /\ b[k].stage # "return" => a[b[k].id] = "none"
          /\ b[k].stage = "execute" => Verdict(ex, b[k].id) # "DENY"
    BY <1>1 DEF CoreInv, LedgerInv
  <2> QED BY <2>2, <2>3 DEF CoreInv, LedgerInv
<1>9. NestInv(h, r2)
  BY <1>2, <1>3, CoreTypes DEF CoreInv, NestInv
<1> QED BY <1>6, <1>7, <1>8, <1>9 DEF CoreInv, b, r2

\* A pipeline goes on to its next stage.
LEMMA GotoStage ==
  ASSUME NEW st, NEW h, NEW a, NEW r, NEW ex, CoreInv(st, h, a, r, ex),
         st # <<>>, NEW f, f = st[Len(st)], IsPipe(f), NEW g \in {"authorize", "execute"},
         f.stage # "return", g = "execute" => Verdict(ex, f.id) # "DENY"
  PROVE  CoreInv(WithTop(st, [f EXCEPT !.stage = g]), h, a, r, ex)
<1> DEFINE new == Pipeline(f.id, g)
           b == WithTop(st, new)
<1>1. /\ Len(st) \in Nat \ {0} /\ DOMAIN st = 1 .. Len(st)
      /\ f \in FrameSet(Len(ex), Len(h)) /\ f.id \in 1 .. Len(ex)
  BY CoreTypes
<1>2. /\ [f EXCEPT !.stage = g] = new
      /\ new \in FrameSet(Len(ex), Len(h)) /\ IsPipe(new) /\ ~IsPub(new) /\ new.id = f.id /\ new.stage = g
  <2>1. g \in StageNames /\ Len(ex) \in Nat /\ Len(h) \in Nat
    BY CoreTypes DEF StageNames
  <2>2. [f EXCEPT !.stage = g] = new
    BY <1>1, <2>1, FrameFacts
  <2> QED BY <1>1, <2>1, <2>2, NewFrames
<1> HIDE DEF new
<1>3. /\ b \in Seq(FrameSet(Len(ex), Len(h))) /\ DOMAIN b = 1 .. Len(st) /\ b[Len(st)] = new
      /\ \A k \in 1 .. Len(st) - 1 : b[k] = st[k]
  BY <1>2, WithTopFacts DEF CoreInv, TypeInv
<1> HIDE DEF b
<1>4. \A id : OnStack(b, id) <=> OnStack(st, id)
  BY <1>1, <1>2, <1>3 DEF OnStack
<1>5. TypeInv(b, h, a, r, ex)
  BY <1>3 DEF CoreInv, TypeInv
<1>6. PathInv(b, h) /\ OrderInv(b)
  BY <1>1, <1>2, <1>3, CoreTypes, TopShape DEF CoreInv
<1>7. LedgerInv(b, h, a, r, ex)
  <2>1. \A k \in DOMAIN b : IsPipe(b[k]) =>
          /\ b[k].stage = "return" <=> Ended(h, b[k].id)
          /\ b[k].stage # "return" => a[b[k].id] = "none"
          /\ b[k].stage = "execute" => Verdict(ex, b[k].id) # "DENY"
    BY <1>1, <1>2, <1>3 DEF CoreInv, LedgerInv
  <2> QED BY <1>4, <2>1 DEF CoreInv, LedgerInv
<1> QED BY <1>2, <1>5, <1>6, <1>7 DEF CoreInv, b

\* A publication goes on to its next handler, or comes back from one.
LEMMA NextHandler ==
  ASSUME NEW st, NEW h, NEW a, NEW r, NEW ex, CoreInv(st, h, a, r, ex),
         st # <<>>, IsPub(st[Len(st)]),
         NEW g \in FrameSet(Len(ex), Len(h)), IsPub(g), g.event = st[Len(st)].event
  PROVE  CoreInv(WithTop(st, g), h, a, r, ex)
<1> DEFINE b == WithTop(st, g)
<1>1. /\ Len(st) \in Nat \ {0} /\ DOMAIN st = 1 .. Len(st)
      /\ b \in Seq(FrameSet(Len(ex), Len(h))) /\ DOMAIN b = 1 .. Len(st) /\ b[Len(st)] = g
      /\ \A k \in 1 .. Len(st) - 1 : b[k] = st[k]
  BY WithTopFacts DEF CoreInv, TypeInv
<1>2. ~IsPipe(g) /\ ~IsPipe(st[Len(st)])
  BY <1>1, CoreTypes, FrameFacts
<1> HIDE DEF b
<1>3. \A id : OnStack(b, id) <=> OnStack(st, id)
  BY <1>1, <1>2 DEF OnStack
<1>4. TypeInv(b, h, a, r, ex)
  BY <1>1 DEF CoreInv, TypeInv
<1>5. PathInv(b, h) /\ OrderInv(b)
  BY <1>1, <1>2, CoreTypes, TopShape DEF CoreInv
<1>6. LedgerInv(b, h, a, r, ex)
  BY <1>1, <1>2, <1>3 DEF CoreInv, LedgerInv
<1> QED BY <1>4, <1>5, <1>6 DEF CoreInv, b

Event(name, id, aud) == [name |-> name, id |-> id, audience |-> aud]

\* What a publication adds to the history.
LEMMA Publishing ==
  ASSUME NEW n \in Nat, NEW h \in Seq(EventSet(n)),
         NEW e \in EventSet(n)
  PROVE  LET h2 == Append(h, e) IN
         /\ h2 \in Seq(EventSet(n))
         /\ Len(h) \in Nat /\ Len(h2) = Len(h) + 1 /\ DOMAIN h2 = DOMAIN h \cup {Len(h) + 1}
         /\ DOMAIN h = 1 .. Len(h)
         /\ h2[Len(h) + 1] = e
         /\ \A k \in DOMAIN h : h2[k] = h[k]
         /\ \A id : Ended(h2, id) <=> Ended(h, id) \/ (e.id = id /\ ~IsStart(e))
<1>1. LET h2 == Append(h, e) IN
         /\ h2 \in Seq(EventSet(n))
         /\ Len(h) \in Nat /\ Len(h2) = Len(h) + 1 /\ DOMAIN h2 = DOMAIN h \cup {Len(h) + 1}
         /\ DOMAIN h = 1 .. Len(h)
         /\ h2[Len(h) + 1] = e
         /\ \A k \in DOMAIN h : h2[k] = h[k]
  BY AppendProperties
<1> QED BY <1>1 DEF Ended

\* The end of an execution, published with its pipeline on top at "return".
LEMMA PublishEnd ==
  ASSUME NEW st, NEW h, NEW a, NEW r, NEW ex, CoreInv(st, h, a, r, ex),
         st # <<>>, NEW f, f = st[Len(st)], IsPipe(f), f.stage # "return",
         NEW name \in {"ExecutionCompleted", "ExecutionFailed"}, NEW x \in Answers,
         NEW aud \in SUBSET Subscriptions, NEW q \in Seq(Subscriptions),
         name = "ExecutionCompleted" <=> x = "success",
         Verdict(ex, f.id) = "DENY" => x = "none"
  PROVE  CoreInv(Append(WithTop(st, [f EXCEPT !.stage = "return"]), Publication(Len(h) + 1, q)),
                 Append(h, Event(name, f.id, aud)), [a EXCEPT ![f.id] = x], r, ex)
<1> DEFINE N == Len(ex)
           H == Len(h)
           L == Len(st)
           e == Event(name, f.id, aud)
           h2 == Append(h, e)
           pipe == Pipeline(f.id, "return")
           pub == Publication(H + 1, q)
           mid == WithTop(st, pipe)
           b == Append(mid, pub)
           a2 == [a EXCEPT ![f.id] = x]
<1>1. /\ N \in Nat /\ H \in Nat /\ L \in Nat \ {0} /\ DOMAIN st = 1 .. L
      /\ f \in FrameSet(N, H) /\ f.id \in 1 .. N
      /\ h \in Seq(EventSet(N)) /\ st \in Seq(FrameSet(N, H))
  <2>1. h \in Seq(EventSet(N)) /\ st \in Seq(FrameSet(N, H))
    BY DEF CoreInv, TypeInv
  <2>2. L \in Nat \ {0} /\ DOMAIN st = 1 .. L /\ L \in 1 .. L
    BY <2>1
  <2>3. N \in Nat /\ H \in Nat /\ f \in FrameSet(N, H)
    BY <2>2, CoreTypes
  <2>4. f.id \in 1 .. N
    BY <2>3, FrameFacts
  <2> QED BY <2>1, <2>2, <2>3, <2>4
<1>2. /\ e \in EventSet(N) /\ e.id = f.id /\ e.name = name /\ ~IsStart(e)
  BY <1>1 DEF EventSet, Event, IsStart, Names
<1> HIDE DEF e
<1>3. /\ h2 \in Seq(EventSet(N))
      /\ Len(h2) = H + 1 /\ DOMAIN h2 = DOMAIN h \cup {H + 1} /\ DOMAIN h = 1 .. H
      /\ h2[H + 1] = e
      /\ \A k \in DOMAIN h : h2[k] = h[k]
      /\ \A id : Ended(h2, id) <=> Ended(h, id) \/ id = f.id
  BY <1>1, <1>2, Publishing
<1>4. /\ [f EXCEPT !.stage = "return"] = pipe
      /\ pipe \in FrameSet(N, H + 1) /\ IsPipe(pipe) /\ ~IsPub(pipe) /\ pipe.id = f.id
      /\ pipe.stage = "return"
      /\ pub \in FrameSet(N, H + 1) /\ IsPub(pub) /\ ~IsPipe(pub) /\ pub.event = H + 1
  <2>1. H + 1 \in Nat /\ H + 1 \in 1 .. H + 1 /\ "return" \in StageNames
    BY <1>1 DEF StageNames
  <2>2. [f EXCEPT !.stage = "return"] = pipe
    BY <1>1, <2>1, FrameFacts
  <2>3. /\ pipe \in FrameSet(N, H + 1) /\ IsPipe(pipe) /\ ~IsPub(pipe) /\ pipe.id = f.id
        /\ pipe.stage = "return"
    BY <1>1, <2>1, NewFrames
  <2>4. pub \in FrameSet(N, H + 1) /\ IsPub(pub) /\ ~IsPipe(pub) /\ pub.event = H + 1
    BY <1>1, <2>1, NewFrames
  <2> QED BY <2>2, <2>3, <2>4
<1> HIDE DEF h2, pipe, pub
<1>5. /\ b \in Seq(FrameSet(N, H + 1)) /\ DOMAIN b = 1 .. L + 1
      /\ b[L + 1] = pub /\ b[L] = pipe
      /\ \A k \in 1 .. L - 1 : b[k] = st[k]
  <2>1. st \in Seq(FrameSet(N, H + 1))
    BY <1>1, FramesGrow, SeqMonotonic
  <2>2. /\ mid \in Seq(FrameSet(N, H + 1)) /\ Len(mid) = L /\ mid[L] = pipe
        /\ \A k \in 1 .. L - 1 : mid[k] = st[k]
    BY <1>4, <2>1, WithTopFacts
  <2> HIDE DEF mid
  <2>3. /\ b \in Seq(FrameSet(N, H + 1)) /\ DOMAIN b = 1 .. L + 1
        /\ b[L + 1] = pub /\ \A k \in 1 .. L : b[k] = mid[k]
    BY <1>4, <2>2, AppendProperties, PushFacts
  <2> HIDE DEF b
  <2> QED BY <1>1, <2>2, <2>3
<1>6. /\ a2 \in [1 .. N -> Answers] /\ a2[f.id] = x
      /\ \A id \in 1 .. N : id # f.id => a2[id] = a[id]
  BY <1>1 DEF CoreInv, TypeInv
<1> HIDE DEF b, a2
<1>6a. \A k \in DOMAIN b :
        \/ k = L + 1 /\ b[k] = pub
        \/ k = L /\ b[k] = pipe
        \/ k \in 1 .. L - 1 /\ k \in DOMAIN st /\ k # L /\ b[k] = st[k]
  <2> HIDE DEF L
  <2>1. \A k \in 1 .. L + 1 : k = L + 1 \/ (k = L /\ L > 0) \/ (k \in 1 .. L - 1 /\ k \in 1 .. L /\ k # L)
    BY <1>1, LastPositions
  <2>2. /\ DOMAIN st = 1 .. L /\ DOMAIN b = 1 .. L + 1
        /\ b[L + 1] = pub /\ b[L] = pipe
        /\ \A k \in 1 .. L - 1 : b[k] = st[k]
    BY <1>1, <1>5
  <2> QED BY <2>1, <2>2
<1>6b. \A k \in 1 .. L - 1 : k \in DOMAIN st /\ k # L /\ b[k] = st[k]
  <2>1. \A k \in 1 .. L - 1 : k \in 1 .. L /\ k # L
    <3> HIDE DEF L
    <3> QED BY <1>1
  <2> QED BY <2>1, <1>1, <1>5
<1>7. /\ ~Ended(h, f.id) /\ a[f.id] = "none" /\ r[f.id] = "none"
  BY <1>1 DEF CoreInv, LedgerInv, OnStack
<1>8. TypeInv(b, h2, a2, r, ex)
  BY <1>3, <1>5, <1>6 DEF CoreInv, TypeInv
<1>9. /\ \A k \in DOMAIN st : IsPipe(st[k]) /\ k # L => st[k].id < f.id
      /\ \A k \in DOMAIN st : IsPipe(st[k]) => st[k].id <= f.id
      /\ \A k \in DOMAIN st : IsPub(st[k]) => st[k].event \in DOMAIN h /\ h2[st[k].event] = h[st[k].event]
  <2>1. \A k \in DOMAIN st : IsPipe(st[k]) /\ k # L => st[k].id < f.id
    <3>1. OrderInv(st)
      BY DEF CoreInv
    <3>2. \A k \in DOMAIN st : k # L => k < L /\ L \in DOMAIN st
      BY <1>1
    <3> QED BY <3>1, <3>2 DEF OrderInv
  <2>2. \A k \in DOMAIN st : IsPipe(st[k]) => st[k].id <= f.id
    BY <2>1, <1>1, CoreTypes
  <2>3. \A k \in DOMAIN st : IsPub(st[k]) => st[k].event \in DOMAIN h
    BY <1>3, CoreTypes
  <2> QED BY <2>1, <2>2, <2>3, <1>3
<1>10. PathInv(b, h2)
  <2>1. ASSUME NEW k \in DOMAIN b, IsPub(b[k])
        PROVE  /\ k > 1
               /\ IsPipe(b[k - 1])
               /\ b[k - 1].id = h2[b[k].event].id
               /\ b[k - 1].stage = IF IsStart(h2[b[k].event]) THEN "validate" ELSE "return"
    <3>1. CASE k = L + 1
      BY <3>1, <1>1, <1>2, <1>3, <1>4, <1>5
    <3>2. CASE k \in 1 .. L - 1
      <4>0. k \in DOMAIN st /\ IsPub(st[k]) /\ PathInv(st, h)
        BY <3>2, <2>1, <1>6b DEF CoreInv
      <4>1. /\ k \in DOMAIN st /\ k > 1 /\ IsPub(st[k]) /\ IsPipe(st[k - 1])
            /\ st[k - 1].id = h[st[k].event].id
            /\ st[k - 1].stage = IF IsStart(h[st[k].event]) THEN "validate" ELSE "return"
        BY <4>0 DEF PathInv
      <4>2. b[k] = st[k] /\ b[k - 1] = st[k - 1]
        BY <3>2, <4>1, <1>1, <1>5
      <4> QED BY <4>1, <4>2, <1>9
    <3>3. k # L
      BY <2>1, <1>4, <1>5
    <3> QED BY <3>1, <3>2, <3>3, <1>1, <1>5
  <2>2. ASSUME NEW k \in DOMAIN b, IsPipe(b[k]), k > 1 PROVE CallsOut(b[k - 1])
    <3>1. k \in 1 .. L /\ k - 1 \in 1 .. L - 1
      BY <2>2, <1>1, <1>4, <1>5
    <3>2. k \in DOMAIN st /\ b[k - 1] = st[k - 1]
      BY <3>1, <1>1, <1>5
    <3>3. IsPipe(st[k])
      BY <2>2, <3>1, <1>6a
    <3>4. PathInv(st, h)
      BY DEF CoreInv
    <3> QED BY <2>2, <3>2, <3>3, <3>4 DEF PathInv
  <2> QED BY <2>1, <2>2 DEF PathInv
<1>11. OrderInv(b)
  <2>1. ASSUME NEW j \in DOMAIN b, NEW k \in DOMAIN b, j < k, IsPipe(b[j]), IsPipe(b[k])
        PROVE  b[j].id < b[k].id
    <3>1. j \in DOMAIN st /\ j # L /\ b[j] = st[j] /\ (k = L \/ (k \in DOMAIN st /\ b[k] = st[k]))
      <4>1. b[k] # pub /\ b[j] # pub
        BY <2>1, <1>4
      <4>2. j # L
        BY <2>1, <4>1, <1>6a, <1>1
      <4> QED BY <4>1, <4>2, <1>6a
    <3>2. CASE k = L
      BY <2>1, <3>1, <3>2, <1>4, <1>5, <1>9
    <3>3. CASE k \in DOMAIN st /\ b[k] = st[k]
      BY <2>1, <3>1, <3>3 DEF CoreInv, OrderInv
    <3> QED BY <3>1, <3>2, <3>3
  <2>2. ASSUME NEW j \in DOMAIN b, NEW k \in DOMAIN b, j < k, IsPub(b[j]), IsPub(b[k])
        PROVE  b[j].event < b[k].event
    <3>1. /\ j \in DOMAIN st /\ b[j] = st[j]
          /\ \/ k = L + 1 /\ b[k] = pub
             \/ k \in DOMAIN st /\ b[k] = st[k]
      BY <2>2, <1>6a, <1>1, <1>4
    <3>2. CASE k = L + 1 /\ b[k] = pub
      <4>1. st[j].event \in 1 .. H
        BY <2>2, <3>1, <1>3, <1>9
      <4> QED BY <4>1, <3>1, <3>2, <1>1, <1>4
    <3>3. CASE k \in DOMAIN st /\ b[k] = st[k]
      BY <2>2, <3>1, <3>3 DEF CoreInv, OrderInv
    <3> QED BY <3>1, <3>2, <3>3
  <2> QED BY <2>1, <2>2 DEF OrderInv
<1>12. HistoryInv(h2, ex)
  <2>1. \A n \in DOMAIN h : ~IsStart(h[n]) => h[n].id # f.id
    BY <1>7 DEF Ended
  <2>2. \A id \in 1 .. N : \E n \in DOMAIN h2 : h2[n].id = id /\ IsStart(h2[n])
    BY <1>3 DEF CoreInv, HistoryInv
  <2>3. \A m, n \in DOMAIN h2 : m < n /\ IsStart(h2[m]) /\ IsStart(h2[n]) => h2[m].id < h2[n].id
    BY <1>2, <1>3 DEF CoreInv, HistoryInv
  <2>4. \A m, n \in DOMAIN h2 : ~IsStart(h2[m]) /\ IsStart(h2[n]) /\ h2[m].id = h2[n].id => n < m
    BY <1>1, <1>2, <1>3 DEF CoreInv, HistoryInv
  <2>5. \A m, n \in DOMAIN h2 : ~IsStart(h2[m]) /\ ~IsStart(h2[n]) /\ h2[m].id = h2[n].id => n = m
    BY <2>1, <1>2, <1>3 DEF CoreInv, HistoryInv
  <2> QED BY <2>2, <2>3, <2>4, <2>5 DEF HistoryInv
<1>13. LedgerInv(b, h2, a2, r, ex)
  <2>1. \A id : OnStack(b, id) <=> OnStack(st, id)
    <3>1. ASSUME NEW id, OnStack(b, id) PROVE OnStack(st, id)
      <4>1. PICK k \in DOMAIN b : IsPipe(b[k]) /\ b[k].id = id
        BY <3>1 DEF OnStack
      <4>2. CASE k = L
        BY <4>1, <4>2, <1>1, <1>4, <1>5 DEF OnStack
      <4>3. CASE k \in DOMAIN st /\ b[k] = st[k]
        BY <4>1, <4>3 DEF OnStack
      <4> QED BY <4>1, <4>2, <4>3, <1>6a, <1>4
    <3>2. ASSUME NEW id, OnStack(st, id) PROVE OnStack(b, id)
      <4>1. PICK k \in DOMAIN st : IsPipe(st[k]) /\ st[k].id = id
        BY <3>2 DEF OnStack
      <4>2. k \in DOMAIN b /\ (k # L => b[k] = st[k])
        BY <1>1, <1>5
      <4> QED BY <4>1, <4>2, <1>4, <1>5 DEF OnStack
    <3> QED BY <3>1, <3>2
  <2>2. ASSUME NEW id \in 1 .. N
        PROVE  /\ r[id] = "none" <=> OnStack(b, id)
               /\ r[id] \in {"success", "failure"} => Ended(h2, id)
               /\ r[id] = "raised" => ~Ended(h2, id)
               /\ r[id] = "success" => a2[id] = "success"
               /\ r[id] = "failure" => a2[id] # "success"
               /\ Verdict(ex, id) = "DENY" => a2[id] = "none"
    BY <1>3, <1>6, <1>7, <2>1 DEF CoreInv, LedgerInv
  <2>3. ASSUME NEW n \in DOMAIN h2
        PROVE  /\ h2[n].name = "ExecutionCompleted" => a2[h2[n].id] = "success"
               /\ h2[n].name = "ExecutionFailed" => a2[h2[n].id] # "success"
    <3>1. CASE n = H + 1
      BY <3>1, <1>2, <1>3, <1>6
    <3>2. CASE n \in DOMAIN h
      <4>1. h[n].id \in 1 .. N
        BY <3>2, CoreTypes
      <4>2. h[n].name \in {"ExecutionCompleted", "ExecutionFailed"} => h[n].id # f.id
        BY <3>2, <1>7 DEF Ended, IsStart
      <4> QED BY <3>2, <4>1, <4>2, <1>3, <1>6 DEF CoreInv, LedgerInv
    <3> QED BY <3>1, <3>2, <1>3
  <2>4. ASSUME NEW k \in DOMAIN b, IsPipe(b[k])
        PROVE  /\ b[k].stage = "return" <=> Ended(h2, b[k].id)
               /\ b[k].stage # "return" => a2[b[k].id] = "none"
               /\ b[k].stage = "execute" => Verdict(ex, b[k].id) # "DENY"
    <3>1. CASE k = L
      BY <3>1, <1>3, <1>4, <1>5
    <3>2. CASE k \in 1 .. L - 1
      <4>1. /\ k \in DOMAIN st /\ b[k] = st[k] /\ IsPipe(st[k])
            /\ st[k].id # f.id /\ st[k].id \in 1 .. N
        <5>1. k \in DOMAIN st /\ k # L /\ b[k] = st[k] /\ IsPipe(st[k])
          BY <3>2, <2>4, <1>6b
        <5>2. st[k].id \in 1 .. N
          BY <5>1, CoreTypes
        <5>3. st[k].id < f.id
          BY <5>1, <1>9
        <5> QED BY <5>1, <5>2, <5>3, <1>1
      <4> QED BY <4>1, <1>3, <1>6 DEF CoreInv, LedgerInv
    <3>3. k # L + 1
      BY <2>4, <1>4, <1>5
    <3> QED BY <3>1, <3>2, <3>3, <1>1, <1>5
  <2> QED BY <2>2, <2>3, <2>4 DEF LedgerInv
<1>14. NestInv(h2, r)
  <2>1. \A id \in 1 .. N : f.id < id => r[id] # "none"
    BY <1>1, <1>9, CoreTypes DEF CoreInv, LedgerInv, OnStack
  <2>2. SUFFICES ASSUME NEW s \in DOMAIN h2, NEW t \in DOMAIN h2, NEW u \in DOMAIN h2,
                        IsStart(h2[s]), IsStart(h2[t]), ~IsStart(h2[u]), h2[u].id = h2[s].id,
                        s < t, t < u
                 PROVE  /\ r[h2[t].id] # "none"
                        /\ \A g \in DOMAIN h2 : ~IsStart(h2[g]) /\ h2[g].id = h2[t].id => g < u
    BY DEF NestInv
  <2>3. s \in DOMAIN h /\ t \in DOMAIN h /\ IsStart(h[s]) /\ IsStart(h[t])
    BY <2>2, <1>2, <1>3
  <2>4. h[s].id < h[t].id /\ h[t].id \in 1 .. N /\ h[s].id \in 1 .. N
    BY <2>2, <2>3, CoreTypes DEF CoreInv, HistoryInv
  <2>5. CASE u = H + 1
    <3>1. h[s].id = f.id
      BY <2>2, <2>3, <2>5, <1>2, <1>3
    <3>2. r[h[t].id] # "none" /\ h[t].id # f.id
      BY <3>1, <2>1, <2>4
    <3> QED BY <3>2, <2>3, <2>5, <1>1, <1>2, <1>3
  <2>6. CASE u \in DOMAIN h
    <3>1. /\ r[h[t].id] # "none"
          /\ \A g \in DOMAIN h : ~IsStart(h[g]) /\ h[g].id = h[t].id => g < u
      BY <2>2, <2>3, <2>6, <1>3 DEF CoreInv, NestInv
    <3>2. h[t].id # f.id
      BY <3>1, <1>7
    <3> QED BY <3>1, <3>2, <2>3, <2>6, <1>2, <1>3
  <2> QED BY <2>5, <2>6, <1>3
<1>15. CoreInv(b, h2, a2, r, ex)
  BY <1>8, <1>10, <1>11, <1>12, <1>13, <1>14 DEF CoreInv
<1>16. b = Append(WithTop(st, [f EXCEPT !.stage = "return"]), Publication(Len(h) + 1, q))
  BY <1>4 DEF b, pub
<1> QED BY <1>15, <1>16 DEF h2, a2, e

\* A dispatch: another execution, its pipeline, and its start published on top of it.
LEMMA PublishStart ==
  ASSUME NEW st, NEW h, NEW a, NEW r, NEW ex, CoreInv(st, h, a, r, ex),
         st # <<>> => CallsOut(st[Len(st)]),
         NEW req \in Requests, NEW aud \in SUBSET Subscriptions, NEW q \in Seq(Subscriptions)
  PROVE  CoreInv(Append(Append(st, Pipeline(Len(ex) + 1, "validate")), Publication(Len(h) + 1, q)),
                 Append(h, Event("ExecutionStarted", Len(ex) + 1, aud)),
                 Append(a, "none"), Append(r, "none"), Append(ex, req))
<1> DEFINE N == Len(ex)
           H == Len(h)
           L == Len(st)
           e == Event("ExecutionStarted", N + 1, aud)
           h2 == Append(h, e)
           ex2 == Append(ex, req)
           pipe == Pipeline(N + 1, "validate")
           pub == Publication(H + 1, q)
           mid == Append(st, pipe)
           b == Append(mid, pub)
           a2 == Append(a, "none")
           r2 == Append(r, "none")
<1>1. /\ N \in Nat /\ H \in Nat /\ L \in Nat /\ DOMAIN st = 1 .. L
      /\ h \in Seq(EventSet(N)) /\ st \in Seq(FrameSet(N, H)) /\ ex \in Seq(Requests)
      /\ N + 1 \in Nat /\ H + 1 \in Nat /\ N + 1 \in 1 .. N + 1 /\ H + 1 \in 1 .. H + 1
  BY CoreTypes DEF CoreInv, TypeInv
<1>2. /\ e \in EventSet(N + 1) /\ e.id = N + 1 /\ IsStart(e)
  BY <1>1 DEF EventSet, Event, IsStart, Names
<1> HIDE DEF e
<1>3. /\ h2 \in Seq(EventSet(N + 1))
      /\ Len(h2) = H + 1 /\ DOMAIN h2 = DOMAIN h \cup {H + 1} /\ DOMAIN h = 1 .. H
      /\ h2[H + 1] = e
      /\ \A k \in DOMAIN h : h2[k] = h[k]
      /\ \A id : Ended(h2, id) <=> Ended(h, id)
  <2>1. h \in Seq(EventSet(N + 1))
    <3>1. EventSet(N) \subseteq EventSet(N + 1)
      BY <1>1, FramesGrow
    <3> QED BY <3>1, <1>1, SeqMonotonic
  <2> QED BY <2>1, <1>1, <1>2, Publishing
<1>4. /\ pipe \in FrameSet(N + 1, H + 1) /\ IsPipe(pipe) /\ ~IsPub(pipe) /\ pipe.id = N + 1
      /\ pipe.stage = "validate"
      /\ pub \in FrameSet(N + 1, H + 1) /\ IsPub(pub) /\ ~IsPipe(pub) /\ pub.event = H + 1
  <2>1. "validate" \in StageNames
    BY DEF StageNames
  <2>2. /\ pipe \in FrameSet(N + 1, H + 1) /\ IsPipe(pipe) /\ ~IsPub(pipe) /\ pipe.id = N + 1
        /\ pipe.stage = "validate"
    BY <1>1, <2>1, NewFrames
  <2>3. pub \in FrameSet(N + 1, H + 1) /\ IsPub(pub) /\ ~IsPipe(pub) /\ pub.event = H + 1
    BY <1>1, NewFrames
  <2> QED BY <2>2, <2>3
<1> HIDE DEF h2, pipe, pub
<1>5. /\ b \in Seq(FrameSet(N + 1, H + 1)) /\ DOMAIN b = 1 .. L + 2
      /\ b[L + 2] = pub /\ b[L + 1] = pipe
      /\ \A k \in 1 .. L : b[k] = st[k]
  <2>1. st \in Seq(FrameSet(N + 1, H + 1))
    <3>1. FrameSet(N, H) \subseteq FrameSet(N + 1, H + 1)
      BY <1>1, FramesGrow
    <3> QED BY <3>1, <1>1, SeqMonotonic
  <2>2. /\ mid \in Seq(FrameSet(N + 1, H + 1)) /\ Len(mid) = L + 1 /\ mid[L + 1] = pipe
        /\ \A k \in 1 .. L : mid[k] = st[k]
    BY <1>4, <2>1, AppendProperties, PushFacts
  <2> HIDE DEF mid
  <2>3. /\ b \in Seq(FrameSet(N + 1, H + 1)) /\ DOMAIN b = 1 .. L + 1 + 1
        /\ b[L + 1 + 1] = pub /\ \A k \in 1 .. L + 1 : b[k] = mid[k]
    BY <1>4, <2>2, AppendProperties, PushFacts
  <2> HIDE DEF b
  <2>4. L + 1 + 1 = L + 2 /\ L + 1 \in 1 .. L + 1 /\ \A k \in 1 .. L : k \in 1 .. L + 1
    BY <1>1
  <2> QED BY <2>2, <2>3, <2>4
<1>6. \A k \in DOMAIN b :
        \/ k = L + 2 /\ b[k] = pub
        \/ k = L + 1 /\ b[k] = pipe
        \/ k \in DOMAIN st /\ b[k] = st[k]
  <2> HIDE DEF b
  <2> HIDE DEF L
  <2>1. \A k \in 1 .. L + 2 : k = L + 2 \/ k = L + 1 \/ k \in 1 .. L
    BY <1>1, LastPositions
  <2>2. /\ DOMAIN st = 1 .. L /\ DOMAIN b = 1 .. L + 2
        /\ b[L + 2] = pub /\ b[L + 1] = pipe
        /\ \A k \in 1 .. L : b[k] = st[k]
    BY <1>1, <1>5
  <2> QED BY <2>1, <2>2
<1>7. /\ ex2 \in Seq(Requests) /\ Len(ex2) = N + 1
      /\ \A id \in 1 .. N : ex2[id] = ex[id] /\ Verdict(ex2, id) = Verdict(ex, id)
  <2>1. ex2 \in Seq(Requests) /\ Len(ex2) = N + 1 /\ \A id \in 1 .. N : ex2[id] = ex[id]
    BY <1>1, AppendProperties
  <2> QED BY <2>1 DEF Verdict
<1>8. /\ a2 \in [1 .. N + 1 -> Answers] /\ a2[N + 1] = "none" /\ \A id \in 1 .. N : a2[id] = a[id]
      /\ r2 \in [1 .. N + 1 -> Answers] /\ r2[N + 1] = "none" /\ \A id \in 1 .. N : r2[id] = r[id]
  <2>1. "none" \in Answers
    BY DEF Answers
  <2>2. ASSUME NEW c \in [1 .. N -> Answers]
        PROVE  /\ Append(c, "none") \in [1 .. N + 1 -> Answers] /\ Append(c, "none")[N + 1] = "none"
               /\ \A id \in 1 .. N : Append(c, "none")[id] = c[id]
    <3>1. c \in Seq(Answers) /\ Len(c) = N
      <4>1. c \in Seq(Answers)
        BY <1>1, SeqDef
      <4>2. DOMAIN c = 1 .. N /\ DOMAIN c = 1 .. Len(c) /\ Len(c) \in Nat
        BY <4>1, LenProperties
      <4>3. \A m, n \in Nat : 1 .. m = 1 .. n => m = n
        OBVIOUS
      <4> QED BY <1>1, <4>1, <4>2, <4>3
    <3>2. /\ Append(c, "none") \in Seq(Answers) /\ Len(Append(c, "none")) = N + 1
          /\ Append(c, "none")[N + 1] = "none"
          /\ \A id \in 1 .. N : Append(c, "none")[id] = c[id]
      BY <3>1, <2>1, AppendProperties
    <3>3. DOMAIN Append(c, "none") = 1 .. N + 1
          /\ \A k \in 1 .. N + 1 : Append(c, "none")[k] \in Answers
      BY <3>2, ElementOfSeq, LenProperties
    <3> HIDE DEF N
    <3>4. Append(c, "none") = [k \in 1 .. N + 1 |-> Append(c, "none")[k]]
      BY <3>2, <3>3, LenProperties
    <3>5. [k \in 1 .. N + 1 |-> Append(c, "none")[k]] \in [1 .. N + 1 -> Answers]
      BY ONLY <3>3
    <3> QED BY ONLY <3>2, <3>4, <3>5
  <2> QED BY <2>2 DEF CoreInv, TypeInv
<1> HIDE DEF b, a2, r2, ex2
<1>9. TypeInv(b, h2, a2, r2, ex2)
  BY <1>3, <1>5, <1>7, <1>8 DEF TypeInv
<1>10. /\ \A n \in DOMAIN h : h[n].id \in 1 .. N /\ h[n].id # N + 1
       /\ \A k \in DOMAIN st : IsPipe(st[k]) => st[k].id \in 1 .. N /\ st[k].id < N + 1
       /\ \A k \in DOMAIN st : IsPub(st[k]) => /\ st[k].event \in DOMAIN h /\ st[k].event < H + 1
                                               /\ h2[st[k].event] = h[st[k].event]
       /\ ~Ended(h, N + 1)
  <2>1. \A n \in DOMAIN h : h[n].id \in 1 .. N /\ h[n].id # N + 1
    BY <1>1, CoreTypes
  <2>2. \A k \in DOMAIN st : IsPipe(st[k]) => st[k].id \in 1 .. N /\ st[k].id < N + 1
    BY <1>1, CoreTypes
  <2>3. \A k \in DOMAIN st : IsPub(st[k]) => st[k].event \in 1 .. H /\ st[k].event < H + 1
    BY <1>1, CoreTypes
  <2> QED BY <2>1, <2>2, <2>3, <1>3 DEF Ended
<1>11. PathInv(b, h2)
  <2>1. ASSUME NEW k \in DOMAIN b, IsPub(b[k])
        PROVE  /\ k > 1
               /\ IsPipe(b[k - 1])
               /\ b[k - 1].id = h2[b[k].event].id
               /\ b[k - 1].stage = IF IsStart(h2[b[k].event]) THEN "validate" ELSE "return"
    <3>1. CASE k = L + 2
      <4>1. k > 1 /\ k - 1 = L + 1
        BY <3>1, <1>1
      <4> QED BY <3>1, <4>1, <1>2, <1>3, <1>4, <1>5
    <3>2. CASE k \in DOMAIN st /\ b[k] = st[k]
      <4>1. /\ k > 1 /\ IsPub(st[k]) /\ IsPipe(st[k - 1])
            /\ st[k - 1].id = h[st[k].event].id
            /\ st[k - 1].stage = IF IsStart(h[st[k].event]) THEN "validate" ELSE "return"
        BY <3>2, <2>1 DEF CoreInv, PathInv
      <4>2. b[k - 1] = st[k - 1]
        BY <3>2, <4>1, <1>1, <1>5
      <4> QED BY <3>2, <4>1, <4>2, <1>10
    <3> QED BY <2>1, <3>1, <3>2, <1>4, <1>6
  <2>2. ASSUME NEW k \in DOMAIN b, IsPipe(b[k]), k > 1 PROVE CallsOut(b[k - 1])
    <3>1. CASE k = L + 1
      <4>1. k - 1 = L /\ L \in 1 .. L /\ st # <<>>
        BY <3>1, <2>2, <1>1
      <4> QED BY <4>1, <1>5
    <3>2. CASE k \in DOMAIN st /\ b[k] = st[k]
      <4>1. CallsOut(st[k - 1])
        BY <3>2, <2>2 DEF CoreInv, PathInv
      <4>2. b[k - 1] = st[k - 1]
        BY <3>2, <2>2, <1>1, <1>5
      <4> QED BY <4>1, <4>2
    <3> QED BY <2>2, <3>1, <3>2, <1>4, <1>6
  <2> QED BY <2>1, <2>2 DEF PathInv
<1>12. OrderInv(b)
  <2>1. ASSUME NEW j \in DOMAIN b, NEW k \in DOMAIN b, j < k, IsPipe(b[j]), IsPipe(b[k])
        PROVE  b[j].id < b[k].id
    <3>1. j \in DOMAIN st /\ b[j] = st[j]
      BY <2>1, <1>1, <1>4, <1>5, <1>6
    <3>2. CASE k = L + 1 /\ b[k] = pipe
      BY <2>1, <3>1, <3>2, <1>4, <1>10
    <3>3. CASE k \in DOMAIN st /\ b[k] = st[k]
      BY <2>1, <3>1, <3>3 DEF CoreInv, OrderInv
    <3> QED BY <2>1, <3>2, <3>3, <1>4, <1>6
  <2>2. ASSUME NEW j \in DOMAIN b, NEW k \in DOMAIN b, j < k, IsPub(b[j]), IsPub(b[k])
        PROVE  b[j].event < b[k].event
    <3>1. j \in DOMAIN st /\ b[j] = st[j]
      BY <2>2, <1>1, <1>4, <1>5, <1>6
    <3>2. CASE k = L + 2 /\ b[k] = pub
      BY <2>2, <3>1, <3>2, <1>4, <1>10
    <3>3. CASE k \in DOMAIN st /\ b[k] = st[k]
      BY <2>2, <3>1, <3>3 DEF CoreInv, OrderInv
    <3> QED BY <2>2, <3>2, <3>3, <1>4, <1>6
  <2> QED BY <2>1, <2>2 DEF OrderInv
<1>13. HistoryInv(h2, ex2)
  <2>1. ASSUME NEW id \in 1 .. N + 1 PROVE \E n \in DOMAIN h2 : h2[n].id = id /\ IsStart(h2[n])
    <3>1. CASE id = N + 1
      BY <3>1, <1>2, <1>3
    <3>2. CASE id \in 1 .. N
      BY <3>2, <1>3 DEF CoreInv, HistoryInv
    <3> QED BY <3>1, <3>2, <1>1
  <2>2. \A m, n \in DOMAIN h2 : m < n /\ IsStart(h2[m]) /\ IsStart(h2[n]) => h2[m].id < h2[n].id
    <3> SUFFICES ASSUME NEW m \in DOMAIN h2, NEW n \in DOMAIN h2, m < n, IsStart(h2[m]), IsStart(h2[n])
                 PROVE  h2[m].id < h2[n].id
      OBVIOUS
    <3>1. m \in DOMAIN h
      BY <1>1, <1>3
    <3>2. CASE n = H + 1
      BY <3>1, <3>2, <1>1, <1>2, <1>3, <1>10
    <3>3. CASE n \in DOMAIN h
      BY <3>1, <3>3, <1>3 DEF CoreInv, HistoryInv
    <3> QED BY <3>2, <3>3, <1>3
  <2>3. \A m, n \in DOMAIN h2 : ~IsStart(h2[m]) /\ IsStart(h2[n]) /\ h2[m].id = h2[n].id => n < m
    BY <1>2, <1>3, <1>10 DEF CoreInv, HistoryInv
  <2>4. \A m, n \in DOMAIN h2 : ~IsStart(h2[m]) /\ ~IsStart(h2[n]) /\ h2[m].id = h2[n].id => n = m
    BY <1>2, <1>3 DEF CoreInv, HistoryInv
  <2> QED BY <2>1, <2>2, <2>3, <2>4, <1>7 DEF HistoryInv
<1>14. LedgerInv(b, h2, a2, r2, ex2)
  <2>1. OnStack(b, N + 1)
    <3>1. L + 1 \in DOMAIN b
      BY <1>1, <1>5
    <3> QED BY <3>1, <1>4, <1>5 DEF OnStack
  <2>2. ASSUME NEW id \in 1 .. N PROVE OnStack(b, id) <=> OnStack(st, id)
    <3>1. ASSUME OnStack(b, id) PROVE OnStack(st, id)
      <4>1. PICK k \in DOMAIN b : IsPipe(b[k]) /\ b[k].id = id
        BY <3>1 DEF OnStack
      <4>2. k \in DOMAIN st /\ b[k] = st[k]
        BY <4>1, <1>1, <1>4, <1>6
      <4> QED BY <4>1, <4>2 DEF OnStack
    <3>2. ASSUME OnStack(st, id) PROVE OnStack(b, id)
      <4>1. PICK k \in DOMAIN st : IsPipe(st[k]) /\ st[k].id = id
        BY <3>2 DEF OnStack
      <4>2. k \in DOMAIN b /\ b[k] = st[k]
        BY <1>1, <1>5
      <4> QED BY <4>1, <4>2 DEF OnStack
    <3> QED BY <3>1, <3>2
  <2>3. ASSUME NEW id \in 1 .. N + 1
        PROVE  /\ r2[id] = "none" <=> OnStack(b, id)
               /\ r2[id] \in {"success", "failure"} => Ended(h2, id)
               /\ r2[id] = "raised" => ~Ended(h2, id)
               /\ r2[id] = "success" => a2[id] = "success"
               /\ r2[id] = "failure" => a2[id] # "success"
               /\ Verdict(ex2, id) = "DENY" => a2[id] = "none"
    <3>1. CASE id = N + 1
      BY <3>1, <2>1, <1>8
    <3>2. CASE id \in 1 .. N
      <4>1. r2[id] = r[id] /\ a2[id] = a[id] /\ Verdict(ex2, id) = Verdict(ex, id)
        BY <3>2, <1>7, <1>8
      <4>2. (Ended(h2, id) <=> Ended(h, id)) /\ (OnStack(b, id) <=> OnStack(st, id))
        BY <3>2, <2>2, <1>3
      <4>3. LedgerInv(st, h, a, r, ex)
        BY DEF CoreInv
      <4> QED BY <3>2, <4>1, <4>2, <4>3 DEF LedgerInv
    <3> QED BY <3>1, <3>2, <1>1
  <2>4. ASSUME NEW n \in DOMAIN h2
        PROVE  /\ h2[n].name = "ExecutionCompleted" => a2[h2[n].id] = "success"
               /\ h2[n].name = "ExecutionFailed" => a2[h2[n].id] # "success"
    <3>1. CASE n = H + 1
      BY <3>1, <1>2, <1>3 DEF IsStart
    <3>2. CASE n \in DOMAIN h
      BY <3>2, <1>3, <1>8, <1>10 DEF CoreInv, LedgerInv
    <3> QED BY <3>1, <3>2, <1>3
  <2>5. ASSUME NEW k \in DOMAIN b, IsPipe(b[k])
        PROVE  /\ b[k].stage = "return" <=> Ended(h2, b[k].id)
               /\ b[k].stage # "return" => a2[b[k].id] = "none"
               /\ b[k].stage = "execute" => Verdict(ex2, b[k].id) # "DENY"
    <3>1. CASE k = L + 1 /\ b[k] = pipe
      BY <3>1, <1>3, <1>4, <1>8, <1>10
    <3>2. CASE k \in DOMAIN st /\ b[k] = st[k]
      BY <2>5, <3>2, <1>3, <1>7, <1>8, <1>10 DEF CoreInv, LedgerInv
    <3> QED BY <2>5, <3>1, <3>2, <1>4, <1>6
  <2> QED BY <2>3, <2>4, <2>5, <1>7 DEF LedgerInv
<1>15. NestInv(h2, r2)
  <2> SUFFICES ASSUME NEW s \in DOMAIN h2, NEW t \in DOMAIN h2, NEW u \in DOMAIN h2,
                      IsStart(h2[s]), IsStart(h2[t]), ~IsStart(h2[u]), h2[u].id = h2[s].id,
                      s < t, t < u
               PROVE  /\ r2[h2[t].id] # "none"
                      /\ \A g \in DOMAIN h2 : ~IsStart(h2[g]) /\ h2[g].id = h2[t].id => g < u
    BY DEF NestInv
  <2>1. u \in DOMAIN h /\ s \in DOMAIN h /\ t \in DOMAIN h
    BY <1>1, <1>2, <1>3
  <2>2. /\ r[h[t].id] # "none"
        /\ \A g \in DOMAIN h : ~IsStart(h[g]) /\ h[g].id = h[t].id => g < u
    BY <2>1, <1>3 DEF CoreInv, NestInv
  <2> QED BY <2>1, <2>2, <1>2, <1>3, <1>8, <1>10
<1>16. CoreInv(b, h2, a2, r2, ex2)
  BY <1>9, <1>11, <1>12, <1>13, <1>14, <1>15 DEF CoreInv
<1> QED BY <1>16 DEF b, h2, a2, r2, ex2, e, pipe, pub

-----------------------------------------------------------------------------
(* Delivery, step by step. *)

\* The same publications are under way in st and b, with the same handlers to call.
SamePublications(st, b) ==
  /\ \A k \in DOMAIN b : IsPub(b[k]) =>
       \E j \in DOMAIN st : IsPub(st[j]) /\ st[j].event = b[k].event /\ st[j].handlers = b[k].handlers
  /\ \A j \in DOMAIN st : IsPub(st[j]) =>
       \E k \in DOMAIN b : IsPub(b[k]) /\ b[k].event = st[j].event

\* Steps of pipelines, and handlers that return, deliver nothing.
LEMMA NothingDelivered ==
  ASSUME NEW st, NEW b, NEW h, NEW rec, DeliveryInv(st, h, rec), SamePublications(st, b)
  PROVE  DeliveryInv(b, h, rec)
<1>1. \A n : Published(b, n) <=> Published(st, n)
  BY DEF SamePublications, Published
<1>2. ASSUME NEW k \in DOMAIN b, IsPub(b[k])
      PROVE  /\ Once(b[k].handlers)
             /\ \A s \in Subscriptions :
                  s \in Elements(b[k].handlers) <=>
                    s \in h[b[k].event].audience /\ b[k].event \notin Elements(rec[s])
  <2>1. PICK j \in DOMAIN st : IsPub(st[j]) /\ st[j].event = b[k].event /\ st[j].handlers = b[k].handlers
    BY <1>2 DEF SamePublications
  <2>2. /\ Once(st[j].handlers)
        /\ \A s \in Subscriptions :
             s \in Elements(st[j].handlers) <=>
               s \in h[st[j].event].audience /\ st[j].event \notin Elements(rec[s])
    BY <2>1 DEF DeliveryInv
  <2> QED BY <2>1, <2>2
<1> QED BY <1>1, <1>2 DEF DeliveryInv

\* Frames that replace each other on top of a stack, or go, without being publications.
LEMMA SamePublicationsTop ==
  ASSUME NEW S, NEW st \in Seq(S), st # <<>>, NEW g
  PROVE  /\ ~IsPub(st[Len(st)]) => SamePublications(st, Below(st))
         /\ ~IsPub(st[Len(st)]) /\ ~IsPub(g) => SamePublications(st, WithTop(st, g))
         /\ /\ IsPub(st[Len(st)]) /\ IsPub(g)
            /\ g.event = st[Len(st)].event /\ g.handlers = st[Len(st)].handlers
            => SamePublications(st, WithTop(st, g))
<1>1. /\ Len(st) \in Nat \ {0} /\ DOMAIN st = 1 .. Len(st)
      /\ DOMAIN Below(st) = 1 .. Len(st) - 1 /\ \A k \in 1 .. Len(st) - 1 : Below(st)[k] = st[k]
  BY PopFacts
<1>2. /\ Len(st) \in Nat \ {0} /\ DOMAIN st = 1 .. Len(st)
      /\ Len(WithTop(st, g)) = Len(st)
      /\ DOMAIN WithTop(st, g) = 1 .. Len(st)
      /\ WithTop(st, g)[Len(st)] = g
      /\ \A k \in 1 .. Len(st) - 1 : WithTop(st, g)[k] = st[k]
      /\ WithTop(st, g) # <<>>
      /\ g \in S => WithTop(st, g) \in Seq(S)
  BY WithTopFacts, Zenon
<1> DEFINE L == Len(st)
           b == Below(st)
           c == WithTop(st, g)
<1>3. /\ DOMAIN st = 1 .. L /\ DOMAIN b = 1 .. L - 1 /\ DOMAIN c = 1 .. L /\ c[L] = g
      /\ \A k \in 1 .. L - 1 : b[k] = st[k] /\ c[k] = st[k]
  BY <1>1, <1>2
<1>4. L \in 1 .. L /\ (\A k \in 1 .. L - 1 : k \in 1 .. L) /\ \A k \in 1 .. L : k = L \/ k \in 1 .. L - 1
  BY <1>1, TopPosition
<1> HIDE DEF L, b, c
<1>5. ~IsPub(st[L]) => SamePublications(st, b)
  BY <1>3, <1>4 DEF SamePublications
<1>6. ~IsPub(st[L]) /\ ~IsPub(g) => SamePublications(st, c)
  BY <1>3, <1>4 DEF SamePublications
<1>7. IsPub(st[L]) /\ IsPub(g) /\ g.event = st[L].event /\ g.handlers = st[L].handlers
        => SamePublications(st, c)
  BY <1>3, <1>4 DEF SamePublications
<1> QED BY <1>5, <1>6, <1>7 DEF L, b, c

\* A publication that has called its last handler leaves everybody served.
LEMMA PublicationEnds ==
  ASSUME NEW S, NEW st \in Seq(S), NEW h, NEW rec, DeliveryInv(st, h, rec),
         st # <<>>, IsPub(st[Len(st)]), st[Len(st)].handlers = <<>>
  PROVE  DeliveryInv(Below(st), h, rec)
<1> DEFINE L == Len(st)
           b == Below(st)
<1>1. /\ L \in Nat \ {0} /\ DOMAIN st = 1 .. L
      /\ DOMAIN b = 1 .. L - 1 /\ \A k \in 1 .. L - 1 : b[k] = st[k]
  BY PopFacts
<1>2. L \in 1 .. L /\ (\A k \in 1 .. L - 1 : k \in 1 .. L) /\ \A k \in 1 .. L : k = L \/ k \in 1 .. L - 1
  BY <1>1, TopPosition
<1>3. \A s : s \notin Elements(st[L].handlers)
  BY DEF Elements
<1> HIDE DEF L, b
<1>4. \A s \in Subscriptions : s \in h[st[L].event].audience => st[L].event \in Elements(rec[s])
  BY <1>1, <1>2, <1>3 DEF DeliveryInv, L
<1>5. \A n : Published(st, n) => Published(b, n) \/ n = st[L].event
  BY <1>1, <1>2 DEF Published
<1>6. ASSUME NEW s \in Subscriptions, NEW n \in DOMAIN h, s \in h[n].audience, ~Published(b, n)
      PROVE  n \in Elements(rec[s])
  BY <1>4, <1>5, <1>6 DEF DeliveryInv
<1>7. \A k \in DOMAIN b : IsPub(b[k]) => k \in DOMAIN st /\ b[k] = st[k]
  BY <1>1, <1>2
<1>8. ASSUME NEW k \in DOMAIN b, IsPub(b[k])
      PROVE  /\ Once(b[k].handlers)
             /\ \A s \in Subscriptions :
                  s \in Elements(b[k].handlers) <=>
                    s \in h[b[k].event].audience /\ b[k].event \notin Elements(rec[s])
  BY <1>7, <1>8 DEF DeliveryInv
<1> QED BY <1>6, <1>8 DEF DeliveryInv, b

\* A new publication has to call everybody who is subscribed, once.
LEMMA PublicationBegins ==
  ASSUME NEW N \in Nat, NEW h \in Seq(EventSet(N)), NEW st, NEW rec, DeliveryInv(st, h, rec),
         NEW S, NEW c \in Seq(S), SamePublications(st, c),
         NEW e \in EventSet(N), NEW q \in Seq(Subscriptions), Once(q), e.audience = Elements(q),
         \A k \in DOMAIN st : IsPub(st[k]) => st[k].event \in DOMAIN h
  PROVE  DeliveryInv(Append(c, Publication(Len(h) + 1, q)), Append(h, e), rec)
<1> DEFINE H == Len(h)
           M == Len(c)
           pub == Publication(H + 1, q)
           b == Append(c, pub)
           h2 == Append(h, e)
<1>1. /\ H \in Nat /\ DOMAIN h = 1 .. H /\ DOMAIN h2 = DOMAIN h \cup {H + 1} /\ H + 1 \notin DOMAIN h
      /\ h2[H + 1] = e /\ \A k \in DOMAIN h : h2[k] = h[k]
  BY Publishing
<1>2. /\ M \in Nat /\ DOMAIN c = 1 .. M /\ DOMAIN b = 1 .. M + 1
      /\ b[M + 1] = pub /\ \A k \in 1 .. M : b[k] = c[k]
  BY PushFacts
<1>3. IsPub(pub) /\ pub.event = H + 1 /\ pub.handlers = q
  BY DEF Publication, IsPub
<1>4. M + 1 \in 1 .. M + 1 /\ (\A k \in 1 .. M : k \in 1 .. M + 1) /\ \A k \in 1 .. M + 1 : k = M + 1 \/ k \in 1 .. M
  BY <1>2
<1> HIDE DEF H, M, pub, b, h2
<1>5. DeliveryInv(c, h, rec)
  BY NothingDelivered
<1>6. \A s \in Subscriptions : Elements(rec[s]) \subseteq DOMAIN h /\ \A j \in DOMAIN rec[s] : rec[s][j] \in DOMAIN h
  BY <1>5 DEF DeliveryInv, Elements
<1>7. rec \in [Subscriptions -> Seq(DOMAIN h2)]
  <2>1. rec \in [Subscriptions -> Seq(DOMAIN h)] /\ DOMAIN h \subseteq DOMAIN h2
    BY <1>1, <1>5 DEF DeliveryInv
  <2> QED BY <2>1, SeqMonotonic
<1>8. ASSUME NEW s \in Subscriptions
      PROVE  /\ Once(rec[s])
             /\ \A n \in Elements(rec[s]) : s \in h2[n].audience
             /\ \A j, k \in DOMAIN rec[s] :
                  IsStart(h2[rec[s][j]]) /\ ~IsStart(h2[rec[s][k]]) /\ h2[rec[s][j]].id = h2[rec[s][k]].id
                    => j < k
  BY <1>1, <1>5, <1>6 DEF DeliveryInv
<1>9. ASSUME NEW s \in Subscriptions, NEW n \in DOMAIN h2, s \in h2[n].audience, ~Published(b, n)
      PROVE  n \in Elements(rec[s])
  <2>1. n # H + 1
    BY <1>2, <1>3, <1>4, <1>9 DEF Published
  <2>2. ~Published(c, n)
    BY <1>2, <1>4, <1>9 DEF Published
  <2> QED BY <1>1, <1>5, <1>9, <2>1, <2>2 DEF DeliveryInv
<1>10. ASSUME NEW k \in DOMAIN b, IsPub(b[k])
       PROVE  /\ Once(b[k].handlers)
              /\ \A s \in Subscriptions :
                   s \in Elements(b[k].handlers) <=>
                     s \in h2[b[k].event].audience /\ b[k].event \notin Elements(rec[s])
  <2>1. CASE k = M + 1
    BY <2>1, <1>1, <1>2, <1>3, <1>6
  <2>2. CASE k \in 1 .. M
    <3>1. /\ b[k] = c[k]
          /\ Once(c[k].handlers)
          /\ \A s \in Subscriptions :
               s \in Elements(c[k].handlers) <=>
                 s \in h[c[k].event].audience /\ c[k].event \notin Elements(rec[s])
      BY <2>2, <1>2, <1>5, <1>10 DEF DeliveryInv
    <3>2. c[k].event \in DOMAIN h
      BY <2>2, <1>2, <1>10, <3>1 DEF SamePublications
    <3> QED BY <3>1, <3>2, <1>1
  <2> QED BY <2>1, <2>2, <1>2, <1>4
<1> QED BY <1>7, <1>8, <1>9, <1>10 DEF DeliveryInv, b, h2, pub, H

LEMMA AppendOnce ==
  ASSUME NEW S, NEW q \in Seq(S), NEW x \in S
  PROVE  /\ Append(q, x) \in Seq(S)
         /\ Elements(Append(q, x)) = Elements(q) \cup {x}
         /\ Once(q) /\ x \notin Elements(q) => Once(Append(q, x))
<1> DEFINE n == Len(q)
           p == Append(q, x)
<1>1. /\ p \in Seq(S) /\ n \in Nat /\ DOMAIN q = 1 .. n /\ DOMAIN p = 1 .. n + 1
      /\ p[n + 1] = x /\ \A k \in 1 .. n : p[k] = q[k]
  BY PushFacts, AppendProperties
<1>2. n + 1 \in 1 .. n + 1 /\ (\A k \in 1 .. n : k \in 1 .. n + 1) /\ \A k \in 1 .. n + 1 : k = n + 1 \/ k \in 1 .. n
  BY <1>1
<1> HIDE DEF n, p
<1>3. Elements(p) = Elements(q) \cup {x}
  BY <1>1, <1>2 DEF Elements
<1>4. Once(q) /\ x \notin Elements(q) => Once(p)
  BY <1>1, <1>2 DEF Elements, Once
<1> QED BY <1>1, <1>3, <1>4 DEF p

LEMMA TailOnce ==
  ASSUME NEW S, NEW q \in Seq(S), q # <<>>, Once(q)
  PROVE  /\ Head(q) \in S /\ Head(q) \in Elements(q) /\ Tail(q) \in Seq(S)
         /\ Once(Tail(q)) /\ Elements(Tail(q)) = Elements(q) \ {Head(q)}
<1> DEFINE n == Len(q)
           p == Tail(q)
<1>1. /\ p \in Seq(S) /\ n \in Nat \ {0} /\ DOMAIN q = 1 .. n /\ DOMAIN p = 1 .. n - 1
      /\ q[1] = Head(q) /\ Head(q) \in S /\ \A k \in 1 .. n - 1 : p[k] = q[k + 1]
  BY HeadTailProperties
<1>2. /\ 1 \in 1 .. n
      /\ \A k \in 1 .. n - 1 : k + 1 \in 1 .. n /\ k + 1 # 1
      /\ \A k \in 1 .. n : k = 1 \/ (k - 1 \in 1 .. n - 1 /\ (k - 1) + 1 = k)
      /\ \A j, k \in 1 .. n - 1 : j + 1 = k + 1 => j = k
  BY <1>1
<1> HIDE DEF n, p
<1>3. Once(p)
  <2> SUFFICES ASSUME NEW j \in 1 .. n - 1, NEW k \in 1 .. n - 1, p[j] = p[k] PROVE j = k
    BY <1>1 DEF Once
  <2>1. j + 1 \in DOMAIN q /\ k + 1 \in DOMAIN q /\ q[j + 1] = q[k + 1]
    BY <1>1, <1>2
  <2>2. j + 1 = k + 1
    BY <2>1 DEF Once
  <2> QED BY <1>2, <2>2
<1>4. Elements(p) \subseteq Elements(q) \ {Head(q)}
  <2> SUFFICES ASSUME NEW k \in 1 .. n - 1 PROVE p[k] \in Elements(q) /\ p[k] # Head(q)
    BY <1>1 DEF Elements
  <2>1. k + 1 \in 1 .. n /\ k + 1 # 1 /\ p[k] = q[k + 1]
    BY <1>1, <1>2
  <2>2. p[k] \in Elements(q)
    BY <1>1, <2>1 DEF Elements
  <2>3. p[k] # q[1]
    BY <1>1, <1>2, <2>1 DEF Once
  <2> QED BY <1>1, <2>2, <2>3
<1>5. Elements(q) \ {Head(q)} \subseteq Elements(p)
  <2> SUFFICES ASSUME NEW k \in 1 .. n, q[k] # Head(q) PROVE q[k] \in Elements(p)
    BY <1>1 DEF Elements
  <2>1. k - 1 \in 1 .. n - 1 /\ (k - 1) + 1 = k
    BY <1>1, <1>2
  <2>2. p[k - 1] = q[k]
    BY <1>1, <2>1
  <2> QED BY <1>1, <2>1, <2>2 DEF Elements
<1>6. Head(q) \in Elements(q)
  BY <1>1, <1>2 DEF Elements
<1> QED BY <1>1, <1>3, <1>4, <1>5, <1>6 DEF p

\* An end is not published before the handlers of the start have returned, so nobody can
\* get the two the other way round.
LEMMA StartNotEnded ==
  ASSUME NEW st, NEW h, NEW a, NEW r, NEW ex, CoreInv(st, h, a, r, ex),
         NEW k \in DOMAIN st, IsPub(st[k]), IsStart(h[st[k].event])
  PROVE  ~Ended(h, h[st[k].event].id)
<1>1. k > 1 /\ IsPipe(st[k - 1]) /\ st[k - 1].id = h[st[k].event].id /\ st[k - 1].stage = "validate"
  BY DEF CoreInv, PathInv
<1>2. k - 1 \in DOMAIN st
  BY <1>1, CoreTypes
<1>3. LedgerInv(st, h, a, r, ex)
  BY DEF CoreInv
<1> QED BY <1>1, <1>2, <1>3 DEF LedgerInv

\* The next handler gets the event.
LEMMA Delivering ==
  ASSUME NEW st, NEW h, NEW a, NEW r, NEW ex, CoreInv(st, h, a, r, ex),
         NEW rec, DeliveryInv(st, h, rec),
         st # <<>>, NEW f, f = st[Len(st)], IsPub(f), f.handlers # <<>>,
         NEW s, s = Head(f.handlers),
         NEW g, IsPub(g), g.event = f.event, g.handlers = Tail(f.handlers)
  PROVE  DeliveryInv(WithTop(st, g), h, [rec EXCEPT ![s] = Append(@, f.event)])
<1>1. /\ Len(st) \in Nat \ {0} /\ DOMAIN st = 1 .. Len(st)
      /\ Len(WithTop(st, g)) = Len(st)
      /\ DOMAIN WithTop(st, g) = 1 .. Len(st)
      /\ WithTop(st, g)[Len(st)] = g
      /\ \A k \in 1 .. Len(st) - 1 : WithTop(st, g)[k] = st[k]
      /\ WithTop(st, g) # <<>>
      /\ g \in FrameSet(Len(ex), Len(h)) => WithTop(st, g) \in Seq(FrameSet(Len(ex), Len(h)))
  <2>1. st \in Seq(FrameSet(Len(ex), Len(h)))
    BY DEF CoreInv, TypeInv
  <2> QED BY <2>1, WithTopFacts, Zenon
<1> DEFINE L == Len(st)
           c == WithTop(st, g)
           n == f.event
           rec2 == [rec EXCEPT ![s] = Append(@, n)]
<1>2. /\ L \in Nat \ {0} /\ DOMAIN st = 1 .. L /\ DOMAIN c = 1 .. L /\ c[L] = g
      /\ \A k \in 1 .. L - 1 : c[k] = st[k]
  BY <1>1
<1>3. L \in 1 .. L /\ (\A k \in 1 .. L - 1 : k \in 1 .. L) /\ \A k \in 1 .. L : k = L \/ k \in 1 .. L - 1
  BY <1>2, TopPosition
<1>4. \A k \in 1 .. L - 1 : k < L
  BY <1>2
<1>5. n \in DOMAIN h /\ f.handlers \in Seq(Subscriptions)
  <2>1. f \in FrameSet(Len(ex), Len(h)) /\ Len(ex) \in Nat /\ Len(h) \in Nat /\ DOMAIN h = 1 .. Len(h)
    BY <1>2, <1>3, CoreTypes
  <2> QED BY <2>1, FrameFacts
<1> HIDE DEF L, c, n
<1>6. /\ Once(f.handlers)
      /\ \A t \in Subscriptions : t \in Elements(f.handlers) <=> t \in h[n].audience /\ n \notin Elements(rec[t])
  BY <1>2, <1>3 DEF DeliveryInv, L, n
<1>7. /\ s \in Subscriptions /\ s \in Elements(f.handlers)
      /\ Once(g.handlers) /\ Elements(g.handlers) = Elements(f.handlers) \ {s}
  BY <1>5, <1>6, TailOnce
<1>8. s \in h[n].audience /\ n \notin Elements(rec[s])
  BY <1>6, <1>7
<1>9. rec \in [Subscriptions -> Seq(DOMAIN h)] /\ rec[s] \in Seq(DOMAIN h) /\ Once(rec[s])
  BY <1>7 DEF DeliveryInv
<1>10. /\ rec2 \in [Subscriptions -> Seq(DOMAIN h)] /\ rec2[s] = Append(rec[s], n)
       /\ \A t \in Subscriptions : t # s => rec2[t] = rec[t]
  BY <1>5, <1>7, <1>9, AppendOnce
<1> HIDE DEF rec2
<1>11. Elements(rec2[s]) = Elements(rec[s]) \cup {n} /\ Once(rec2[s])
  BY <1>5, <1>8, <1>9, <1>10, AppendOnce
<1>12. \A m : Published(c, m) <=> Published(st, m)
  BY <1>2, <1>3 DEF Published, L
<1>13. ASSUME NEW t \in Subscriptions
       PROVE  /\ Once(rec2[t])
              /\ \A m \in Elements(rec2[t]) : t \in h[m].audience
              /\ \A m \in DOMAIN h : t \in h[m].audience /\ ~Published(c, m) => m \in Elements(rec2[t])
  <2>1. CASE t = s
    <3>1. /\ \A m \in Elements(rec[s]) : s \in h[m].audience
          /\ \A m \in DOMAIN h : s \in h[m].audience /\ ~Published(st, m) => m \in Elements(rec[s])
      BY <1>7 DEF DeliveryInv
    <3> QED BY <2>1, <3>1, <1>8, <1>11, <1>12
  <2>2. CASE t # s
    <3>1. /\ Once(rec[t])
          /\ \A m \in Elements(rec[t]) : t \in h[m].audience
          /\ \A m \in DOMAIN h : t \in h[m].audience /\ ~Published(st, m) => m \in Elements(rec[t])
      BY DEF DeliveryInv
    <3> QED BY <2>2, <3>1, <1>10, <1>12
  <2> QED BY <2>1, <2>2
<1>14. ASSUME NEW t \in Subscriptions, NEW j \in DOMAIN rec2[t], NEW k \in DOMAIN rec2[t],
              IsStart(h[rec2[t][j]]), ~IsStart(h[rec2[t][k]]), h[rec2[t][j]].id = h[rec2[t][k]].id
       PROVE  j < k
  <2>1. CASE t # s
    <3>1. rec2[t] = rec[t]
      BY <2>1, <1>10
    <3>2. \A i, l \in DOMAIN rec[t] :
            IsStart(h[rec[t][i]]) /\ ~IsStart(h[rec[t][l]]) /\ h[rec[t][i]].id = h[rec[t][l]].id => i < l
      BY DEF DeliveryInv
    <3> QED BY <3>1, <3>2, <1>14
  <2>2. CASE t = s
    <3> DEFINE M == Len(rec[s])
    <3>1. /\ M \in Nat /\ DOMAIN rec[s] = 1 .. M /\ DOMAIN rec2[s] = 1 .. M + 1
          /\ rec2[s][M + 1] = n /\ \A i \in 1 .. M : rec2[s][i] = rec[s][i]
      BY <1>9, <1>10, PushFacts
    <3>2. \A i \in 1 .. M + 1 : i = M + 1 \/ (i \in 1 .. M /\ i < M + 1)
      <4>1. \A m \in Nat : \A i \in 1 .. m + 1 : i = m + 1 \/ (i \in 1 .. m /\ i < m + 1)
        OBVIOUS
      <4> HIDE DEF M
      <4> QED BY <3>1, <4>1
    <3> HIDE DEF M
    <3>3. CASE j \in 1 .. M /\ k \in 1 .. M
      <4>1. rec2[s][j] = rec[s][j] /\ rec2[s][k] = rec[s][k] /\ j \in DOMAIN rec[s] /\ k \in DOMAIN rec[s]
        BY <3>1, <3>3
      <4>2. IsStart(h[rec[s][j]]) /\ ~IsStart(h[rec[s][k]]) /\ h[rec[s][j]].id = h[rec[s][k]].id
        BY <2>2, <4>1, <1>14
      <4>3. \A i, l \in DOMAIN rec[s] :
              IsStart(h[rec[s][i]]) /\ ~IsStart(h[rec[s][l]]) /\ h[rec[s][i]].id = h[rec[s][l]].id => i < l
        BY <1>7 DEF DeliveryInv
      <4> QED BY <4>1, <4>2, <4>3
    <3>4. CASE j = M + 1
      <4>1. IsStart(h[n]) /\ h[n].id = h[rec2[s][k]].id
        BY <2>2, <3>1, <3>4, <1>14
      <4>2. ~Ended(h, h[n].id)
        <5>1. L \in DOMAIN st /\ IsPub(st[L]) /\ st[L].event = n
          BY <1>2, <1>3 DEF L, n
        <5> QED BY <4>1, <5>1, StartNotEnded
      <4>3. rec2[s][k] \in DOMAIN h
        <5>1. rec2[s] \in Seq(DOMAIN h)
          BY <1>7, <1>10
        <5> QED BY <5>1, <2>2, <1>14
      <4> QED BY <2>2, <4>1, <4>2, <4>3, <1>14 DEF Ended
    <3>5. CASE k = M + 1 /\ j \in 1 .. M
      BY <3>2, <3>5, <3>1
    <3> QED BY <2>2, <3>1, <3>2, <3>3, <3>4, <3>5, <1>14
  <2> QED BY <2>1, <2>2
<1>15. ASSUME NEW k \in DOMAIN c, IsPub(c[k])
       PROVE  /\ Once(c[k].handlers)
              /\ \A t \in Subscriptions :
                   t \in Elements(c[k].handlers) <=>
                     t \in h[c[k].event].audience /\ c[k].event \notin Elements(rec2[t])
  <2>1. CASE k = L
    <3>1. c[k] = g /\ g.event = n
      BY <2>1, <1>2 DEF n
    <3> QED BY <3>1, <1>6, <1>7, <1>8, <1>10, <1>11
  <2>2. CASE k \in 1 .. L - 1
    <3>1. c[k] = st[k] /\ k \in DOMAIN st /\ IsPub(st[k])
      BY <2>2, <1>2, <1>3, <1>15
    <3>2. st[k].event # n
      <4>1. OrderInv(st) /\ k < L /\ L \in DOMAIN st /\ k \in DOMAIN st /\ IsPub(st[L])
        BY <2>2, <3>1, <1>2, <1>3, <1>4 DEF CoreInv, L
      <4>2. st[k].event < st[L].event
        BY <3>1, <4>1 DEF OrderInv
      <4>3. st[k].event \in 1 .. Len(h) /\ st[L].event \in 1 .. Len(h) /\ Len(h) \in Nat
        BY <3>1, <4>1, CoreTypes
      <4>4. \A x, y \in 1 .. Len(h) : x < y => x # y
        BY <4>3
      <4> QED BY <4>2, <4>3, <4>4 DEF n, L
    <3>3. /\ Once(st[k].handlers)
          /\ \A t \in Subscriptions :
               t \in Elements(st[k].handlers) <=>
                 t \in h[st[k].event].audience /\ st[k].event \notin Elements(rec[t])
      BY <3>1 DEF DeliveryInv
    <3> QED BY <3>1, <3>2, <3>3, <1>10, <1>11
  <2> QED BY <2>1, <2>2, <1>2, <1>3
<1> QED BY <1>10, <1>13, <1>14, <1>15 DEF DeliveryInv, c, rec2, n

-----------------------------------------------------------------------------
(* Subscriptions. *)

LEMMA ElementsOf ==
  ASSUME NEW S, NEW q \in Seq(S)
  PROVE  Elements(q) \subseteq S
BY DEF Elements

\* pop takes one place out of a list, and leaves the others in order.
LEMMA WithoutOnce ==
  ASSUME NEW S, NEW q \in Seq(S), Once(q), NEW s
  PROVE  Without(q, s) \in Seq(S) /\ Once(Without(q, s)) /\ Elements(Without(q, s)) \subseteq Elements(q)
<1> DEFINE n == Len(q)
           i == CHOOSE k \in DOMAIN q : q[k] = s
           x == SubSeq(q, 1, i - 1)
           y == SubSeq(q, i + 1, n)
           p == x \o y
<1>1. CASE s \notin Elements(q)
  BY <1>1 DEF Without
<1>2. CASE s \in Elements(q)
  <2>1. n \in Nat /\ DOMAIN q = 1 .. n /\ \A k \in 1 .. n : q[k] \in S
    OBVIOUS
  <2>2. i \in 1 .. n
    <3>1. \E k \in DOMAIN q : q[k] = s
      BY <1>2 DEF Elements
    <3> QED BY <2>1, <3>1
  <2> HIDE DEF i, n
  <2>3. /\ i - 1 \in Nat /\ n - i \in Nat /\ (i - 1) + (n - i) = n - 1
        /\ (IF 1 <= i - 1 THEN i - 1 - 1 + 1 ELSE 0) = i - 1
        /\ (IF i + 1 <= n THEN n - (i + 1) + 1 ELSE 0) = n - i
        /\ 1 \in Int /\ i - 1 \in Int /\ i + 1 \in Int /\ n \in Int
        /\ 1 .. i - 1 \subseteq 1 .. n /\ i + 1 .. n \subseteq 1 .. n
    BY <2>1, <2>2
  <2>3a. (\A k \in 1 .. i - 1 : q[k] \in S) /\ \A k \in i + 1 .. n : q[k] \in S
    BY <2>1, <2>3
  <2>4. /\ x \in Seq(S) /\ Len(x) = i - 1
        /\ \A k \in 1 .. i - 1 : x[k] = q[k]
    <3>1. /\ x \in Seq(S) /\ Len(x) = IF 1 <= i - 1 THEN i - 1 - 1 + 1 ELSE 0
          /\ \A k \in 1 .. i - 1 - 1 + 1 : x[k] = q[1 + k - 1]
      BY <2>3, <2>3a, SubSeqProperties
    <3>2. i - 1 - 1 + 1 = i - 1 /\ \A k \in 1 .. i - 1 : 1 + k - 1 = k
      BY <2>3
    <3> QED BY <3>1, <3>2, <2>3
  <2>5. /\ y \in Seq(S) /\ Len(y) = n - i
        /\ \A k \in 1 .. n - i : y[k] = q[i + k]
    <3>1. /\ y \in Seq(S) /\ Len(y) = IF i + 1 <= n THEN n - (i + 1) + 1 ELSE 0
          /\ \A k \in 1 .. n - (i + 1) + 1 : y[k] = q[i + 1 + k - 1]
      BY <2>3, <2>3a, SubSeqProperties
    <3>2. n - (i + 1) + 1 = n - i /\ \A k \in 1 .. n - i : i + 1 + k - 1 = i + k
      BY <2>2, <2>3
    <3> QED BY <3>1, <3>2, <2>3
  <2> HIDE DEF x, y
  <2>6. /\ p \in Seq(S) /\ Len(p) = n - 1
        /\ \A k \in 1 .. Len(p) : p[k] = IF k <= Len(x) THEN x[k] ELSE y[k - Len(x)]
    <3>1. /\ x \in Seq(S) /\ y \in Seq(S)
      BY <2>4, <2>5
    <3>2. /\ p \in Seq(S) /\ Len(p) = Len(x) + Len(y)
          /\ \A k \in 1 .. Len(x) + Len(y) : p[k] = IF k <= Len(x) THEN x[k] ELSE y[k - Len(x)]
      BY <3>1, ConcatProperties
    <3> HIDE DEF p
    <3>3. Len(p) = n - 1
      BY <2>3, <2>4, <2>5, <3>2
    <3> QED BY <3>2, <3>3
  <2> HIDE DEF p
  <2>7. DOMAIN p = 1 .. n - 1
    BY <2>6
  <2> DEFINE at(k) == IF k <= i - 1 THEN k ELSE k + 1
  <2>8. ASSUME NEW k \in 1 .. n - 1 PROVE at(k) \in 1 .. n /\ p[k] = q[at(k)]
    <3>1. CASE k <= i - 1
      <4>1. k \in 1 .. i - 1 /\ k \in 1 .. n
        BY <3>1, <2>1, <2>2
      <4> QED BY <3>1, <4>1, <2>4, <2>6
    <3>2. CASE ~(k <= i - 1)
      <4>1. k - (i - 1) \in 1 .. n - i /\ i + (k - (i - 1)) = k + 1 /\ k + 1 \in 1 .. n
        BY <3>2, <2>1, <2>2
      <4> QED BY <3>2, <4>1, <2>4, <2>5, <2>6
    <3> QED BY <3>1, <3>2
  <2>9. \A j, k \in 1 .. n - 1 : at(j) = at(k) => j = k
    BY <2>1, <2>2
  <2> HIDE DEF at
  <2>10. Once(p)
    <3> SUFFICES ASSUME NEW j \in 1 .. n - 1, NEW k \in 1 .. n - 1, p[j] = p[k] PROVE j = k
      BY <2>7 DEF Once
    <3>1. at(j) = at(k)
      BY <2>1, <2>8 DEF Once
    <3> QED BY <2>9, <3>1
  <2>11. Elements(p) \subseteq Elements(q)
    BY <2>1, <2>7, <2>8 DEF Elements
  <2>12. Without(q, s) = p
    BY <1>2 DEF Without, p, x, y, i, n
  <2> QED BY <2>6, <2>10, <2>11, <2>12
<1> QED BY <1>1, <1>2

LEMMA SubscriptionAdded ==
  ASSUME NEW subs, NEW iss, SubscriptionInv(subs, iss), NEW s \in Subscriptions, s \notin iss
  PROVE  SubscriptionInv([subs EXCEPT ![TypeOf[s]] = Append(@, s)], iss \cup {s})
<1> DEFINE u == TypeOf[s]
           subs2 == [subs EXCEPT ![u] = Append(@, s)]
<1>1. u \in Types
  BY BusAssumption DEF Types
<1>2. subs[u] \in Seq(Subscriptions) /\ Once(subs[u]) /\ s \notin Elements(subs[u])
  BY <1>1 DEF SubscriptionInv
<1>3. /\ Append(subs[u], s) \in Seq(Subscriptions) /\ Once(Append(subs[u], s))
      /\ Elements(Append(subs[u], s)) = Elements(subs[u]) \cup {s}
  BY <1>2, AppendOnce
<1>4. /\ subs2 \in [Types -> Seq(Subscriptions)] /\ subs2[u] = Append(subs[u], s)
      /\ \A t \in Types : t # u => subs2[t] = subs[t]
  BY <1>1, <1>3 DEF SubscriptionInv
<1> HIDE DEF subs2
<1>5. ASSUME NEW t \in Types
      PROVE  Once(subs2[t]) /\ \A x \in Elements(subs2[t]) : TypeOf[x] = t /\ x \in iss \cup {s}
  <2>1. Once(subs[t]) /\ \A x \in Elements(subs[t]) : TypeOf[x] = t /\ x \in iss
    BY DEF SubscriptionInv
  <2> QED BY <2>1, <1>3, <1>4
<1> QED BY <1>4, <1>5 DEF SubscriptionInv, subs2

LEMMA SubscriptionRemoved ==
  ASSUME NEW subs, NEW iss, SubscriptionInv(subs, iss), NEW s
  PROVE  /\ SubscriptionInv([t \in Types |-> Without(subs[t], s)], iss)
         /\ SubscriptionInv([t \in Types |-> <<>>], iss)
<1>1. ASSUME NEW t \in Types
      PROVE  /\ Without(subs[t], s) \in Seq(Subscriptions) /\ Once(Without(subs[t], s))
             /\ \A x \in Elements(Without(subs[t], s)) : TypeOf[x] = t /\ x \in iss
  <2>1. subs[t] \in Seq(Subscriptions) /\ Once(subs[t]) /\ \A x \in Elements(subs[t]) : TypeOf[x] = t /\ x \in iss
    BY DEF SubscriptionInv
  <2> QED BY <2>1, WithoutOnce
<1>2. SubscriptionInv([t \in Types |-> Without(subs[t], s)], iss)
  BY <1>1 DEF SubscriptionInv
<1>3. <<>> \in Seq(Subscriptions) /\ Once(<<>>) /\ Elements(<<>>) = {}
  BY DEF Once, Elements
<1>4. SubscriptionInv([t \in Types |-> <<>>], iss)
  BY <1>3 DEF SubscriptionInv
<1> QED BY <1>2, <1>4

\* A publication copies both lists: everybody once.
LEMMA EverybodyOnce ==
  ASSUME SubscriptionInv(subscribers, issued)
  PROVE  /\ Everybody \in Seq(Subscriptions) /\ Once(Everybody)
         /\ Elements(Everybody) \in SUBSET Subscriptions
<1> DEFINE x == subscribers["system"]
           y == subscribers["*"]
           p == x \o y
<1>1. /\ x \in Seq(Subscriptions) /\ y \in Seq(Subscriptions) /\ Once(x) /\ Once(y)
      /\ \A s \in Elements(x) : s \notin Elements(y)
  BY DEF SubscriptionInv, Types
<1> HIDE DEF x, y
<1>2. /\ p \in Seq(Subscriptions) /\ Len(p) = Len(x) + Len(y)
      /\ \A k \in 1 .. Len(p) : p[k] = IF k <= Len(x) THEN x[k] ELSE y[k - Len(x)]
      /\ Len(x) \in Nat /\ Len(y) \in Nat /\ DOMAIN x = 1 .. Len(x) /\ DOMAIN y = 1 .. Len(y)
      /\ DOMAIN p = 1 .. Len(x) + Len(y)
  BY <1>1, ConcatProperties
<1> DEFINE m == Len(x)
           n == Len(y)
<1>3. m \in Nat /\ n \in Nat /\ DOMAIN p = 1 .. m + n /\ DOMAIN x = 1 .. m /\ DOMAIN y = 1 .. n
  BY <1>2
<1>4. \A k \in 1 .. m + n : \/ k <= m /\ k \in 1 .. m /\ p[k] = x[k]
                            \/ ~(k <= m) /\ k - m \in 1 .. n /\ p[k] = y[k - m]
  BY <1>2
<1> HIDE DEF m, n, p
<1>5. ASSUME NEW j \in DOMAIN p, NEW k \in DOMAIN p, p[j] = p[k] PROVE j = k
  <2>1. CASE j <= m /\ k <= m
    <3>1. j \in DOMAIN x /\ k \in DOMAIN x /\ x[j] = x[k]
      BY <2>1, <1>3, <1>4, <1>5
    <3> QED BY <3>1, <1>1 DEF Once
  <2>2. CASE ~(j <= m) /\ ~(k <= m)
    <3>1. j - m \in DOMAIN y /\ k - m \in DOMAIN y /\ y[j - m] = y[k - m]
      BY <2>2, <1>3, <1>4, <1>5
    <3>2. j - m = k - m
      BY <3>1, <1>1 DEF Once
    <3>3. \A a, b \in 1 .. m + n : a - m = b - m => a = b
      BY <1>3
    <3> QED BY <3>2, <3>3, <1>3
  <2>3. CASE j <= m /\ ~(k <= m)
    BY <2>3, <1>1, <1>3, <1>4, <1>5 DEF Elements
  <2>4. CASE ~(j <= m) /\ k <= m
    BY <2>4, <1>1, <1>3, <1>4, <1>5 DEF Elements
  <2> QED BY <2>1, <2>2, <2>3, <2>4
<1>6. Once(p)
  BY <1>5 DEF Once
<1>7. Elements(p) \in SUBSET Subscriptions
  BY <1>2, ElementsOf DEF p
<1> QED BY <1>2, <1>6, <1>7 DEF Everybody, p, x, y

-----------------------------------------------------------------------------
(* The steps of the two buses. *)

\* The end of an execution is published, to q.
LEMMA Ending ==
  ASSUME NEW st, NEW h, NEW a, NEW r, NEW ex, CoreInv(st, h, a, r, ex),
         NEW rec, DeliveryInv(st, h, rec),
         st # <<>>, NEW f, f = st[Len(st)], IsPipe(f), f.stage # "return",
         NEW name \in {"ExecutionCompleted", "ExecutionFailed"}, NEW x \in Answers,
         NEW q \in Seq(Subscriptions), Once(q),
         name = "ExecutionCompleted" <=> x = "success",
         Verdict(ex, f.id) = "DENY" => x = "none"
  PROVE  LET b == Append(WithTop(st, [f EXCEPT !.stage = "return"]), Publication(Len(h) + 1, q))
             h2 == Append(h, Event(name, f.id, Elements(q)))
         IN CoreInv(b, h2, [a EXCEPT ![f.id] = x], r, ex) /\ DeliveryInv(b, h2, rec)
<1>1. Elements(q) \in SUBSET Subscriptions
  BY ElementsOf
<1>2. CoreInv(Append(WithTop(st, [f EXCEPT !.stage = "return"]), Publication(Len(h) + 1, q)),
              Append(h, Event(name, f.id, Elements(q))), [a EXCEPT ![f.id] = x], r, ex)
  BY <1>1, PublishEnd
<1> DEFINE pipe == [f EXCEPT !.stage = "return"]
           c == WithTop(st, pipe)
           e == Event(name, f.id, Elements(q))
           S == FrameSet(Len(ex), Len(h))
<1>3. /\ Len(st) \in Nat \ {0} /\ DOMAIN st = 1 .. Len(st) /\ st \in Seq(S)
      /\ Len(ex) \in Nat /\ Len(h) \in Nat /\ h \in Seq(EventSet(Len(ex)))
      /\ f \in S /\ f.id \in 1 .. Len(ex) /\ ~IsPub(f)
      /\ \A k \in DOMAIN st : IsPub(st[k]) => st[k].event \in DOMAIN h
  <2>1. st \in Seq(S) /\ h \in Seq(EventSet(Len(ex)))
    BY DEF CoreInv, TypeInv
  <2>2. Len(st) \in Nat \ {0} /\ DOMAIN st = 1 .. Len(st) /\ Len(st) \in DOMAIN st
    BY <2>1
  <2>3. /\ Len(ex) \in Nat /\ Len(h) \in Nat /\ f \in S /\ f.id \in 1 .. Len(ex)
        /\ \A k \in DOMAIN st : IsPub(st[k]) => st[k].event \in DOMAIN h
    BY <2>2, CoreTypes
  <2>4. ~IsPub(f)
    BY DEF IsPub, IsPipe
  <2> QED BY <2>1, <2>2, <2>3, <2>4
<1>4. pipe \in S /\ ~IsPub(pipe)
  <2>1. "return" \in StageNames
    BY DEF StageNames
  <2>2. pipe = Pipeline(f.id, "return")
    BY <1>3, <2>1, FrameFacts
  <2> HIDE DEF pipe
  <2> QED BY <1>3, <2>1, <2>2, NewFrames
<1>5. e \in EventSet(Len(ex)) /\ e.audience = Elements(q)
  BY <1>1, <1>3 DEF EventSet, Event, Names
<1> HIDE DEF pipe, e, S
<1>6. c \in Seq(S) /\ SamePublications(st, c)
  BY <1>3, <1>4, WithTopFacts, SamePublicationsTop
<1> HIDE DEF c
<1>7. DeliveryInv(Append(c, Publication(Len(h) + 1, q)), Append(h, e), rec)
  BY <1>3, <1>5, <1>6, PublicationBegins
<1> QED BY <1>2, <1>7 DEF c, e, pipe

\* A start is published, by code outside the buses.
LEMMA Starting ==
  ASSUME NEW st, NEW h, NEW a, NEW r, NEW ex, CoreInv(st, h, a, r, ex),
         NEW rec, DeliveryInv(st, h, rec),
         st # <<>> => CallsOut(st[Len(st)]),
         NEW req \in Requests, NEW q \in Seq(Subscriptions), Once(q)
  PROVE  LET b == Append(Append(st, Pipeline(Len(ex) + 1, "validate")), Publication(Len(h) + 1, q))
             h2 == Append(h, Event("ExecutionStarted", Len(ex) + 1, Elements(q)))
         IN /\ CoreInv(b, h2, Append(a, "none"), Append(r, "none"), Append(ex, req))
            /\ DeliveryInv(b, h2, rec)
<1>1. Elements(q) \in SUBSET Subscriptions
  BY ElementsOf
<1>2. CoreInv(Append(Append(st, Pipeline(Len(ex) + 1, "validate")), Publication(Len(h) + 1, q)),
              Append(h, Event("ExecutionStarted", Len(ex) + 1, Elements(q))),
              Append(a, "none"), Append(r, "none"), Append(ex, req))
  BY <1>1, PublishStart
<1> DEFINE N == Len(ex) + 1
           pipe == Pipeline(N, "validate")
           c == Append(st, pipe)
           e == Event("ExecutionStarted", N, Elements(q))
           S == FrameSet(N, Len(h))
<1>3. /\ Len(ex) \in Nat /\ N \in Nat /\ N \in 1 .. N /\ Len(ex) <= N /\ Len(h) \in Nat /\ Len(h) <= Len(h)
      /\ st \in Seq(FrameSet(Len(ex), Len(h))) /\ h \in Seq(EventSet(Len(ex)))
      /\ \A k \in DOMAIN st : IsPub(st[k]) => st[k].event \in DOMAIN h
  BY CoreTypes DEF CoreInv, TypeInv
<1> HIDE DEF N
<1>4. st \in Seq(S) /\ h \in Seq(EventSet(N))
  BY <1>3, FramesGrow, SeqMonotonic
<1>5. pipe \in S /\ ~IsPub(pipe)
  <2>1. "validate" \in StageNames
    BY DEF StageNames
  <2> QED BY <1>3, <2>1, NewFrames
<1>6. e \in EventSet(N) /\ e.audience = Elements(q)
  BY <1>1, <1>3 DEF EventSet, Event, Names
<1> HIDE DEF pipe, e, S
<1>7. c \in Seq(S) /\ SamePublications(st, c)
  <2> DEFINE L == Len(st)
  <2>1. /\ L \in Nat /\ DOMAIN st = 1 .. L /\ DOMAIN c = 1 .. L + 1 /\ c[L + 1] = pipe
        /\ \A k \in 1 .. L : c[k] = st[k]
    BY <1>4, PushFacts
  <2>2. (\A k \in 1 .. L : k \in 1 .. L + 1) /\ \A k \in 1 .. L + 1 : k = L + 1 \/ k \in 1 .. L
    BY <2>1
  <2>3. c \in Seq(S)
    BY <1>4, <1>5, AppendProperties
  <2> HIDE DEF L, c
  <2> QED BY <1>5, <2>1, <2>2, <2>3 DEF SamePublications
<1> HIDE DEF c
<1>8. DeliveryInv(Append(c, Publication(Len(h) + 1, q)), Append(h, e), rec)
  BY <1>3, <1>4, <1>6, <1>7, PublicationBegins
<1> QED BY <1>2, <1>8 DEF c, e, pipe, N

\* A pipeline moves or goes, or a handler comes back: nothing is delivered.
LEMMA TopMoves ==
  ASSUME NEW st, NEW h, NEW a, NEW r, NEW ex, CoreInv(st, h, a, r, ex),
         NEW rec, DeliveryInv(st, h, rec), st # <<>>, NEW f, f = st[Len(st)], NEW g
  PROVE  /\ IsPipe(f) => DeliveryInv(Below(st), h, rec)
         /\ IsPipe(f) /\ ~IsPub(g) => DeliveryInv(WithTop(st, g), h, rec)
         /\ IsPub(f) /\ IsPub(g) /\ g.event = f.event /\ g.handlers = f.handlers
              => DeliveryInv(WithTop(st, g), h, rec)
<1>1. st \in Seq(FrameSet(Len(ex), Len(h)))
  BY DEF CoreInv, TypeInv
<1>2. IsPipe(f) => ~IsPub(f)
  BY DEF IsPipe, IsPub
<1>3. /\ ~IsPub(f) => SamePublications(st, Below(st))
      /\ ~IsPub(f) /\ ~IsPub(g) => SamePublications(st, WithTop(st, g))
      /\ IsPub(f) /\ IsPub(g) /\ g.event = f.event /\ g.handlers = f.handlers
            => SamePublications(st, WithTop(st, g))
  BY <1>1, SamePublicationsTop
<1> QED BY <1>2, <1>3, NothingDelivered

\* A handler comes back to its publication.
LEMMA HandlerBack ==
  ASSUME NEW st, NEW h, NEW a, NEW r, NEW ex, CoreInv(st, h, a, r, ex),
         NEW rec, DeliveryInv(st, h, rec), st # <<>>, NEW f, f = st[Len(st)], IsPub(f)
  PROVE  LET b == WithTop(st, [f EXCEPT !.handler = NoHandler])
         IN CoreInv(b, h, a, r, ex) /\ DeliveryInv(b, h, rec)
<1> DEFINE g == [f EXCEPT !.handler = NoHandler]
<1>1. f \in FrameSet(Len(ex), Len(h)) /\ Len(ex) \in Nat /\ Len(h) \in Nat
  <2>1. Len(st) \in Nat \ {0} /\ DOMAIN st = 1 .. Len(st)
    BY CoreTypes DEF CoreInv, TypeInv
  <2> QED BY <2>1, CoreTypes
<1>3. g \in FrameSet(Len(ex), Len(h)) /\ IsPub(g) /\ g.event = f.event /\ g.handlers = f.handlers
  <2> DEFINE m == Len(h)
  <2>1. f \in PublicationFrames(m)
    BY <1>1 DEF FrameSet, PipelineFrames, IsPub
  <2> HIDE DEF m
  <2>2. g \in PublicationFrames(m) /\ IsPub(g) /\ g.event = f.event /\ g.handlers = f.handlers
    BY <2>1 DEF PublicationFrames, IsPub
  <2> QED BY <2>2 DEF FrameSet, m
<1> HIDE DEF g
<1>4. CoreInv(WithTop(st, g), h, a, r, ex)
  BY <1>3, NextHandler
<1>5. DeliveryInv(WithTop(st, g), h, rec)
  BY <1>3, TopMoves
<1> QED BY <1>4, <1>5 DEF g

-----------------------------------------------------------------------------
(* The invariant. *)

LEMMA InitIInv == Init => IInv
<1> SUFFICES ASSUME Init PROVE IInv
  OBVIOUS
<1>1. /\ executions = <<>> /\ stack = <<>> /\ history = <<>> /\ answer = <<>> /\ result = <<>>
      /\ commands = {} /\ issued = {}
      /\ subscribers = [t \in Types |-> <<>>] /\ received = [s \in Subscriptions |-> <<>>]
  BY DEF Init
<1>2. /\ \A S : <<>> \in Seq(S)
      /\ Len(<<>>) = 0 /\ DOMAIN <<>> = {} /\ 1 .. 0 = {}
      /\ Once(<<>>) /\ Elements(<<>>) = {}
      /\ \A S : <<>> \in [{} -> S]
  BY DEF Once, Elements
<1>3. TypeInv(stack, history, answer, result, executions)
  BY <1>1, <1>2 DEF TypeInv
<1>4. PathInv(stack, history) /\ OrderInv(stack)
  BY <1>1, <1>2 DEF PathInv, OrderInv
<1>5. HistoryInv(history, executions) /\ NestInv(history, result)
  BY <1>1, <1>2 DEF HistoryInv, NestInv
<1>6. LedgerInv(stack, history, answer, result, executions)
  BY <1>1, <1>2 DEF LedgerInv
<1>7. SubscriptionInv(subscribers, issued)
  BY <1>1, <1>2 DEF SubscriptionInv
<1>8. DeliveryInv(stack, history, received)
  BY <1>1, <1>2 DEF DeliveryInv
<1>9. Len(executions) <= MaxExecutions
  BY <1>1, <1>2, BusAssumption
<1> QED BY <1>1, <1>3, <1>4, <1>5, <1>6, <1>7, <1>8, <1>9 DEF IInv, CoreInv

\* Where the code outside the buses runs, a dispatch finds a frame that called it.
LEMMA UserCodeCalls ==
  ASSUME InUserCode, stack # <<>>
  PROVE  CallsOut(Top)
BY DEF InUserCode, InHandler, InPipeline, CallsOut, IsPipe

LEMMA NextIInv == IInv /\ [Next]_vars => IInv'
<1> SUFFICES ASSUME IInv, [Next]_vars PROVE IInv'
  OBVIOUS
<1>1. /\ CoreInv(stack, history, answer, result, executions)
      /\ SubscriptionInv(subscribers, issued)
      /\ DeliveryInv(stack, history, received)
      /\ commands \subseteq Actions /\ Len(executions) <= MaxExecutions
  BY DEF IInv
<1>2. Everybody \in Seq(Subscriptions) /\ Once(Everybody)
  BY <1>1, EverybodyOnce
<1> DEFINE Kept == /\ CoreInv(stack', history', answer', result', executions')
                   /\ SubscriptionInv(subscribers', issued')
                   /\ DeliveryInv(stack', history', received')
                   /\ commands' \subseteq Actions /\ Len(executions') <= MaxExecutions
<1>3. SUFFICES Kept
  BY DEF IInv
<1>4. stack # <<>> => Len(stack) \in DOMAIN stack /\ Top = stack[Len(stack)]
  <2>1. stack \in Seq(FrameSet(Len(executions), Len(history)))
    BY <1>1 DEF CoreInv, TypeInv
  <2> QED BY <2>1 DEF Top
<1>5. LedgerInv(stack, history, answer, result, executions)
  BY <1>1 DEF CoreInv
<1>6. ASSUME NEW stage, InPipeline(stage)
      PROVE  /\ stack # <<>> /\ IsPipe(Top) /\ Top.stage = stage
             /\ stage # "return" => answer[Top.id] = "none" /\ answer = [answer EXCEPT ![Top.id] = "none"]
             /\ stage = "execute" => Verdict(executions, Top.id) # "DENY"
  <2>1. stack # <<>> /\ IsPipe(Top) /\ Top.stage = stage
    BY <1>6 DEF InPipeline, IsPipe
  <2>2. /\ stage # "return" => answer[Top.id] = "none"
        /\ stage = "execute" => Verdict(executions, Top.id) # "DENY"
    BY <1>4, <1>5, <2>1 DEF LedgerInv
  <2>3. \E S : answer \in [1 .. Len(executions) -> S]
    BY <1>1 DEF CoreInv, TypeInv
  <2>4. answer = [answer EXCEPT ![Top.id] = answer[Top.id]]
    BY <2>3
  <2> QED BY <2>1, <2>2, <2>4
<1>7. ASSUME NEW name \in {"ExecutionCompleted", "ExecutionFailed"}, NEW x \in Answers,
             stack # <<>>, IsPipe(Top), Top.stage # "return", End(name),
             name = "ExecutionCompleted" <=> x = "success",
             Verdict(executions, Top.id) = "DENY" => x = "none"
      PROVE  /\ CoreInv(stack', history', [answer EXCEPT ![Top.id] = x], result, executions)
             /\ DeliveryInv(stack', history', received)
  <2>1. /\ history' = Append(history, Event(name, Top.id, Elements(Everybody)))
        /\ stack' = Append(WithTop(stack, [Top EXCEPT !.stage = "return"]),
                           Publication(Len(history) + 1, Everybody))
    BY <1>7 DEF End, Publish, Goto, Event
  <2>2. LET b == Append(WithTop(stack, [Top EXCEPT !.stage = "return"]),
                        Publication(Len(history) + 1, Everybody))
            h2 == Append(history, Event(name, Top.id, Elements(Everybody)))
        IN /\ CoreInv(b, h2, [answer EXCEPT ![Top.id] = x], result, executions)
           /\ DeliveryInv(b, h2, received)
    BY <1>1, <1>2, <1>4, <1>7, Ending
  <2> QED BY <2>1, <2>2
<1>8. ASSUME NEW r \in Requests, Dispatch(r) PROVE Kept
  <2>1. stack # <<>> => CallsOut(stack[Len(stack)])
    BY <1>4, <1>8, UserCodeCalls DEF Dispatch
  <2>2. LET b == Append(Append(stack, Pipeline(Len(executions) + 1, "validate")),
                        Publication(Len(history) + 1, Everybody))
            h2 == Append(history, Event("ExecutionStarted", Len(executions) + 1, Elements(Everybody)))
        IN /\ CoreInv(b, h2, Append(answer, "none"), Append(result, "none"), Append(executions, r))
           /\ DeliveryInv(b, h2, received)
    BY <1>1, <1>2, <2>1, Starting
  <2>3. /\ history' = Append(history, Event("ExecutionStarted", Len(executions) + 1, Elements(Everybody)))
        /\ stack' = Append(Append(stack, Pipeline(Len(executions) + 1, "validate")),
                           Publication(Len(history) + 1, Everybody))
        /\ answer' = Append(answer, "none") /\ result' = Append(result, "none")
        /\ executions' = Append(executions, r)
        /\ UNCHANGED <<commands, subscribers, issued, received>>
    BY <1>8 DEF Dispatch, Publish, Event
  <2>4. Len(executions') <= MaxExecutions
    <3>1. executions \in Seq(Requests) /\ Len(executions) < MaxExecutions /\ MaxExecutions \in Nat
      BY <1>1, <1>8, BusAssumption DEF CoreInv, TypeInv, Dispatch
    <3>2. Len(Append(executions, r)) = Len(executions) + 1 /\ Len(executions) \in Nat
      BY <3>1, AppendProperties
    <3> QED BY <2>3, <3>1, <3>2
  <2> QED BY <1>1, <2>2, <2>3, <2>4
<1>9. ASSUME NEW s \in Subscriptions, Subscribe(s) PROVE Kept
  <2>1. SubscriptionInv([subscribers EXCEPT ![TypeOf[s]] = Append(@, s)], issued \cup {s})
    BY <1>1, <1>9, SubscriptionAdded DEF Subscribe
  <2> QED BY <1>1, <1>9, <2>1 DEF Subscribe
<1>10. ASSUME NEW s \in Subscriptions, Unsubscribe(s) PROVE Kept
  <2>1. SubscriptionInv([t \in Types |-> Without(subscribers[t], s)], issued)
    BY <1>1, SubscriptionRemoved
  <2> QED BY <1>1, <1>10, <2>1 DEF Unsubscribe
<1>11. ASSUME ClearSubscribers PROVE Kept
  <2>1. SubscriptionInv([t \in Types |-> <<>>], issued)
    BY <1>1, SubscriptionRemoved
  <2> QED BY <1>1, <1>11, <2>1 DEF ClearSubscribers
<1>12. ASSUME NEW c \in Actions, RegisterCommand(c) PROVE Kept
  BY <1>1, <1>12 DEF RegisterCommand
<1>13. ASSUME ClearCommands PROVE Kept
  BY <1>1, <1>13 DEF ClearCommands
<1>14. ASSUME Deliver PROVE Kept
  <2> DEFINE s == Head(Top.handlers)
             g == [Top EXCEPT !.handlers = Tail(@), !.handler = s]
  <2>1. /\ stack # <<>> /\ IsPub(Top) /\ Top.handlers # <<>>
        /\ received' = [received EXCEPT ![s] = Append(@, Top.event)]
        /\ stack' = WithTop(stack, g)
        /\ UNCHANGED <<commands, executions, subscribers, history, issued, answer, result>>
    BY <1>14 DEF Deliver, BetweenHandlers, ToBeCalled, IsPub
  <2>2. Top \in FrameSet(Len(executions), Len(history)) /\ Len(executions) \in Nat /\ Len(history) \in Nat
    BY <1>1, <1>4, <2>1, CoreTypes
  <2>3. Top.handlers \in Seq(Subscriptions)
    BY <2>1, <2>2, FrameFacts
  <2>4. Tail(Top.handlers) \in Seq(Subscriptions) /\ s \in Subscriptions
    BY <2>1, <2>3, HeadTailProperties
  <2>5. /\ g \in FrameSet(Len(executions), Len(history))
        /\ IsPub(g) /\ g.event = Top.event /\ g.handlers = Tail(Top.handlers)
    <3> DEFINE m == Len(history)
               q == Tail(Top.handlers)
    <3>1. Top \in PublicationFrames(m)
      BY <2>1, <2>2 DEF FrameSet, PipelineFrames, IsPub
    <3>2. g = [Top EXCEPT !.handlers = q, !.handler = s] /\ q \in Seq(Subscriptions) /\ s \in Subscriptions
      BY <2>4
    <3> HIDE DEF m, q, s, g
    <3>3. g \in PublicationFrames(m) /\ IsPub(g) /\ g.event = Top.event /\ g.handlers = q
      BY <3>1, <3>2 DEF PublicationFrames, IsPub
    <3> QED BY <3>3 DEF FrameSet, m, q
  <2> HIDE DEF g
  <2>6. CoreInv(WithTop(stack, g), history, answer, result, executions)
    BY <1>1, <1>4, <2>1, <2>5, NextHandler
  <2>7. DeliveryInv(WithTop(stack, g), history, [received EXCEPT ![s] = Append(@, Top.event)])
    BY <1>1, <1>4, <2>1, <2>5, Delivering
  <2> QED BY <1>1, <2>1, <2>6, <2>7
<1>15. ASSUME HandlerReturns PROVE Kept
  <2>1. stack # <<>> /\ IsPub(Top) /\ Top = stack[Len(stack)]
    BY <1>4, <1>15 DEF HandlerReturns, InHandler, IsPub
  <2>2. LET b == WithTop(stack, [Top EXCEPT !.handler = NoHandler])
        IN CoreInv(b, history, answer, result, executions) /\ DeliveryInv(b, history, received)
    BY <1>1, <2>1, HandlerBack
  <2> QED BY <1>1, <1>15, <2>2 DEF HandlerReturns
<1>17. ASSUME PublishReturns PROVE Kept
  <2>1. stack # <<>> /\ IsPub(stack[Len(stack)]) /\ stack[Len(stack)].handlers = <<>>
    BY <1>4, <1>17 DEF PublishReturns, BetweenHandlers, IsPub
  <2>2. CoreInv(Below(stack), history, answer, result, executions)
    BY <1>1, <2>1, PopPublication
  <2>3. stack \in Seq(FrameSet(Len(executions), Len(history)))
    BY <1>1 DEF CoreInv, TypeInv
  <2>4. DeliveryInv(Below(stack), history, received)
    BY <1>1, <2>1, <2>3, PublicationEnds
  <2> QED BY <1>1, <1>17, <2>2, <2>4 DEF PublishReturns
<1>18. ASSUME NEW g \in {"authorize", "execute"}, stack # <<>>, IsPipe(Top), Top.stage # "return",
              g = "execute" => Verdict(executions, Top.id) # "DENY", stack' = Goto(g)
       PROVE  CoreInv(stack', history, answer, result, executions) /\ DeliveryInv(stack', history, received)
  <2> DEFINE p == [Top EXCEPT !.stage = g]
  <2>1. Top \in FrameSet(Len(executions), Len(history)) /\ Len(executions) \in Nat /\ Len(history) \in Nat
    BY <1>1, <1>4, <1>18, CoreTypes
  <2>2. g \in StageNames
    BY DEF StageNames
  <2>3. p = Pipeline(Top.id, g)
    BY <1>18, <2>1, <2>2, FrameFacts
  <2>4. ~IsPub(p)
    BY <2>3 DEF IsPub, Pipeline
  <2>5. CoreInv(WithTop(stack, p), history, answer, result, executions)
    BY <1>1, <1>4, <1>18, GotoStage
  <2> HIDE DEF p
  <2>6. DeliveryInv(WithTop(stack, p), history, received)
    BY <1>1, <1>4, <1>18, <2>4, TopMoves
  <2> QED BY <1>18, <2>5, <2>6 DEF Goto, p
<1>19. ASSUME NEW ok \in BOOLEAN, Validate(ok) PROVE Kept
  <2>1. /\ stack # <<>> /\ IsPipe(Top) /\ Top.stage = "validate"
        /\ answer = [answer EXCEPT ![Top.id] = "none"]
    BY <1>6, <1>19 DEF Validate
  <2>2. UNCHANGED <<commands, executions, subscribers, issued, received, answer, result>>
    BY <1>19 DEF Validate
  <2>3. CASE ok
    <3>1. stack' = Goto("authorize") /\ UNCHANGED history
      BY <1>19, <2>3 DEF Validate
    <3>2. CoreInv(stack', history, answer, result, executions) /\ DeliveryInv(stack', history, received)
      BY <1>18, <2>1, <3>1
    <3> QED BY <1>1, <2>2, <3>1, <3>2
  <2>4. CASE ~ok
    <3>1. End("ExecutionFailed")
      BY <1>19, <2>4 DEF Validate
    <3>2. "none" \in Answers
      BY DEF Answers
    <3>3. /\ CoreInv(stack', history', [answer EXCEPT ![Top.id] = "none"], result, executions)
          /\ DeliveryInv(stack', history', received)
      BY <1>7, <2>1, <3>1, <3>2
    <3> QED BY <1>1, <2>1, <2>2, <3>3
  <2> QED BY <2>3, <2>4
<1>20. ASSUME Authorize PROVE Kept
  <2>1. /\ stack # <<>> /\ IsPipe(Top) /\ Top.stage = "authorize"
        /\ answer = [answer EXCEPT ![Top.id] = "none"]
    BY <1>6, <1>20 DEF Authorize
  <2>2. UNCHANGED <<commands, executions, subscribers, issued, received, answer, result>>
    BY <1>20 DEF Authorize
  <2>3. Blocks(Top.id) <=> Verdict(executions, Top.id) = "DENY"
    BY DEF Blocks, Decision, Verdict
  <2>4. CASE ~Blocks(Top.id)
    <3>1. stack' = Goto("execute") /\ UNCHANGED history
      BY <1>20, <2>4 DEF Authorize
    <3>2. CoreInv(stack', history, answer, result, executions) /\ DeliveryInv(stack', history, received)
      BY <1>18, <2>1, <2>3, <2>4, <3>1
    <3> QED BY <1>1, <2>2, <3>1, <3>2
  <2>5. CASE Blocks(Top.id)
    <3>1. End("ExecutionFailed")
      BY <1>20, <2>5 DEF Authorize
    <3>2. "none" \in Answers
      BY DEF Answers
    <3>3. /\ CoreInv(stack', history', [answer EXCEPT ![Top.id] = "none"], result, executions)
          /\ DeliveryInv(stack', history', received)
      BY <1>7, <2>1, <3>1, <3>2
    <3> QED BY <1>1, <2>1, <2>2, <3>3
  <2> QED BY <2>4, <2>5
<1>21. ASSUME NEW ok \in BOOLEAN, Execute(ok) PROVE Kept
  <2> DEFINE name == IF ok THEN "ExecutionCompleted" ELSE "ExecutionFailed"
             x == IF ok THEN "success" ELSE "failure"
  <2>1. /\ stack # <<>> /\ IsPipe(Top) /\ Top.stage = "execute"
        /\ Verdict(executions, Top.id) # "DENY"
    BY <1>6, <1>21 DEF Execute
  <2>2. /\ answer' = [answer EXCEPT ![Top.id] = x] /\ End(name)
        /\ UNCHANGED <<commands, executions, subscribers, issued, received, result>>
    BY <1>21 DEF Execute
  <2>3. /\ name \in {"ExecutionCompleted", "ExecutionFailed"} /\ x \in Answers
        /\ name = "ExecutionCompleted" <=> x = "success"
    BY DEF Answers
  <2> HIDE DEF name, x
  <2>4. /\ CoreInv(stack', history', [answer EXCEPT ![Top.id] = x], result, executions)
        /\ DeliveryInv(stack', history', received)
    BY <1>7, <2>1, <2>2, <2>3
  <2> QED BY <1>1, <2>2, <2>4
<1>22. ASSUME ExecuteRaises PROVE Kept
  <2>1. /\ stack # <<>> /\ IsPipe(Top) /\ Top.stage = "execute"
        /\ Verdict(executions, Top.id) # "DENY"
    BY <1>6, <1>22 DEF ExecuteRaises
  <2>2. /\ answer' = [answer EXCEPT ![Top.id] = "raised"] /\ End("ExecutionFailed")
        /\ UNCHANGED <<commands, executions, subscribers, issued, received, result>>
    BY <1>22 DEF ExecuteRaises
  <2>3. "raised" \in Answers
    BY DEF Answers
  <2>4. /\ CoreInv(stack', history', [answer EXCEPT ![Top.id] = "raised"], result, executions)
        /\ DeliveryInv(stack', history', received)
    BY <1>7, <2>1, <2>2, <2>3
  <2> QED BY <1>1, <2>2, <2>4
<1>23. ASSUME PipelineReturns PROVE Kept
  <2> DEFINE x == IF answer[Top.id] = "success" THEN "success" ELSE "failure"
  <2>1. stack # <<>> /\ IsPipe(Top) /\ Top.stage = "return" /\ Top = stack[Len(stack)]
    BY <1>4, <1>6, <1>23 DEF PipelineReturns
  <2>2. x \in Answers \ {"none"}
    BY DEF Answers
  <2>3. CoreInv(Below(stack), history, answer, [result EXCEPT ![Top.id] = x], executions)
    BY <1>1, <2>1, <2>2, PopPipeline
  <2>4. DeliveryInv(Below(stack), history, received)
    BY <1>1, <2>1, TopMoves
  <2> QED BY <1>1, <1>23, <2>3, <2>4 DEF PipelineReturns
<1>24. ASSUME ValidateRaises PROVE Kept
  <2> DEFINE b == Below(stack)
             r2 == [result EXCEPT ![Top.id] = "raised"]
  <2>1. stack # <<>> /\ IsPipe(Top) /\ Top.stage = "validate" /\ Top = stack[Len(stack)]
    BY <1>4, <1>6, <1>24 DEF ValidateRaises
  <2>2. "raised" \in Answers \ {"none"}
    BY DEF Answers
  <2>3. CoreInv(b, history, answer, r2, executions)
    BY <1>1, <2>1, <2>2, PopPipeline
  <2>4. DeliveryInv(b, history, received)
    BY <1>1, <2>1, TopMoves
  <2>5. /\ stack' = b /\ result' = r2
        /\ UNCHANGED <<commands, executions, subscribers, history, issued, received, answer>>
    BY <1>24 DEF ValidateRaises
  <2> HIDE DEF b, r2
  <2> QED BY <1>1, <2>3, <2>4, <2>5
<1>25. ASSUME UNCHANGED vars PROVE Kept
  BY <1>1, <1>25 DEF vars
<1> QED
  BY <1>8, <1>9, <1>10, <1>11, <1>12, <1>13, <1>14, <1>15, <1>17, <1>19, <1>20,
     <1>21, <1>22, <1>23, <1>24, <1>25
     DEF Next, UserCode, EventBus, Stages

LEMMA Invariance == Spec => []IInv
<1>1. Init => IInv
  BY InitIInv
<1>2. IInv /\ [Next]_vars => IInv'
  BY NextIInv
<1> QED BY <1>1, <1>2, PTL DEF Spec

-----------------------------------------------------------------------------
(* The theorems. *)

\* Every variable has its type, whatever is dispatched, raised, subscribed and unsubscribed.
THEOREM TypeCorrect == Spec => []TypeOK
<1>1. IInv => TypeOK
  <2> SUFFICES ASSUME IInv PROVE TypeOK
    OBVIOUS
  <2>1. TypeInv(stack, history, answer, result, executions)
    BY DEF IInv, CoreInv
  <2>2. DOMAIN history = 1 .. Len(history)
    BY <2>1 DEF TypeInv
  <2>3. Frames = FrameSet(Len(executions), Len(history))
    BY <2>2 DEF Frames, FrameSet, PipelineFrames, PublicationFrames, StageNames, Ids
  <2>4. received \in [Subscriptions -> Seq(DOMAIN history)]
    BY DEF IInv, DeliveryInv
  <2>5. subscribers \in [Types -> Seq(Subscriptions)] /\ issued \subseteq Subscriptions
    BY DEF IInv, SubscriptionInv
  <2>6. history \in Seq([name : Names, id : Ids, audience : SUBSET Subscriptions])
    BY <2>1 DEF TypeInv, EventSet, Ids
  <2>7. commands \subseteq Actions /\ Len(executions) <= MaxExecutions
    BY DEF IInv
  <2> QED BY <2>1, <2>3, <2>4, <2>5, <2>6, <2>7 DEF TypeOK, TypeInv, Ids, Answers
<1> QED BY <1>1, Invariance, PTL

\* What an execution's events are.
LEMMA EventNames ==
  ASSUME IInv
  PROVE  /\ \A n \in DOMAIN history : history[n].id \in Ids
         /\ \A n \in DOMAIN history : history[n].name \in Terminal <=> ~IsStart(history[n])
<1>1. CoreInv(stack, history, answer, result, executions)
  BY DEF IInv
<1>2. \A n \in DOMAIN history : history[n].id \in 1 .. Len(executions) /\ history[n].name \in Names
  BY <1>1, CoreTypes
<1> QED BY <1>2 DEF Ids, Names, Terminal, IsStart

\* Whoever was subscribed when an event was published gets it exactly once, and nobody else
\* does: publish calls each handler of the list it copied, whatever the handlers do.
THEOREM DeliveredOnceHolds == Spec => []DeliveredOnce
<1>1. IInv => DeliveredOnce
  <2> SUFFICES ASSUME IInv, NEW s \in Subscriptions, NEW n \in DOMAIN history
               PROVE  /\ s \notin history[n].audience => Times(s, n) = {}
                      /\ \A j, k \in Times(s, n) : j = k
                      /\ s \in history[n].audience /\ ~BeingPublished(n) => Times(s, n) # {}
    BY DEF DeliveredOnce
  <2>1. /\ Once(received[s])
        /\ \A m \in Elements(received[s]) : s \in history[m].audience
        /\ s \in history[n].audience /\ ~Published(stack, n) => n \in Elements(received[s])
    BY DEF IInv, DeliveryInv
  <2>2. BeingPublished(n) <=> Published(stack, n)
    BY DEF BeingPublished, Published, IsPub
  <2>3. Times(s, n) # {} <=> n \in Elements(received[s])
    BY DEF Times, Elements
  <2>4. \A j, k \in Times(s, n) : j = k
    BY <2>1 DEF Times, Once
  <2> QED BY <2>1, <2>2, <2>3, <2>4
<1> QED BY <1>1, Invariance, PTL

\* A subscriber that gets the start and the end of an execution gets them in this order.
THEOREM StartBeforeEndHolds == Spec => []StartBeforeEnd
<1>1. IInv => StartBeforeEnd
  <2> SUFFICES ASSUME IInv, NEW s \in Subscriptions, NEW id \in Ids,
                      NEW m \in Events(id, {"ExecutionStarted"}), NEW n \in Events(id, Terminal),
                      NEW j \in Times(s, m), NEW k \in Times(s, n)
               PROVE  j < k
    BY DEF StartBeforeEnd
  <2>1. /\ m \in DOMAIN history /\ n \in DOMAIN history /\ history[m].id = history[n].id
        /\ IsStart(history[m]) /\ ~IsStart(history[n])
    BY EventNames DEF Events, IsStart
  <2>2. j \in DOMAIN received[s] /\ k \in DOMAIN received[s] /\ received[s][j] = m /\ received[s][k] = n
    BY DEF Times
  <2> QED BY <2>1, <2>2 DEF IInv, DeliveryInv
<1> QED BY <1>1, Invariance, PTL

\* Executions nest: one that starts between the start and the end of another ends first.
THEOREM ExecutionsNestHolds == Spec => []ExecutionsNest
<1>1. IInv => ExecutionsNest
  <2> SUFFICES ASSUME IInv, NEW i \in Ids, NEW j \in Ids,
                      NEW s \in Events(i, {"ExecutionStarted"}), NEW t \in Events(j, {"ExecutionStarted"}),
                      NEW e \in Events(i, Terminal), s < t, t < e
               PROVE  result[j] # "none" /\ \A f \in Events(j, Terminal) : f < e
    BY DEF ExecutionsNest
  <2>1. /\ s \in DOMAIN history /\ t \in DOMAIN history /\ e \in DOMAIN history
        /\ IsStart(history[s]) /\ IsStart(history[t]) /\ ~IsStart(history[e])
        /\ history[e].id = history[s].id /\ history[t].id = j
    BY EventNames DEF Events, IsStart
  <2>2. /\ result[j] # "none"
        /\ \A f \in DOMAIN history : ~IsStart(history[f]) /\ history[f].id = j => f < e
    BY <2>1 DEF IInv, CoreInv, NestInv
  <2> QED BY <2>2, EventNames DEF Events
<1> QED BY <1>1, Invariance, PTL

\* An execution publishes one start; once it has returned it has published one end, later, and
\* one that has raised in validate() none.
THEOREM EventsPairedHolds == Spec => []EventsPaired
<1>1. IInv => EventsPaired
  <2> SUFFICES ASSUME IInv, NEW id \in Ids
               PROVE  \E n \in Events(id, {"ExecutionStarted"}) :
                        /\ Events(id, {"ExecutionStarted"}) = {n}
                        /\ result[id] \in {"success", "failure"} =>
                             \E m \in Events(id, Terminal) : m > n /\ Events(id, Terminal) = {m}
                        /\ result[id] = "raised" => Events(id, Terminal) = {}
    BY DEF EventsPaired
  <2>1. /\ HistoryInv(history, executions) /\ LedgerInv(stack, history, answer, result, executions)
        /\ Len(history) \in Nat /\ DOMAIN history = 1 .. Len(history)
    BY CoreTypes DEF IInv, CoreInv
  <2>2. PICK n \in DOMAIN history : history[n].id = id /\ IsStart(history[n])
    BY <2>1 DEF HistoryInv, Ids
  <2>3. Events(id, {"ExecutionStarted"}) = {n}
    <3>1. n \in Events(id, {"ExecutionStarted"})
      BY <2>2 DEF Events, IsStart
    <3>2. ASSUME NEW m \in Events(id, {"ExecutionStarted"}) PROVE m = n
      <4>1. m \in DOMAIN history /\ history[m].id = id /\ IsStart(history[m])
        BY DEF Events, IsStart
      <4>2. ~(m < n) /\ ~(n < m)
        <5>1. ~(id < id)
          BY DEF Ids
        <5> QED BY <2>1, <2>2, <4>1, <5>1 DEF HistoryInv
      <4> QED BY <2>1, <4>1, <4>2
    <3> QED BY <3>1, <3>2
  <2>4. Events(id, Terminal) = {m \in DOMAIN history : history[m].id = id /\ ~IsStart(history[m])}
    BY EventNames DEF Events
  <2>5. ASSUME result[id] \in {"success", "failure"}
        PROVE  \E m \in Events(id, Terminal) : m > n /\ Events(id, Terminal) = {m}
    <3>1. PICK m \in DOMAIN history : history[m].id = id /\ ~IsStart(history[m])
      BY <2>1, <2>5 DEF LedgerInv, Ended, Ids
    <3>2. m \in Events(id, Terminal)
      BY <2>4, <3>1
    <3>3. n < m
      BY <2>1, <2>2, <3>1 DEF HistoryInv
    <3>4. Events(id, Terminal) = {m}
      BY <2>1, <2>4, <3>1 DEF HistoryInv
    <3>5. m > n
      BY <2>1, <3>3
    <3> QED BY <3>2, <3>4, <3>5
  <2>6. result[id] = "raised" => Events(id, Terminal) = {}
    BY <2>1, <2>4 DEF LedgerInv, Ended, Ids
  <2>7. n \in Events(id, {"ExecutionStarted"})
    BY <2>3
  <2> QED BY <2>3, <2>5, <2>6, <2>7
<1> QED BY <1>1, Invariance, PTL

\* The events of an execution tell what its caller is told: it has completed only if its own
\* request was not denied and its own execute() succeeded, whatever it dispatched in between.
THEOREM EventsTellTheResultHolds == Spec => []EventsTellTheResult
<1>1. IInv => EventsTellTheResult
  <2> SUFFICES ASSUME IInv, NEW id \in Ids
               PROVE  /\ Events(id, {"ExecutionCompleted"}) # {} =>
                           /\ answer[id] = "success" /\ result[id] \in {"none", "success"}
                           /\ Decision(id) # "DENY"
                      /\ Events(id, {"ExecutionFailed"}) # {} =>
                           answer[id] # "success" /\ result[id] \in {"none", "failure"}
                      /\ Decision(id) = "DENY" => answer[id] = "none"
    BY DEF EventsTellTheResult
  <2>1. /\ LedgerInv(stack, history, answer, result, executions)
        /\ result \in [Ids -> Answers]
    BY DEF IInv, CoreInv, TypeInv, Ids
  <2>2. result[id] \in {"none", "success", "failure", "raised"}
    BY <2>1 DEF Answers
  <2>3. /\ result[id] = "raised" => ~Ended(history, id)
        /\ result[id] = "success" => answer[id] = "success"
        /\ result[id] = "failure" => answer[id] # "success"
        /\ Decision(id) = "DENY" => answer[id] = "none"
    BY <2>1 DEF LedgerInv, Ids, Verdict, Decision
  <2>4. ASSUME NEW n \in Events(id, {"ExecutionCompleted"})
        PROVE  answer[id] = "success" /\ Ended(history, id)
    BY <2>1 DEF LedgerInv, Events, Ended, IsStart
  <2>5. ASSUME NEW n \in Events(id, {"ExecutionFailed"})
        PROVE  answer[id] # "success" /\ Ended(history, id)
    BY <2>1 DEF LedgerInv, Events, Ended, IsStart
  <2> QED BY <2>2, <2>3, <2>4, <2>5
<1> QED BY <1>1, Invariance, PTL

=============================================================================
