----------------------- MODULE CodexClientOrderProofs -----------------------
(***************************************************************************)
(* Proofs about what becomes of a notification, for any callers, events    *)
(* and app-servers: what is on stdout was sent there and in order          *)
(* (SentInv), what a stream keeps was sent to it (KeptInv), so that each   *)
(* notification is in one place or was dropped on purpose (NotifiedInv),   *)
(* and what is put directly keeps its order as long as one thread reads    *)
(* (BufferedInv, OrderInv).                                                *)
(***************************************************************************)
EXTENDS CodexClientProofs

-----------------------------------------------------------------------------
(* How often a number is in a sequence. *)

Occurrences(n, q) == {k \in DOMAIN q : q[k] = n}

LEMMA OccurrencesFinite ==
  ASSUME NEW S, NEW q \in Seq(S), NEW n
  PROVE  /\ IsFiniteSet(Occurrences(n, q)) /\ Times(n, q) = Cardinality(Occurrences(n, q))
         /\ Times(n, q) \in Nat
<1>1. Len(q) \in Nat /\ DOMAIN q = 1 .. Len(q)
  BY LenProperties
<1>2. IsFiniteSet(1 .. Len(q))
  BY <1>1, FS_Interval
<1>3. Occurrences(n, q) \in SUBSET (1 .. Len(q))
  BY <1>1 DEF Occurrences
<1>4. IsFiniteSet(Occurrences(n, q))
  BY <1>2, <1>3, FS_Subset
<1>5. Times(n, q) = Cardinality(Occurrences(n, q))
  BY DEF Times, Occurrences
<1> QED BY <1>4, <1>5, FS_CardinalityType

LEMMA TimesNone ==
  ASSUME NEW q, NEW n, \A k \in DOMAIN q : q[k] # n
  PROVE  Times(n, q) = 0
<1>1. {k \in DOMAIN q : q[k] = n} = {}
  OBVIOUS
<1> QED BY <1>1, FS_EmptySet DEF Times

LEMMA TimesSome ==
  ASSUME NEW S, NEW q \in Seq(S), NEW n, Times(n, q) = 0
  PROVE  \A k \in DOMAIN q : q[k] # n
BY OccurrencesFinite, FS_EmptySet DEF Occurrences

LEMMA TimesAppend ==
  ASSUME NEW S, NEW q \in Seq(S), NEW x \in S, NEW n
  PROVE  Times(n, Append(q, x)) = Times(n, q) + If(x = n)
<1> DEFINE l == Len(q)
           r == Append(q, x)
<1>1. l \in Nat /\ DOMAIN q = 1 .. l
  BY LenProperties
<1>2. r \in Seq(S) /\ DOMAIN r = 1 .. l + 1 /\ r[l + 1] = x /\ \A k \in 1 .. l : r[k] = q[k]
  BY <1>1, AppendProperties
<1>3. Times(n, r) = Cardinality(Occurrences(n, r))
  BY <1>2, OccurrencesFinite
<1> HIDE DEF l, r
<1>4. CASE x = n
  <2>1. Occurrences(n, r) = Occurrences(n, q) \cup {l + 1} /\ l + 1 \notin Occurrences(n, q)
    BY <1>1, <1>2, <1>4 DEF Occurrences
  <2>2. Cardinality(Occurrences(n, r)) = Cardinality(Occurrences(n, q)) + 1
    BY <2>1, OccurrencesFinite, FS_AddElement
  <2> QED BY <1>3, <1>4, <2>2, OccurrencesFinite DEF r, If
<1>5. CASE x # n
  <2>1. Occurrences(n, r) = Occurrences(n, q)
    BY <1>1, <1>2, <1>5 DEF Occurrences
  <2> QED BY <1>3, <1>5, <2>1, OccurrencesFinite DEF r, If
<1> QED BY <1>4, <1>5

LEMMA TimesTail ==
  ASSUME NEW S, NEW q \in Seq(S), NEW n, q # <<>>
  PROVE  Times(n, Tail(q)) = Times(n, q) - If(Head(q) = n)
<1> DEFINE l == Len(q)
           t == Tail(q)
           Later == Occurrences(n, q) \ {1}
           Shift == [k \in Occurrences(n, t) |-> k + 1]
<1>1. l \in Nat /\ DOMAIN q = 1 .. l /\ l # 0 /\ Head(q) = q[1]
  BY LenProperties, EmptySeq
<1>2. t \in Seq(S) /\ DOMAIN t = 1 .. l - 1 /\ \A k \in 1 .. l - 1 : t[k] = q[k + 1]
  BY <1>1, HeadTailProperties, LenProperties
<1>3. Times(n, t) = Cardinality(Occurrences(n, t)) /\ IsFiniteSet(Occurrences(n, t))
  BY <1>2, OccurrencesFinite
<1> HIDE DEF l, t
<1>4. Shift \in [Occurrences(n, t) -> Later]
  BY <1>1, <1>2 DEF Occurrences
<1>5. \A i, j \in Occurrences(n, t) : Shift[i] = Shift[j] => i = j
  BY <1>1, <1>2 DEF Occurrences
<1>6. ASSUME NEW k \in Later
      PROVE  \E i \in Occurrences(n, t) : Shift[i] = k
  <2>1. k - 1 \in Occurrences(n, t) /\ (k - 1) + 1 = k
    BY <1>1, <1>2, <1>6 DEF Occurrences
  <2> QED BY <2>1
<1> HIDE DEF Shift, Later
<1>7. ExistsBijection(Occurrences(n, t), Later)
  <2>1. Shift \in Bijection(Occurrences(n, t), Later)
    BY <1>4, <1>5, <1>6 DEF Bijection, Injection, Surjection, IsInjective
  <2> QED BY <2>1 DEF ExistsBijection
<1>8. Times(n, t) = Cardinality(Later)
  BY <1>3, <1>7, FS_Bijection
<1>9. IsFiniteSet(Occurrences(n, q)) /\ Times(n, q) = Cardinality(Occurrences(n, q))
  BY OccurrencesFinite
<1>10. 1 \in Occurrences(n, q) <=> Head(q) = n
  BY <1>1 DEF Occurrences
<1>11. Cardinality(Later) = IF Head(q) = n THEN Times(n, q) - 1 ELSE Times(n, q)
  BY <1>9, <1>10, FS_RemoveElement DEF Later
<1>12. CASE Head(q) = n
  BY <1>8, <1>11, <1>12 DEF t, If
<1>13. CASE Head(q) # n
  <2>1. Times(n, q) \in Nat
    BY OccurrencesFinite
  <2> QED BY <1>8, <1>11, <1>13, <2>1 DEF t, If
<1> QED BY <1>12, <1>13

-----------------------------------------------------------------------------
(* Where notifications are before they are read. *)

Notice(c, n) == [kind |-> "notification", of |-> c, n |-> n]

\* What a server writes about a stream is on its own stdout, numbered in the order it was sent.
InSequence(s, q) ==
  \A k \in DOMAIN q : q[k].kind = "notification" =>
    /\ sentIn[q[k].of] = s /\ q[k].n \in 1 .. sent[q[k].of]
    /\ \A j \in 1 .. k - 1 :
         q[j].kind = "notification" /\ q[j].of = q[k].of => q[j].n < q[k].n

SentInv ==
  /\ \A c \in asked \cup started : pc[c] \notin {"idle", "write"}
  /\ \A c \in Streams : sent[c] # 0 => c \in started
  /\ \A s \in Sessions : InSequence(s, wire[s])

LEMMA InSequenceAppend ==
  ASSUME NEW q \in Seq(Lines), NEW x \in Lines, NEW s, InSequence(s, q),
         sent \in [Streams -> Numbers],
         x.kind = "notification" => sentIn[x.of] = s /\ x.n = sent[x.of] + 1
  PROVE  \A f \in [Streams -> Numbers] :
           (/\ \A c \in Streams : sent[c] <= f[c]
            /\ x.kind = "notification" => x.n <= f[x.of])
           => \A k \in DOMAIN Append(q, x) : Append(q, x)[k].kind = "notification" =>
                LET r == Append(q, x) IN
                /\ sentIn[r[k].of] = s /\ r[k].n \in 1 .. f[r[k].of]
                /\ \A j \in 1 .. k - 1 : r[j].kind = "notification" /\ r[j].of = r[k].of => r[j].n < r[k].n
<1> DEFINE l == Len(q)
           r == Append(q, x)
<1>1. l \in Nat /\ DOMAIN q = 1 .. l /\ \A k \in 1 .. l : q[k] \in Lines
  BY LenProperties
<1>2. DOMAIN r = 1 .. l + 1 /\ r[l + 1] = x /\ \A k \in 1 .. l : r[k] = q[k]
  BY <1>1, AppendProperties
<1> HIDE DEF l, r
<1> Numbers \subseteq Nat
  BY Ranges
<1> SUFFICES ASSUME NEW f \in [Streams -> Numbers], \A c \in Streams : sent[c] <= f[c],
                    x.kind = "notification" => x.n <= f[x.of],
                    NEW k \in DOMAIN r, r[k].kind = "notification"
             PROVE  /\ sentIn[r[k].of] = s /\ r[k].n \in 1 .. f[r[k].of]
                    /\ \A j \in 1 .. k - 1 :
                         r[j].kind = "notification" /\ r[j].of = r[k].of => r[j].n < r[k].n
  BY DEF r
<1>3. CASE k \in 1 .. l
  <2>a. r[k] = q[k] /\ q[k] \in Lines /\ \A j \in 1 .. k - 1 : r[j] = q[j]
    BY <1>1, <1>2, <1>3
  <2>1. q[k].of \in Streams /\ r[k] = q[k] /\ q[k].n \in Nat /\ \A j \in 1 .. k - 1 : r[j] = q[j]
    BY <2>a, LineKinds
  <2>2. sentIn[q[k].of] = s /\ q[k].n \in 1 .. sent[q[k].of]
    BY <1>1, <1>3, <2>1 DEF InSequence
  <2>b. sent[q[k].of] \in Nat /\ f[q[k].of] \in Nat /\ sent[q[k].of] <= f[q[k].of]
    BY <2>1
  <2>3. q[k].n \in 1 .. f[q[k].of]
    BY <2>1, <2>2, <2>b
  <2>4. \A j \in 1 .. k - 1 : q[j].kind = "notification" /\ q[j].of = q[k].of => q[j].n < q[k].n
    BY <1>1, <1>3, <2>1 DEF InSequence
  <2> QED BY <2>1, <2>2, <2>3, <2>4
<1>4. CASE k = l + 1
  <2>1. x.kind = "notification" /\ x.of \in Streams /\ x.n \in Nat /\ r[k] = x
    BY <1>2, <1>4, LineKinds
  <2>b. sent[x.of] \in Nat /\ f[x.of] \in Nat /\ x.n = sent[x.of] + 1
    BY <2>1
  <2>2. x.n \in 1 .. f[x.of]
    BY <2>1, <2>b
  <2>3. ASSUME NEW j \in 1 .. l, q[j].kind = "notification", q[j].of = x.of
        PROVE  q[j].n < x.n
    <3>1. q[j].n \in 1 .. sent[x.of]
      BY <1>1, <2>3 DEF InSequence
    <3> QED BY <2>b, <3>1
  <2>4. \A j \in 1 .. k - 1 : j \in 1 .. l /\ r[j] = q[j]
    BY <1>1, <1>2, <1>4
  <2> QED BY <2>1, <2>2, <2>3, <2>4
<1> QED BY <1>1, <1>2, <1>3, <1>4

LEMMA InSequenceTail ==
  ASSUME NEW q \in Seq(Lines), NEW s, InSequence(s, q), q # <<>>
  PROVE  /\ InSequence(s, Tail(q))
         /\ Head(q) \in Lines
         /\ Head(q).kind = "notification" =>
              /\ sentIn[Head(q).of] = s /\ Head(q).n \in 1 .. sent[Head(q).of]
              /\ \A k \in DOMAIN Tail(q) : Tail(q)[k].kind = "notification" /\ Tail(q)[k].of = Head(q).of
                                             => Head(q).n < Tail(q)[k].n
<1> DEFINE l == Len(q)
           t == Tail(q)
<1>1. l \in Nat /\ DOMAIN q = 1 .. l /\ l # 0 /\ Head(q) = q[1] /\ Head(q) \in Lines
  BY LenProperties, EmptySeq
<1>2. DOMAIN t = 1 .. l - 1 /\ \A k \in 1 .. l - 1 : t[k] = q[k + 1]
  BY <1>1, HeadTailProperties, LenProperties
<1> HIDE DEF l, t
<1>3. ASSUME NEW k \in DOMAIN t, t[k].kind = "notification"
      PROVE  /\ sentIn[t[k].of] = s /\ t[k].n \in 1 .. sent[t[k].of]
             /\ \A j \in 1 .. k - 1 : t[j].kind = "notification" /\ t[j].of = t[k].of => t[j].n < t[k].n
             /\ q[1].kind = "notification" /\ q[1].of = t[k].of => q[1].n < t[k].n
  <2>1. k + 1 \in DOMAIN q /\ t[k] = q[k + 1] /\ \A j \in 1 .. k - 1 : t[j] = q[j + 1] /\ j + 1 \in 1 .. (k + 1) - 1
    BY <1>1, <1>2, <1>3
  <2>2. /\ sentIn[q[k + 1].of] = s /\ q[k + 1].n \in 1 .. sent[q[k + 1].of]
        /\ \A j \in 1 .. (k + 1) - 1 :
             q[j].kind = "notification" /\ q[j].of = q[k + 1].of => q[j].n < q[k + 1].n
    BY <1>3, <2>1 DEF InSequence
  <2>3. 1 \in 1 .. (k + 1) - 1
    BY <1>2, <1>1
  <2> QED BY <2>1, <2>2, <2>3
<1>4. Head(q).kind = "notification" => sentIn[Head(q).of] = s /\ Head(q).n \in 1 .. sent[Head(q).of]
  BY <1>1 DEF InSequence
<1>5. InSequence(s, t)
  BY <1>3 DEF InSequence
<1> QED BY <1>1, <1>3, <1>4, <1>5 DEF t

LEMMA Written ==
  ASSUME TypeInv, SentInv, NEW s \in Sessions, NEW x \in Lines, Write(s, x), sentIn' = sentIn,
         sent' \in [Streams -> Numbers], \A c \in Streams : sent[c] <= sent'[c],
         x.kind = "notification" => /\ sentIn[x.of] = s /\ x.n = sent[x.of] + 1
                                    /\ x.n <= sent'[x.of]
  PROVE  \A t \in Sessions : InSequence(t, wire[t])'
<1> wire \in [Sessions -> Seq(Lines)] /\ sent \in [Streams -> Numbers] /\ Numbers \subseteq Nat
  BY Ranges DEF TypeInv, ServerType
<1> SUFFICES ASSUME NEW t \in Sessions
             PROVE  InSequence(t, wire[t])'
  OBVIOUS
<1>1. CASE t = s
  <2> DEFINE q == wire[s]
             r == Append(q, x)
  <2>1. q \in Seq(Lines) /\ InSequence(s, q) /\ wire'[t] = r
    BY <1>1 DEF SentInv, Write
  <2> HIDE DEF q
  <2>2. \A k \in DOMAIN r : r[k].kind = "notification" =>
          /\ sentIn[r[k].of] = s /\ r[k].n \in 1 .. sent'[r[k].of]
          /\ \A j \in 1 .. k - 1 : r[j].kind = "notification" /\ r[j].of = r[k].of => r[j].n < r[k].n
    BY <2>1, InSequenceAppend
  <2> HIDE DEF r
  <2> QED BY <1>1, <2>1, <2>2 DEF InSequence
<1>2. CASE t # s
  <2>1. wire'[t] = wire[t] /\ InSequence(t, wire[t]) /\ wire[t] \in Seq(Lines)
    BY <1>2 DEF SentInv, Write
  <2> SUFFICES ASSUME NEW k \in DOMAIN wire[t], wire[t][k].kind = "notification"
               PROVE  wire[t][k].n \in 1 .. sent'[wire[t][k].of]
    BY <2>1 DEF InSequence
  <2>2. wire[t][k] \in Lines
    BY <2>1
  <2>3. wire[t][k].of \in Streams /\ wire[t][k].n \in 1 .. sent[wire[t][k].of]
    BY <2>1, <2>2, LineKinds DEF InSequence
  <2>4. sent[wire[t][k].of] \in Nat /\ sent'[wire[t][k].of] \in Nat
        /\ sent[wire[t][k].of] <= sent'[wire[t][k].of]
    BY <2>3
  <2> QED BY <2>3, <2>4
<1> QED BY <1>1, <1>2

LEMMA WireKept ==
  ASSUME TypeInv, SentInv, wire' = wire, sent' = sent,
         \A c \in Streams : sent[c] # 0 => sentIn'[c] = sentIn[c]
  PROVE  \A s \in Sessions : InSequence(s, wire[s])'
<1> wire \in [Sessions -> Seq(Lines)] /\ sent \in [Streams -> Numbers] /\ Numbers \subseteq Nat
  BY Ranges DEF TypeInv, ServerType
<1> SUFFICES ASSUME NEW s \in Sessions, NEW k \in DOMAIN wire[s], wire[s][k].kind = "notification"
             PROVE  sentIn'[wire[s][k].of] = sentIn[wire[s][k].of]
  BY DEF SentInv, InSequence
<1>1. wire[s][k] \in Lines
  OBVIOUS
<1>2. wire[s][k].of \in Streams /\ wire[s][k].n \in 1 .. sent[wire[s][k].of]
  BY <1>1, LineKinds DEF SentInv, InSequence
<1> QED BY <1>2

LEMMA SentKept ==
  ASSUME TypeInv, SentInv, Next
  PROVE  SentInv'
<1> /\ wire \in [Sessions -> Seq(Lines)] /\ sent \in [Streams -> Numbers] /\ Numbers \subseteq Nat
    /\ Streams \subseteq Callers /\ pc \in [Callers -> Labels]
    /\ asked \subseteq Callers /\ started \subseteq Streams
  BY Ranges DEF TypeInv, ServerType, CallerType
<1> sent' \in [Streams -> Numbers]
  BY ServerTyped DEF ServerType
<1>d. \A c \in Streams : sent[c] \in Nat
  OBVIOUS
<1>b. sent' = sent => \A c \in Streams : sent[c] <= sent'[c]
  BY <1>d
<1>e. session \in Nat /\ session <= MaxSessions /\ alive \subseteq 1 .. session
  BY Ranges DEF TypeInv, ServerType
<1>f. \A i \in alive : i \in Sessions
  BY <1>e, Ranges
<1>g. sentIn \in [Callers -> 0 .. session]
  BY DEF TypeInv, CallerType
<1> DEFINE Asked == \A c \in asked \cup started : pc[c] \notin {"idle", "write"}
           Accepted == \A c \in Streams : sent[c] # 0 => c \in started
           Sequenced == \A s \in Sessions : InSequence(s, wire[s])
<1>0. Asked /\ Accepted /\ Sequenced
  BY DEF SentInv
<1>a. ASSUME Asked', Accepted', Sequenced'
      PROVE  SentInv'
  BY <1>a DEF SentInv
<1> HIDE DEF Sequenced
<1>1. ASSUME Start \/ Close \/ \E s \in Sessions : Crash(s)
      PROVE  SentInv'
  <2>1. UNCHANGED <<wire, sent, asked, started, pc, sentIn>>
    BY <1>1 DEF Start, Close, Crash, callers
  <2>2. Sequenced'
    BY <2>1, WireKept DEF Sequenced
  <2> QED BY <1>0, <1>a, <2>1, <2>2
<1>2. ASSUME NEW s \in Sessions, AskApproval(s)
      PROVE  SentInv'
  <2>1. UNCHANGED <<sent, asked, started, pc, sentIn>> /\ Write(s, [kind |-> "approval"])
    BY <1>2 DEF AskApproval, callers
  <2>2. [kind |-> "approval"] \in Lines
    BY DEF Lines
  <2> DEFINE x == [kind |-> "approval"]
  <2>x. x.kind # "notification" /\ x \in Lines /\ Write(s, x)
    BY <2>1, <2>2
  <2> HIDE DEF x
  <2>3. Sequenced'
    BY <1>b, <2>1, <2>x, Written DEF Sequenced
  <2> QED BY <1>0, <1>a, <2>1, <2>3
<1>3. ASSUME NEW c \in Callers, NEW kind \in Responses, Respond(c, kind)
      PROVE  SentInv'
  <2>1. UNCHANGED <<sent, pc, sentIn>> /\ Write(sentIn[c], [kind |-> kind, of |-> c])
        /\ c \in asked /\ asked' \subseteq asked /\ started \subseteq started' /\ started' \subseteq started \cup {c}
    BY <1>3 DEF Respond, callers
  <2>2. [kind |-> kind, of |-> c] \in Lines /\ [kind |-> kind, of |-> c].kind # "notification"
    BY Ranges DEF Lines
  <2>3. sentIn[c] \in Sessions
    BY <1>3, <1>f DEF Respond
  <2> DEFINE x == [kind |-> kind, of |-> c]
  <2>x. x.kind # "notification" /\ x \in Lines /\ Write(sentIn[c], x)
    BY <2>1, <2>2
  <2> HIDE DEF x
  <2>4. Sequenced'
    BY <1>b, <2>1, <2>x, <2>3, Written DEF Sequenced
  <2>5. Asked'
    BY <1>0, <2>1
  <2>6. Accepted'
    BY <1>0, <2>1
  <2> QED BY <1>a, <2>4, <2>5, <2>6
<1>4. ASSUME NEW c \in Streams, Notify(c)
      PROVE  SentInv'
  <2> DEFINE x == Notice(c, sent[c] + 1)
  <2>1. UNCHANGED <<asked, started, pc, sentIn>> /\ Write(sentIn[c], x) /\ c \in started
        /\ sent' = [sent EXCEPT ![c] = @ + 1]
    BY <1>4 DEF Notify, callers, Notice
  <2>2. sent'[c] = sent[c] + 1 /\ \A d \in Streams \ {c} : sent'[d] = sent[d]
    BY <2>1
  <2>3. sentIn[c] \in Sessions
    BY <1>4, <1>f DEF Notify
  <2>4. sent'[c] \in Numbers
    OBVIOUS
  <2>5. x \in Lines /\ x.kind = "notification" /\ x.of = c /\ x.n = sent[c] + 1
    BY <2>2, <2>4 DEF Notice, Lines
  <2>a. \A d \in Streams : sent[d] \in Nat
    OBVIOUS
  <2>6. \A d \in Streams : sent[d] <= sent'[d]
    BY <2>2, <2>a
  <2>b. x.n <= sent'[x.of]
    BY <2>2, <2>5, <2>a
  <2> HIDE DEF x
  <2>7. Sequenced'
    BY <2>1, <2>3, <2>5, <2>6, <2>b, Written DEF Sequenced
  <2> QED BY <1>0, <1>a, <2>1, <2>2, <2>7
<1>5. ASSUME NEW s \in Sessions, ReaderThread(s)
      PROVE  SentInv'
  <2>1. CASE ReadLine(s)
    <3>1. PICK msg : Took(s, msg)
      BY <2>1 DEF ReadLine
    <3> DEFINE b == reader[s].on
    <3>2. /\ UNCHANGED <<sent, asked, started, pc, sentIn>> /\ b \in Sessions /\ wire[b] # <<>>
          /\ wire' = [wire EXCEPT ![b] = Tail(@)]
      BY <3>1, TookLine DEF Took, callers, TypeInv
    <3> HIDE DEF b
    <3>3. ASSUME NEW t \in Sessions
          PROVE  InSequence(t, wire[t])'
      <4>1. InSequence(t, wire'[t])
        <5>1. CASE t = b
          BY <1>0, <3>2, <5>1, InSequenceTail DEF Sequenced
        <5>2. CASE t # b
          BY <1>0, <3>2, <5>2 DEF Sequenced
        <5> QED BY <5>1, <5>2
      <4> QED BY <3>2, <4>1 DEF InSequence
    <3>4. Sequenced'
      BY <3>3 DEF Sequenced
    <3> QED BY <1>0, <1>a, <3>2, <3>4
  <2>2. CASE ~ReadLine(s)
    <3>1. UNCHANGED <<wire, sent, asked, started, pc, sentIn>>
      BY <1>5, <2>2 DEF ReaderThread, Check, PutResponse, PutNotification, HandlerReturns, FailAll,
         Wake, server, callers
    <3>2. Sequenced'
      BY <3>1, WireKept DEF Sequenced
    <3> QED BY <1>0, <1>a, <3>1, <3>2
  <2> QED BY <2>1, <2>2
<1>6. ASSUME NEW c \in Callers, CallerStep(c)
      PROVE  SentInv'
  <2>1. UNCHANGED <<wire, sent, started>> /\ asked' \subseteq asked \cup {c}
    BY <1>6 DEF CallerStep, CreateWaiter, WriteRequest, WriteFails, GetAnswer, server
  <2>2. \A d \in Callers : pc'[d] \in {"idle", "write"} => pc[d] \in {"idle", "write"}
    BY <1>6 DEF CallerStep, CreateWaiter, WriteRequest, WriteFails, GetAnswer, Goto
  <2>3. c \in asked' \ asked => pc'[c] = "waiting"
    BY <1>6 DEF CallerStep, CreateWaiter, WriteRequest, WriteFails, GetAnswer, server, Goto
  <2>4. \A d \in Streams : sent[d] # 0 => sentIn'[d] = sentIn[d]
    <3>1. \A d \in Callers : sentIn'[d] # sentIn[d] => pc[d] = "write"
      BY <1>6, <1>g DEF CallerStep, CreateWaiter, WriteRequest, WriteFails, GetAnswer
    <3> QED BY <1>0, <3>1
  <2>5. Sequenced'
    BY <2>1, <2>4, WireKept DEF Sequenced
  <2>6. Asked'
    BY <1>0, <2>1, <2>2, <2>3
  <2>7. Accepted'
    BY <1>0, <2>1
  <2> QED BY <1>a, <2>5, <2>6, <2>7
<1>7. ASSUME NEW c \in Streams, StreamStep(c)
      PROVE  SentInv'
  <2>1. UNCHANGED <<wire, sent, asked, started, sentIn>>
    BY <1>7 DEF StreamStep, Registers, Register, Replay, LookUpLogin, GetNotification, GetFailure,
       CloseStream, server, callers
  <2>2. pc' = pc \/ \E l \in Labels \ {"idle", "write"} : pc' = [pc EXCEPT ![c] = l]
    <3>1. CASE Registers(c)
      BY <3>1 DEF Registers, Register, Goto, Labels
    <3>2. CASE ~Registers(c)
      BY <1>7, <3>2 DEF StreamStep, Replay, LookUpLogin, GetNotification, GetFailure, CloseStream, callers,
         Goto, Labels
    <3> QED BY <3>1, <3>2
  <2>3. \A d \in Callers : pc'[d] \in {"idle", "write"} => pc[d] = pc'[d]
    BY <2>2
  <2>4. Sequenced'
    BY <2>1, WireKept DEF Sequenced
  <2>5. Asked'
    BY <1>0, <2>1, <2>3
  <2>6. Accepted'
    BY <1>0, <2>1
  <2> QED BY <1>a, <2>4, <2>5, <2>6
<1> QED BY <1>1, <1>2, <1>3, <1>4, <1>5, <1>6, <1>7, Steps DEF ServerStep

-----------------------------------------------------------------------------
(* What a step does to the notifications of one stream. *)

Early(c) == pc[c] \in {"idle", "write", "waiting", "register"}
Unread(c, n) == \E s \in Sessions : \E k \in DOMAIN wire[s] : wire[s][k] = Notice(c, n)
InHand(s, c, n) ==
  /\ reader[s].hand # <<>> /\ reader[s].hand[1].kind = "item"
  /\ reader[s].hand[1].of = c /\ reader[s].hand[1].n = n

\* Whatever is on its way to a stream was sent and, but for what waits in pending, comes after
\* its registration.
Kept(c) ==
  /\ pending[c] \in Seq(1 .. sent[c]) /\ replay[c] \in Seq(1 .. sent[c])
  /\ queue[c] \in Seq(0 .. sent[c]) /\ received[c] \in Seq(1 .. sent[c])
  /\ Early(c) => replay[c] = <<>> /\ queue[c] = <<>> /\ received[c] = <<>>
  /\ \A s \in Sessions : \A n : InHand(s, c, n) =>
       n \in 1 .. sent[c] /\ reader[s].on = sentIn[c] /\ s <= sentIn[c] /\ ~Early(c)
  /\ \A s \in Sessions : \A m : <<c, m>> \in reader[s].queues => ~Early(c)
  /\ c \in TurnCallers => pc[c] \notin {"handle", "lookup"}

KeptInv ==
  /\ \A c \in Streams : Kept(c)
  /\ \A s \in Sessions : reader[s].on = 0 \/ s <= reader[s].on

SameHands(c) == \A s \in Sessions : \A n : InHand(s, c, n)' <=> InHand(s, c, n)
SameUnread(c) == \A n : Unread(c, n)' <=> Unread(c, n)
SameBuffered(c) == \A n : <<c, n>> \in buffered' <=> <<c, n>> \in buffered
\* The reader takes n, the first of them, from stdout.
FirstRead(c, n) ==
  /\ n \in 1 .. sent[c] /\ Unread(c, n)
  /\ \A m : Unread(c, m)' <=> Unread(c, m) /\ m # n
  /\ \A m : Unread(c, m)' => m \in 1 .. sent[c] /\ n < m
\* A reader s lets go of n.
LetGo(s, c, n) ==
  /\ InHand(s, c, n)
  /\ \A t \in Sessions : \A m : InHand(t, c, m)' <=> InHand(t, c, m) /\ t # s

Idles(c) ==
  /\ UNCHANGED <<pending[c], replay[c], queue[c], received[c], sent[c]>>
  /\ SameHands(c) /\ SameUnread(c) /\ SameBuffered(c)
Sends(c) ==
  /\ UNCHANGED <<pending[c], replay[c], queue[c], received[c]>>
  /\ sent'[c] = sent[c] + 1
  /\ \A n : Unread(c, n)' <=> Unread(c, n) \/ n = sent[c] + 1
  /\ SameHands(c) /\ SameBuffered(c)
TakesUp(c) ==
  /\ UNCHANGED <<pending[c], replay[c], queue[c], received[c], sent[c]>>
  /\ SameBuffered(c) /\ ~Early(c)
  /\ \E s \in Sessions : \E n \in 1 .. sent[c] :
       /\ FirstRead(c, n)
       /\ \A m : ~InHand(s, c, m)
       /\ \A t \in Sessions : \A m : InHand(t, c, m)' <=> InHand(t, c, m) \/ (t = s /\ m = n)
       /\ reader'[s].on = sentIn[c] /\ s <= sentIn[c]
Buffers(c) ==
  /\ UNCHANGED <<replay[c], queue[c], received[c], sent[c]>>
  /\ SameHands(c)
  /\ \E n \in 1 .. sent[c] :
       /\ FirstRead(c, n)
       /\ pending'[c] = Append(pending[c], n)
       /\ \A m : <<c, m>> \in buffered' <=> <<c, m>> \in buffered \/ m = n
Forgets(c) ==
  /\ UNCHANGED <<replay[c], queue[c], received[c], sent[c]>>
  /\ pending'[c] = <<>> /\ c \in dropped'
  /\ SameHands(c) /\ SameBuffered(c)
  /\ \E n \in 1 .. sent[c] : FirstRead(c, n)
Delivers(c) ==
  /\ UNCHANGED <<pending[c], replay[c], received[c], sent[c]>>
  /\ SameUnread(c) /\ SameBuffered(c)
  /\ \E s \in Sessions : \E n \in 1 .. sent[c] :
       LetGo(s, c, n) /\ queue'[c] = Append(queue[c], n)
Discards(c) ==
  /\ UNCHANGED <<pending[c], replay[c], queue[c], received[c], sent[c]>>
  /\ SameUnread(c) /\ SameBuffered(c) /\ c \in dropped'
  /\ \E s \in Sessions : \E n \in 1 .. sent[c] : LetGo(s, c, n)
Loses(c) ==
  /\ UNCHANGED <<replay[c], queue[c], received[c], sent[c]>>
  /\ SameHands(c) /\ SameUnread(c) /\ SameBuffered(c)
  /\ pending'[c] = <<>> /\ c \in dropped'
Hears(c) ==
  /\ UNCHANGED <<pending[c], replay[c], received[c], sent[c]>>
  /\ SameHands(c) /\ SameUnread(c) /\ SameBuffered(c)
  /\ queue'[c] = Append(queue[c], Failure) /\ ~Early(c)
Begins(c) ==
  /\ UNCHANGED <<received[c], sent[c]>>
  /\ SameHands(c) /\ SameUnread(c) /\ SameBuffered(c)
  /\ replay[c] = <<>> /\ replay'[c] = pending[c]
  /\ pending'[c] = <<>> /\ queue'[c] = <<>>
  /\ queue[c] # <<>> => c \in dropped'
  /\ c \in TurnCallers => Early(c)
  /\ ~Early(c)'
Replays(c) ==
  /\ UNCHANGED <<pending[c], received[c], sent[c]>>
  /\ SameHands(c) /\ SameUnread(c) /\ SameBuffered(c)
  /\ replay[c] # <<>>
  /\ queue'[c] = Append(queue[c], Head(replay[c])) /\ replay'[c] = Tail(replay[c])
Reads(c) ==
  /\ UNCHANGED <<pending[c], replay[c], sent[c]>>
  /\ SameHands(c) /\ SameUnread(c) /\ SameBuffered(c)
  /\ queue[c] # <<>> /\ queue'[c] = Tail(queue[c])
  /\ received'[c] = IF Head(queue[c]) = Failure THEN received[c] ELSE Append(received[c], Head(queue[c]))

Move(c) ==
  \/ Idles(c) \/ Sends(c) \/ TakesUp(c) \/ Buffers(c) \/ Forgets(c) \/ Delivers(c) \/ Discards(c)
  \/ Loses(c) \/ Hears(c) \/ Begins(c) \/ Replays(c) \/ Reads(c)

LEMMA UnreadSent ==
  ASSUME SentInv, NEW c, NEW n, NEW s \in Sessions, NEW k \in DOMAIN wire[s], wire[s][k] = Notice(c, n)
  PROVE  sentIn[c] = s /\ n \in 1 .. sent[c]
BY DEF SentInv, InSequence, Notice

LEMMA UnreadKept ==
  ASSUME wire' = wire
  PROVE  \A c : SameUnread(c)
BY DEF SameUnread, Unread

\* What taking a line changes.
LEMMA LineTaken ==
  ASSUME TypeInv, SentInv, SentInv', NEW s \in Sessions, NEW msg, Took(s, msg)
  PROVE  /\ msg.kind = "notification" =>
              sentIn[msg.of] = reader[s].on /\ msg.n \in 1 .. sent[msg.of] /\ FirstRead(msg.of, msg.n)
         /\ \A c : msg.kind # "notification" \/ msg.of # c => SameUnread(c)
<1> DEFINE b == reader[s].on
           q == wire[b]
           l == Len(q)
           t == Tail(q)
<1>1. /\ b \in Sessions /\ q \in Seq(Lines) /\ q # <<>> /\ msg = Head(q) /\ InSequence(b, q)
      /\ wire' = [wire EXCEPT ![b] = t] /\ sent' = sent /\ sentIn' = sentIn
  BY TookLine DEF TypeInv, ServerType, Took, SentInv, callers
<1>2. l \in Nat /\ DOMAIN q = 1 .. l /\ l # 0 /\ msg = q[1] /\ msg \in Lines
  BY <1>1, LenProperties, EmptySeq
<1>3. DOMAIN t = 1 .. l - 1 /\ \A k \in 1 .. l - 1 : t[k] = q[k + 1]
  BY <1>1, <1>2, HeadTailProperties, LenProperties
<1>4. wire \in [Sessions -> Seq(Lines)] /\ wire'[b] = t /\ \A a \in Sessions \ {b} : wire'[a] = wire[a]
  BY <1>1 DEF TypeInv, ServerType
<1>a. msg.kind = "notification" =>
        /\ sentIn[msg.of] = b /\ msg.n \in 1 .. sent[msg.of]
        /\ \A k \in DOMAIN t : t[k].kind = "notification" /\ t[k].of = msg.of => msg.n < t[k].n
  BY <1>1, InSequenceTail
<1> HIDE DEF b, q, l, t
<1>b. q = wire[b]
  BY DEF q
<1>5. ASSUME NEW c, NEW n, Unread(c, n)'
      PROVE  Unread(c, n)
  <2>1. PICK a \in Sessions : \E k \in DOMAIN wire'[a] : wire'[a][k] = Notice(c, n)
    BY <1>5 DEF Unread, Notice
  <2>2. PICK k \in DOMAIN wire'[a] : wire'[a][k] = Notice(c, n)
    BY <2>1
  <2>3. CASE a = b
    <3>1. k + 1 \in DOMAIN wire[b] /\ wire[b][k + 1] = Notice(c, n)
      BY <1>b, <1>2, <1>3, <1>4, <2>2, <2>3
    <3> QED BY <3>1, <1>1 DEF Unread
  <2>4. CASE a # b
    BY <1>4, <2>2, <2>4 DEF Unread
  <2> QED BY <2>3, <2>4
<1>6. ASSUME NEW c, NEW n, Unread(c, n), msg # Notice(c, n)
      PROVE  Unread(c, n)'
  <2>1. PICK a \in Sessions : \E k \in DOMAIN wire[a] : wire[a][k] = Notice(c, n)
    BY <1>6 DEF Unread
  <2>2. PICK k \in DOMAIN wire[a] : wire[a][k] = Notice(c, n)
    BY <2>1
  <2>3. CASE a = b
    <3>1. k \in 1 .. l /\ k # 1 /\ q[k] = Notice(c, n)
      BY <1>b, <1>2, <1>6, <2>2, <2>3
    <3>2. k - 1 \in DOMAIN t /\ (k - 1) + 1 = k
      BY <1>2, <1>3, <3>1
    <3>3. k - 1 \in DOMAIN wire'[b] /\ wire'[b][k - 1] = Notice(c, n)
      BY <1>3, <1>4, <3>1, <3>2
    <3> QED BY <3>3, <1>1 DEF Unread, Notice
  <2>4. CASE a # b
    BY <1>4, <2>2, <2>4 DEF Unread, Notice
  <2> QED BY <2>3, <2>4
<1>7. ASSUME msg.kind = "notification"
      PROVE  FirstRead(msg.of, msg.n)
  <2> DEFINE c == msg.of
             n == msg.n
  <2>1. msg = Notice(c, n)
    BY <1>2, <1>7, LineKinds DEF Notice, Notices
  <2>2. Unread(c, n)
    BY <1>1, <1>b, <1>2, <2>1 DEF Unread
  <2>3. ASSUME NEW m, Unread(c, m)'
        PROVE  m \in 1 .. sent[c] /\ n < m
    <3>1. PICK a \in Sessions : \E k \in DOMAIN wire'[a] : wire'[a][k] = Notice(c, m)
      BY <2>3 DEF Unread, Notice
    <3>2. PICK k \in DOMAIN wire'[a] : wire'[a][k] = Notice(c, m)
      BY <3>1
    <3>3. sentIn[c] = a /\ m \in 1 .. sent[c]
      BY <1>1, <3>2 DEF SentInv, InSequence, Notice
    <3>4. a = b
      BY <1>a, <1>7, <3>3
    <3>5. t[k].kind = "notification" /\ t[k].of = c /\ t[k].n = m /\ k \in DOMAIN t
      BY <1>4, <3>2, <3>4 DEF Notice
    <3> QED BY <1>a, <1>7, <3>3, <3>5
  <2>4. n \in 1 .. sent[c] /\ ~(n < n)
    BY <1>a, <1>7
  <2>5. \A m : msg = Notice(c, m) => m = n
    BY DEF Notice
  <2> HIDE DEF c, n
  <2>6. FirstRead(c, n)
    BY <1>5, <1>6, <2>2, <2>3, <2>4, <2>5 DEF FirstRead
  <2> QED BY <2>6 DEF c, n
<1>8. ASSUME NEW c, msg.kind # "notification" \/ msg.of # c
      PROVE  SameUnread(c)
  <2>1. \A n : msg # Notice(c, n)
    BY <1>8 DEF Notice
  <2> QED BY <1>5, <1>6, <2>1 DEF SameUnread
<1> QED BY <1>a, <1>7, <1>8 DEF b

\* The hands of the readers a step leaves alone, and of the one it moves.
LEMMA HandsElsewhere ==
  ASSUME TypeInv, NEW s \in Sessions, reader' = [reader EXCEPT ![s] = reader'[s]]
  PROVE  \A t \in Sessions \ {s} : \A c, n : InHand(t, c, n)' <=> InHand(t, c, n)
BY DEF InHand, TypeInv, ReaderType

LEMMA HandsSame ==
  ASSUME TypeInv, NEW s \in Sessions, reader' = [reader EXCEPT ![s] = reader'[s]],
         reader'[s].hand = reader[s].hand
  PROVE  \A c : SameHands(c)
BY DEF SameHands, InHand, TypeInv, ReaderType

LEMMA HandHere ==
  ASSUME TypeInv, NEW s \in Sessions
  PROVE  /\ \A l : At(s, l) => reader'[s].hand = reader[s].hand
         /\ reader'[s] = [reader[s] EXCEPT !.at = "blocked", !.on = session]
              => reader'[s].hand = reader[s].hand
         /\ Snapshots(s) => reader'[s].hand = reader[s].hand
         /\ Ends(s) => reader'[s].hand = reader[s].hand
         /\ Empties(s) => reader'[s].hand = <<>>
         /\ \A h : Takes(s, h) => reader'[s].hand = <<h>>
         /\ reader[s].at \notin {"put", "waking", "exited"} => reader[s].hand = <<>>
<1> reader[s] \in Readers /\ HandRight(reader[s])
  BY DEF TypeInv, ReaderType
<1>1. /\ \A l : At(s, l) => reader'[s].hand = reader[s].hand
      /\ reader'[s] = [reader[s] EXCEPT !.at = "blocked", !.on = session]
           => reader'[s].hand = reader[s].hand
      /\ Snapshots(s) => reader'[s].hand = reader[s].hand
  BY DEF At, Snapshots, Readers
<1>2. Ends(s) => reader'[s].hand = reader[s].hand
  BY DEF Ends, Readers
<1>3. Empties(s) => reader'[s].hand = <<>>
  BY DEF Empties, Readers
<1>4. \A h : Takes(s, h) => reader'[s].hand = <<h>>
  BY DEF Takes, Readers
<1>5. reader[s].at \notin {"put", "waking", "exited"} => reader[s].hand = <<>>
  BY DEF HandRight
<1> QED BY <1>1, <1>2, <1>3, <1>4, <1>5

LEMMA MovesByReader ==
  ASSUME TypeInv, SentInv, SentInv', KeptInv, NEW s \in Sessions, ReaderThread(s), NEW c \in Streams
  PROVE  Move(c)
<1> /\ ServerType /\ ReaderType /\ RouterType /\ CallerType /\ Numbers \subseteq Nat
    /\ reader \in [Sessions -> Readers] /\ Sessions \subseteq Nat
  BY Ranges DEF TypeInv, ReaderType
<1> /\ pending \in [Streams -> Seq(Numbers)] /\ queue \in [Streams -> Seq(Numbers)]
  BY DEF RouterType
<1>k. Kept(c)
  BY DEF KeptInv
<1>u. received' = received /\ sent' = sent /\ sentIn' = sentIn /\ replay' = replay
  <2>1. CASE ReadLine(s)
    BY <2>1 DEF ReadLine, Took, callers, RouteResponse, RouteToQueue, RouteToPending, ForgetTurn, Handle, router
  <2>2. CASE ~ReadLine(s)
    BY <2>2 DEF ReaderThread, Check, PutResponse, PutNotification, HandlerReturns, FailAll, Wake,
       callers, router, server
  <2> QED BY <2>1, <2>2
<1>1. CASE ReadLine(s)
  <2>1. PICK msg : /\ Took(s, msg)
                   /\ \/ RouteResponse(s, msg) \/ RouteToQueue(s, msg) \/ RouteToPending(s, msg)
                      \/ ForgetTurn(s, msg) \/ Handle(s, msg)
    BY <1>1 DEF ReadLine
  <2>2. msg \in Lines /\ reader[s].on \in Sessions /\ reader[s].at = "blocked" /\ reader[s].hand = <<>>
    BY <2>1, TookLine, HandHere DEF Took
  <2>3. /\ msg.kind = "notification" =>
             sentIn[msg.of] = reader[s].on /\ msg.n \in 1 .. sent[msg.of] /\ FirstRead(msg.of, msg.n)
        /\ msg.kind # "notification" \/ msg.of # c => SameUnread(c)
    BY <2>1, LineTaken
  <2>4. \A m : ~InHand(s, c, m)
    BY <2>2 DEF InHand
  <2>5. CASE RouteResponse(s, msg) \/ Handle(s, msg)
    <3>1. reader' = [reader EXCEPT ![s] = reader'[s]] /\ msg.kind # "notification"
          /\ UNCHANGED <<pending, queue, buffered>>
      BY <2>2, <2>5, LineMoves, Ranges DEF RouteResponse, Handle, router
    <3>2. \/ reader'[s].hand = <<>>
          \/ reader'[s].hand = <<msg>> /\ msg.kind # "item"
      <4>1. CASE RouteResponse(s, msg)
        BY <2>2, <4>1, LineMoves, LineKinds, HandHere DEF RouteResponse
      <4>2. CASE Handle(s, msg)
        BY <2>2, <4>2, LineMoves, HandHere
      <4> QED BY <2>5, <4>1, <4>2
    <3>3. \A m : ~InHand(s, c, m)'
      BY <3>2 DEF InHand
    <3>4. SameHands(c)
      BY <2>4, <3>1, <3>3, HandsElsewhere DEF SameHands
    <3>5. Idles(c)
      BY <1>u, <2>3, <3>1, <3>4 DEF Idles, SameBuffered
    <3> QED BY <3>5 DEF Move
  <2>6. CASE RouteToQueue(s, msg)
    <3>1. /\ reader' = [reader EXCEPT ![s] = reader'[s]] /\ msg.kind = "notification"
          /\ UNCHANGED <<pending, queue, buffered>> /\ msg.of \in registered
          /\ reader'[s].hand = <<Item(msg)>>
      BY <2>2, <2>6, LineMoves, HandHere DEF RouteToQueue, router
    <3>2. \A m : InHand(s, c, m)' <=> msg.of = c /\ msg.n = m
      BY <3>1 DEF InHand, Item
    <3>3. CASE msg.of # c
      <4>1. SameHands(c)
        BY <2>4, <3>1, <3>2, <3>3, HandsElsewhere DEF SameHands
      <4>2. Idles(c)
        BY <1>u, <2>3, <3>1, <3>3, <4>1 DEF Idles, SameBuffered
      <4> QED BY <4>2 DEF Move
    <3>4. CASE msg.of = c
      <4>1. \A t \in Sessions : \A m : InHand(t, c, m)' <=> InHand(t, c, m) \/ (t = s /\ m = msg.n)
        BY <2>4, <3>1, <3>2, <3>4, HandsElsewhere
      <4>a. Takes(s, Item(msg)) /\ reader[s] \in Readers
        BY <2>2, <2>6, LineMoves
      <4>2. reader'[s].on = reader[s].on
        BY <4>a DEF Takes, Readers
      <4>3. s <= sentIn[c] /\ reader'[s].on = sentIn[c]
        BY <2>2, <2>3, <3>1, <3>4, <4>2, Ranges DEF KeptInv
      <4>4. ~Early(c)
        BY <3>1, <3>4 DEF Early, RouterType
      <4>5. TakesUp(c)
        BY <1>u, <2>3, <2>4, <3>1, <3>4, <4>1, <4>3, <4>4 DEF TakesUp, SameBuffered
      <4> QED BY <4>5 DEF Move
    <3> QED BY <3>3, <3>4
  <2>7. CASE RouteToPending(s, msg)
    <3>1. /\ reader' = [reader EXCEPT ![s] = reader'[s]] /\ reader'[s].hand = reader[s].hand
          /\ msg.kind = "notification" /\ queue' = queue
          /\ pending' = [pending EXCEPT ![msg.of] = Append(@, msg.n)]
          /\ buffered' = buffered \cup {<<msg.of, msg.n>>}
      BY <2>2, <2>7, LineMoves, HandHere DEF RouteToPending
    <3>2. SameHands(c)
      BY <3>1, HandsSame
    <3>3. CASE msg.of # c
      <4>1. pending'[c] = pending[c] /\ SameBuffered(c)
        BY <3>1, <3>3 DEF SameBuffered
      <4>2. Idles(c)
        BY <1>u, <2>3, <3>1, <3>2, <3>3, <4>1 DEF Idles
      <4> QED BY <4>2 DEF Move
    <3>4. CASE msg.of = c
      <4>1. pending'[c] = Append(pending[c], msg.n)
        BY <3>1, <3>4
      <4>2. \A m : <<c, m>> \in buffered' <=> <<c, m>> \in buffered \/ m = msg.n
        BY <3>1, <3>4
      <4>3. Buffers(c)
        BY <1>u, <2>3, <3>1, <3>2, <3>4, <4>1, <4>2 DEF Buffers
      <4> QED BY <4>3 DEF Move
    <3> QED BY <3>3, <3>4
  <2>8. CASE ForgetTurn(s, msg)
    <3>1. /\ reader' = [reader EXCEPT ![s] = reader'[s]] /\ reader'[s].hand = reader[s].hand
          /\ msg.kind = "notification" /\ queue' = queue /\ buffered' = buffered
          /\ pending' = [pending EXCEPT ![msg.of] = <<>>] /\ dropped' = dropped \cup {msg.of}
      BY <2>2, <2>8, LineMoves, HandHere DEF ForgetTurn
    <3>2. SameHands(c) /\ SameBuffered(c)
      BY <3>1, HandsSame DEF SameBuffered
    <3>3. CASE msg.of # c
      <4>1. pending'[c] = pending[c]
        BY <3>1, <3>3
      <4>2. Idles(c)
        BY <1>u, <2>3, <3>1, <3>2, <3>3, <4>1 DEF Idles
      <4> QED BY <4>2 DEF Move
    <3>4. CASE msg.of = c
      <4>1. pending'[c] = <<>> /\ c \in dropped'
        BY <3>1, <3>4
      <4>3. Forgets(c)
        BY <1>u, <2>3, <3>1, <3>2, <3>4, <4>1 DEF Forgets
      <4> QED BY <4>3 DEF Move
    <3> QED BY <3>3, <3>4
  <2> QED BY <2>1, <2>5, <2>6, <2>7, <2>8
<1>2. CASE ~ReadLine(s)
  <2>1. wire' = wire /\ buffered' = buffered
    BY <1>2 DEF ReaderThread, Check, PutResponse, PutNotification, HandlerReturns, FailAll, Wake, server
  <2>2. SameUnread(c) /\ SameBuffered(c)
    BY <2>1, UnreadKept DEF SameBuffered
  <2>3. CASE Check(s) \/ HandlerReturns(s)
    <3>1. pending' = pending /\ queue' = queue
      BY <2>3 DEF Check, HandlerReturns, router
    <3>2. SameHands(c)
      BY <2>3, ReaderMoves, HandHere, HandsSame
    <3>3. Idles(c)
      BY <1>u, <2>2, <3>1, <3>2 DEF Idles
    <3> QED BY <3>3 DEF Move
  <2>4. CASE PutResponse(s)
    <3>1. pending' = pending /\ queue' = queue /\ reader[s].hand[1].kind # "item"
      BY <2>4 DEF PutResponse
    <3>2. reader' = [reader EXCEPT ![s] = reader'[s]] /\ reader'[s].hand = <<>>
      BY <2>4, ReaderMoves, HandHere
    <3>3. SameHands(c)
      BY <3>1, <3>2, HandsElsewhere DEF SameHands, InHand
    <3>4. Idles(c)
      BY <1>u, <2>2, <3>1, <3>3 DEF Idles
    <3> QED BY <3>4 DEF Move
  <2>5. CASE PutNotification(s)
    <3> DEFINE msg == reader[s].hand[1]
    <3>1. /\ reader[s].at = "put" /\ msg.kind = "item" /\ pending' = pending
          /\ IF msg.to = made[msg.of]
             THEN queue' = [queue EXCEPT ![msg.of] = Append(@, msg.n)]
             ELSE dropped' = dropped \cup {msg.of} /\ queue' = queue
      BY <2>5 DEF PutNotification
    <3>a. msg \in Replies \cup Items
      BY <3>1, Handed
    <3>b. reader[s].hand # <<>>
      BY <3>1 DEF ReaderType, HandRight
    <3>2. msg \in Items /\ msg.of \in Streams /\ reader[s].hand # <<>>
      BY <3>1, <3>a, <3>b, HandKinds
    <3>3. reader' = [reader EXCEPT ![s] = reader'[s]] /\ reader'[s].hand = <<>>
      BY <2>5, ReaderMoves, HandHere
    <3>4. \A m : InHand(s, c, m) <=> msg.of = c /\ msg.n = m
      BY <3>1, <3>2 DEF InHand
    <3>5. \A m : ~InHand(s, c, m)'
      BY <3>3 DEF InHand
    <3> HIDE DEF msg
    <3>6. CASE msg.of # c
      <4>1. SameHands(c)
        BY <3>3, <3>4, <3>5, <3>6, HandsElsewhere DEF SameHands
      <4>2. queue'[c] = queue[c]
        BY <3>1, <3>6
      <4>3. Idles(c)
        BY <1>u, <2>2, <3>1, <4>1, <4>2 DEF Idles
      <4> QED BY <4>3 DEF Move
    <3>7. CASE msg.of = c
      <4>1. InHand(s, c, msg.n)
        BY <3>4, <3>7
      <4>2. LetGo(s, c, msg.n)
        BY <3>3, <3>5, <4>1, HandsElsewhere DEF LetGo
      <4>3. msg.n \in 1 .. sent[c]
        BY <1>k, <4>1 DEF Kept
      <4>4. CASE msg.to = made[msg.of]
        <5>1. queue'[c] = Append(queue[c], msg.n)
          BY <3>1, <3>7, <4>4
        <5>2. Delivers(c)
          BY <1>u, <2>2, <3>1, <4>2, <4>3, <5>1 DEF Delivers
        <5> QED BY <5>2 DEF Move
      <4>5. CASE msg.to # made[msg.of]
        <5>1. Discards(c)
          BY <1>u, <2>2, <3>1, <3>7, <4>2, <4>3, <4>5 DEF Discards
        <5> QED BY <5>1 DEF Move
      <4> QED BY <4>4, <4>5
    <3> QED BY <3>6, <3>7
  <2>6. CASE FailAll(s)
    <3>1. queue' = queue /\ pending' = [d \in Streams |-> <<>>]
          /\ dropped' = dropped \cup {d \in Streams : pending[d] # <<>>}
      BY <2>6 DEF FailAll
    <3>2. SameHands(c)
      BY <2>6, ReaderMoves, HandHere, HandsSame
    <3>3. CASE pending[c] = <<>>
      <4>1. Idles(c)
        BY <1>u, <2>2, <3>1, <3>2, <3>3 DEF Idles
      <4> QED BY <4>1 DEF Move
    <3>4. CASE pending[c] # <<>>
      <4>1. Loses(c)
        BY <1>u, <2>2, <3>1, <3>2, <3>4 DEF Loses
      <4> QED BY <4>1 DEF Move
    <3> QED BY <3>3, <3>4
  <2>7. CASE Wake(s)
    <3>1. /\ pending' = pending
          /\ queue'[c] = IF <<c, made[c]>> \in reader[s].queues THEN Append(queue[c], Failure) ELSE queue[c]
      BY <2>7 DEF Wake
    <3>2. SameHands(c)
      BY <2>7, ReaderMoves, HandHere, HandsSame DEF Wake
    <3>3. CASE <<c, made[c]>> \in reader[s].queues
      <4>1. ~Early(c)
        BY <1>k, <3>3 DEF Kept
      <4>2. Hears(c)
        BY <1>u, <2>2, <3>1, <3>2, <3>3, <4>1 DEF Hears
      <4> QED BY <4>2 DEF Move
    <3>4. CASE <<c, made[c]>> \notin reader[s].queues
      <4>1. Idles(c)
        BY <1>u, <2>2, <3>1, <3>2, <3>4 DEF Idles
      <4> QED BY <4>1 DEF Move
    <3> QED BY <3>3, <3>4
  <2> QED BY <1>2, <2>3, <2>4, <2>5, <2>6, <2>7 DEF ReaderThread
<1> QED BY <1>1, <1>2

LEMMA UnreadWritten ==
  ASSUME TypeInv, NEW s \in Sessions, NEW x \in Lines, Write(s, x)
  PROVE  \A c, n : Unread(c, n)' <=> Unread(c, n) \/ x = Notice(c, n)
<1> DEFINE q == wire[s]
           l == Len(q)
           r == Append(q, x)
<1>1. q \in Seq(Lines) /\ l \in Nat /\ DOMAIN q = 1 .. l
  BY LenProperties DEF TypeInv, ServerType
<1>2. DOMAIN r = 1 .. l + 1 /\ r[l + 1] = x /\ \A k \in 1 .. l : r[k] = q[k]
  BY <1>1, AppendProperties
<1>3. wire'[s] = r /\ \A a \in Sessions \ {s} : wire'[a] = wire[a]
  BY DEF Write, TypeInv, ServerType
<1>4. q = wire[s]
  OBVIOUS
<1> HIDE DEF q, l, r
<1> SUFFICES ASSUME NEW c, NEW n
             PROVE  Unread(c, n)' <=> Unread(c, n) \/ x = Notice(c, n)
  OBVIOUS
<1>5. ASSUME Unread(c, n)'
      PROVE  Unread(c, n) \/ x = Notice(c, n)
  <2>1. PICK a \in Sessions : \E k \in DOMAIN wire'[a] : wire'[a][k] = Notice(c, n)
    BY <1>5 DEF Unread, Notice
  <2>2. PICK k \in DOMAIN wire'[a] : wire'[a][k] = Notice(c, n)
    BY <2>1
  <2>3. CASE a = s
    <3>1. k = l + 1 \/ (k \in DOMAIN wire[s] /\ wire[s][k] = Notice(c, n))
      BY <1>1, <1>2, <1>3, <1>4, <2>2, <2>3
    <3> QED BY <1>2, <1>3, <2>2, <2>3, <3>1 DEF Unread
  <2>4. CASE a # s
    BY <1>3, <2>2, <2>4 DEF Unread
  <2> QED BY <2>3, <2>4
<1>6. ASSUME Unread(c, n)
      PROVE  Unread(c, n)'
  <2>1. PICK a \in Sessions : \E k \in DOMAIN wire[a] : wire[a][k] = Notice(c, n)
    BY <1>6 DEF Unread
  <2>2. PICK k \in DOMAIN wire[a] : wire[a][k] = Notice(c, n)
    BY <2>1
  <2>3. k \in DOMAIN wire'[a] /\ wire'[a][k] = Notice(c, n)
    BY <1>1, <1>2, <1>3, <1>4, <2>2
  <2> QED BY <2>3 DEF Unread, Notice
<1>7. ASSUME x = Notice(c, n)
      PROVE  Unread(c, n)'
  <2>1. l + 1 \in DOMAIN wire'[s] /\ wire'[s][l + 1] = Notice(c, n)
    BY <1>1, <1>2, <1>3, <1>7
  <2> QED BY <2>1 DEF Unread, Notice
<1> QED BY <1>5, <1>6, <1>7

LEMMA MovesByServer ==
  ASSUME TypeInv, Start \/ Close \/ ServerStep, NEW c \in Streams
  PROVE  Move(c)
<1> sent \in [Streams -> Numbers] /\ reader \in [Sessions -> Readers]
  BY DEF TypeInv, ServerType, ReaderType
<1>0. UNCHANGED <<pending, replay, queue, received, buffered>>
  BY DEF Start, Close, ServerStep, Respond, Notify, AskApproval, Crash, router, callers
<1>a. SameBuffered(c)
  BY <1>0 DEF SameBuffered
<1>b. SameHands(c)
  <2>1. CASE Start
    <3>1. \A s \in Sessions : reader'[s].hand = reader[s].hand
      BY <2>1 DEF Start, Readers
    <3> QED BY <3>1 DEF SameHands, InHand
  <2>2. CASE ~Start
    <3>1. reader' = reader
      BY <2>2 DEF Close, ServerStep, Respond, Notify, AskApproval, Crash
    <3> QED BY <3>1 DEF SameHands, InHand
  <2> QED BY <2>1, <2>2
<1>c. ASSUME sent'[c] = sent[c], SameUnread(c)
      PROVE  Move(c)
  BY <1>0, <1>a, <1>b, <1>c DEF Move, Idles
<1>e. session \in Nat /\ session <= MaxSessions /\ alive \subseteq 1 .. session
  BY Ranges DEF TypeInv, ServerType
<1>f. \A i \in alive : i \in Sessions
  BY <1>e, Ranges
<1>1. CASE Start \/ Close \/ \E s \in Sessions : Crash(s)
  <2>1. wire' = wire /\ sent' = sent
    BY <1>1 DEF Start, Close, Crash
  <2> QED BY <2>1, <1>c, UnreadKept
<1>2. ASSUME NEW s \in Sessions, NEW x \in Lines, Write(s, x), sent' = sent, x.kind # "notification"
      PROVE  Move(c)
  <2>1. \A n : x # Notice(c, n)
    BY <1>2 DEF Notice
  <2>2. SameUnread(c)
    BY <1>2, <2>1, UnreadWritten DEF SameUnread
  <2> QED BY <1>2, <1>c, <2>2
<1>3. ASSUME NEW s \in Sessions, AskApproval(s)
      PROVE  Move(c)
  <2> DEFINE x == [kind |-> "approval"]
  <2>1. x \in Lines /\ x.kind # "notification" /\ Write(s, x) /\ sent' = sent
    BY <1>3 DEF AskApproval, Lines
  <2> HIDE DEF x
  <2> QED BY <1>2, <2>1
<1>4. ASSUME NEW d \in Callers, NEW kind \in Responses, Respond(d, kind)
      PROVE  Move(c)
  <2> DEFINE x == [kind |-> kind, of |-> d]
  <2>1. x \in Lines /\ x.kind # "notification" /\ Write(sentIn[d], x) /\ sent' = sent /\ sentIn[d] \in Sessions
    BY <1>4, <1>f, Ranges DEF Respond, Lines
  <2> HIDE DEF x
  <2> QED BY <1>2, <2>1
<1>5. ASSUME NEW d \in Streams, Notify(d)
      PROVE  Move(c)
  <2> DEFINE x == Notice(d, sent[d] + 1)
  <2>1. Write(sentIn[d], x) /\ sent' = [sent EXCEPT ![d] = @ + 1] /\ sentIn[d] \in Sessions
    BY <1>5, <1>f DEF Notify, Notice
  <2>2. sent'[d] \in Numbers /\ sent'[d] = sent[d] + 1
    BY <1>5, <2>1, ServerTyped, Ranges DEF ServerType, Next, Server
  <2>3. x \in Lines
    BY <2>2 DEF Notice, Lines
  <2>4. \A n : x = Notice(c, n) <=> c = d /\ n = sent[d] + 1
    BY DEF Notice
  <2> HIDE DEF x
  <2>5. \A n : Unread(c, n)' <=> Unread(c, n) \/ x = Notice(c, n)
    BY <2>1, <2>3, UnreadWritten
  <2>6. CASE c = d
    BY <1>0, <1>a, <1>b, <2>2, <2>4, <2>5, <2>6 DEF Move, Sends
  <2>7. CASE c # d
    <3>1. sent'[c] = sent[c] /\ SameUnread(c)
      BY <2>1, <2>4, <2>5, <2>7 DEF SameUnread
    <3> QED BY <3>1, <1>c
  <2> QED BY <2>6, <2>7
<1> QED BY <1>1, <1>3, <1>4, <1>5 DEF ServerStep

LEMMA MovesByCaller ==
  ASSUME NEW d \in Callers, CallerStep(d) \/ UNCHANGED vars, NEW c \in Streams
  PROVE  Move(c)
<1>1. UNCHANGED <<pending, replay, queue, received, sent, wire, reader, buffered>>
  BY DEF CallerStep, CreateWaiter, WriteRequest, WriteFails, GetAnswer, vars, server, router, callers
<1>2. SameUnread(c) /\ SameHands(c) /\ SameBuffered(c)
  BY <1>1, UnreadKept DEF SameHands, InHand, SameBuffered
<1> QED BY <1>1, <1>2 DEF Move, Idles

LEMMA MovesByStream ==
  ASSUME TypeInv, KeptInv, NEW d \in Streams, StreamStep(d), NEW c \in Streams
  PROVE  Move(c)
<1> /\ pending \in [Streams -> Seq(Numbers)] /\ queue \in [Streams -> Seq(Numbers)]
    /\ replay \in [Streams -> Seq(Numbers)] /\ received \in [Streams -> Seq(Numbers)]
    /\ pc \in [Callers -> Labels] /\ Streams \subseteq Callers /\ TurnCallers \cap LoginCallers = {}
  BY Ranges DEF TypeInv, RouterType, CallerType
<1>0. UNCHANGED <<sent, wire, reader, buffered>>
  BY DEF StreamStep, Registers, Register, Replay, LookUpLogin, GetNotification, GetFailure,
     CloseStream, server
<1>1. SameUnread(c) /\ SameHands(c) /\ SameBuffered(c)
  BY <1>0, UnreadKept DEF SameHands, InHand, SameBuffered
<1>2. ASSUME UNCHANGED <<pending[c], replay[c], queue[c], received[c]>>
      PROVE  Move(c)
  BY <1>0, <1>1, <1>2 DEF Move, Idles
<1>3. CASE c # d
  <2>1. pending'[c] = pending[c]
    BY <1>3 DEF StreamStep, Registers, Register, Replay, LookUpLogin, GetNotification, GetFailure,
       CloseStream, router
  <2>2. replay'[c] = replay[c]
    BY <1>3 DEF StreamStep, Registers, Register, Replay, LookUpLogin, GetNotification, GetFailure,
       CloseStream, router
  <2>3. queue'[c] = queue[c]
    BY <1>3 DEF StreamStep, Registers, Register, Replay, LookUpLogin, GetNotification, GetFailure,
       CloseStream, router
  <2>4. received'[c] = received[c]
    BY <1>3 DEF StreamStep, Registers, Register, Replay, LookUpLogin, GetNotification, GetFailure,
       CloseStream, callers
  <2> QED BY <2>1, <2>2, <2>3, <2>4, <1>2
<1>4. CASE c = d
  <2>1. CASE Registers(d)
    <3>1. PICK to \in {"streaming", "handle", "lookup"} : Register(d, to)
      BY <2>1 DEF Registers
    <3>2. received' = received
      BY <3>1 DEF Register
    <3>3. CASE c \in registered
      BY <1>2, <1>4, <3>1, <3>2, <3>3 DEF Register
    <3>4. CASE c \notin registered
      <4>1. /\ replay'[c] = pending[c] /\ pending'[c] = <<>> /\ queue'[c] = <<>>
            /\ queue[c] # <<>> => c \in dropped'
        BY <1>4, <3>1, <3>4 DEF Register
      <4>2. replay[c] = <<>>
        BY <1>4, <2>1 DEF Registers, KeptInv, Kept, Early
      <4>3. c \in TurnCallers => Early(c)
        BY <1>4, <2>1 DEF Registers, Early, KeptInv, Kept
      <4>4. ~Early(c)'
        BY <1>4, <3>1 DEF Register, Goto, Early
      <4>5. Begins(c)
        BY <1>0, <1>1, <3>2, <4>1, <4>2, <4>3, <4>4 DEF Begins
      <4> QED BY <4>5 DEF Move
    <3> QED BY <3>3, <3>4
  <2>2. CASE Replay(d)
    <3>1. /\ UNCHANGED <<pending, received>> /\ replay[c] # <<>>
          /\ queue'[c] = Append(queue[c], Head(replay[c])) /\ replay'[c] = Tail(replay[c])
      BY <1>4, <2>2 DEF Replay, callers
    <3>2. Replays(c)
      BY <1>0, <1>1, <3>1 DEF Replays
    <3> QED BY <3>2 DEF Move
  <2>3. CASE LookUpLogin(d) \/ CloseStream(d)
    BY <1>2, <2>3 DEF LookUpLogin, CloseStream, router
  <2>4. CASE GetNotification(d) \/ GetFailure(d)
    <3>1. /\ UNCHANGED <<pending, replay>> /\ queue[c] # <<>> /\ queue'[c] = Tail(queue[c])
      BY <1>4, <2>4 DEF GetNotification, GetFailure
    <3>2. received'[c] = IF Head(queue[c]) = Failure THEN received[c] ELSE Append(received[c], Head(queue[c]))
      BY <1>4, <2>4 DEF GetNotification, GetFailure
    <3>3. Reads(c)
      BY <1>0, <1>1, <3>1, <3>2 DEF Reads
    <3> QED BY <3>3 DEF Move
  <2> QED BY <2>1, <2>2, <2>3, <2>4 DEF StreamStep
<1> QED BY <1>3, <1>4

\* Every step makes one of these moves on every stream.
LEMMA Moves ==
  ASSUME TypeInv, SentInv, KeptInv, Next
  PROVE  \A c \in Streams : Move(c)
BY MovesByServer, MovesByReader, MovesByCaller, MovesByStream, SentKept, Steps

\* What a step does to the readers and to the places of the callers.
LEMMA ReadersMove ==
  ASSUME TypeInv, Next, NEW s \in Sessions
  PROVE  /\ reader[s].hand # <<>> => reader'[s].on = reader[s].on
         /\ reader[s].on <= reader'[s].on
         /\ reader'[s].on = reader[s].on \/ (reader'[s].on = session /\ s <= session)
         /\ reader'[s].queues \subseteq reader[s].queues \cup {<<c, made[c]>> : c \in registered}
<1> DEFINE Goal == /\ reader[s].hand # <<>> => reader'[s].on = reader[s].on
                   /\ reader[s].on <= reader'[s].on
                   /\ reader'[s].on = reader[s].on \/ (reader'[s].on = session /\ s <= session)
                   /\ reader'[s].queues \subseteq reader[s].queues \cup {<<c, made[c]>> : c \in registered}
<1> Sessions \subseteq Nat /\ session \in Nat
  BY Ranges DEF TypeInv, ServerType
<1> /\ reader \in [Sessions -> Readers]
    /\ reader[s].on \in 0 .. session /\ (s > session => reader[s].at = "none")
    /\ (reader[s].at = "check" => reader[s].hand = <<>>)
  BY DEF TypeInv, ReaderType, HandRight
<1>1. ASSUME reader'[s].on = reader[s].on, reader'[s].queues = reader[s].queues
      PROVE  Goal
  <2>1. reader[s].on \in Nat /\ reader[s].on <= reader'[s].on
    BY <1>1
  <2> QED BY <1>1, <2>1
<1>2. CASE reader'[s] = reader[s]
  BY <1>1, <1>2
<1>3. CASE Start
  <2>1. reader'[s].on = reader[s].on /\ reader'[s].queues = reader[s].queues
    BY <1>3 DEF Start, Readers
  <2> QED BY <1>1, <2>1
<1>4. ASSUME NEW t \in Sessions, ReaderThread(t), t # s
      PROVE  reader'[s] = reader[s]
  <2>1. reader' = [reader EXCEPT ![t] = reader'[t]]
    <3>1. CASE ReadLine(t)
      <4>1. PICK msg : /\ Took(t, msg)
                       /\ \/ RouteResponse(t, msg) \/ RouteToQueue(t, msg) \/ RouteToPending(t, msg)
                          \/ ForgetTurn(t, msg) \/ Handle(t, msg)
        BY <3>1 DEF ReadLine
      <4>2. msg \in Lines
        BY <4>1, TookLine DEF TypeInv
      <4> QED BY <4>1, <4>2, LineMoves
    <3>2. CASE ~ReadLine(t)
      BY <1>4, <3>2, ReaderMoves DEF ReaderThread
    <3> QED BY <3>1, <3>2
  <2> QED BY <1>4, <2>1
<1>5. CASE ReaderThread(s)
  <2>1. CASE ReadLine(s)
    <3>1. PICK msg : /\ Took(s, msg)
                     /\ \/ RouteResponse(s, msg) \/ RouteToQueue(s, msg) \/ RouteToPending(s, msg)
                        \/ ForgetTurn(s, msg) \/ Handle(s, msg)
      BY <2>1 DEF ReadLine
    <3>2. msg \in Lines
      BY <3>1, TookLine DEF TypeInv
    <3>3. Empties(s) \/ (\E h : Takes(s, h)) \/ At(s, "check") \/ At(s, "handling")
      BY <3>1, <3>2, LineMoves
    <3>4. reader[s] \in Readers
      OBVIOUS
    <3>5. reader'[s].on = reader[s].on /\ reader'[s].queues = reader[s].queues
      BY <3>3, <3>4 DEF Empties, Takes, At, Readers
    <3> QED BY <1>1, <3>5
  <2>2. CASE PutResponse(s) \/ PutNotification(s) \/ HandlerReturns(s)
    <3>1. Empties(s) \/ At(s, "check")
      BY <2>2, ReaderMoves
    <3>2. reader[s] \in Readers
      OBVIOUS
    <3>3. reader'[s].on = reader[s].on /\ reader'[s].queues = reader[s].queues
      BY <3>1, <3>2 DEF Empties, At, Readers
    <3> QED BY <1>1, <3>3
  <2>3. CASE Check(s)
    <3>1. reader'[s] = [reader[s] EXCEPT !.at = "blocked", !.on = session] /\ reader[s].at = "check"
          /\ reader[s] \in Readers
      BY <2>3, ReaderMoves DEF Check
    <3>2. reader'[s].on = session /\ reader'[s].queues = reader[s].queues
      BY <3>1 DEF Readers
    <3> QED BY <3>1, <3>2
  <2>4. CASE FailAll(s)
    <3>1. Snapshots(s) /\ reader[s] \in Readers
      BY <2>4, ReaderMoves
    <3>2. reader'[s].on = reader[s].on /\ reader'[s].queues = {<<c, made[c]>> : c \in registered}
      BY <3>1 DEF Snapshots, Readers
    <3>3. reader[s].on <= reader'[s].on
      BY <3>2
    <3> QED BY <3>2, <3>3
  <2>5. CASE Wake(s)
    <3>1. Ends(s) /\ reader[s] \in Readers
      BY <2>5, ReaderMoves
    <3>2. reader'[s].on = reader[s].on /\ reader'[s].queues = {}
      BY <3>1 DEF Ends, Readers
    <3>3. reader[s].on <= reader'[s].on
      BY <3>2
    <3> QED BY <3>2, <3>3
  <2> QED BY <1>5, <2>1, <2>2, <2>3, <2>4, <2>5 DEF ReaderThread
<1>6. CASE reader' = reader
  BY <1>2, <1>6
<1>7. ASSUME Close \/ ServerStep \/ (\E c \in Callers : CallerStep(c)) \/ (\E c \in Streams : StreamStep(c))
      PROVE  reader' = reader
  BY <1>7 DEF Close, ServerStep, Respond, Notify, AskApproval, Crash,
     CallerStep, CreateWaiter, WriteRequest, WriteFails, GetAnswer,
     StreamStep, Registers, Register, Replay, LookUpLogin, GetNotification, GetFailure, CloseStream
<1> QED BY <1>2, <1>3, <1>4, <1>5, <1>6, <1>7, Steps

LEMMA CallersMove ==
  ASSUME TypeInv, KeptInv, Next, NEW c \in Streams
  PROVE  /\ ~Early(c) => ~Early(c)' /\ sentIn'[c] = sentIn[c]
         /\ sentIn'[c] # sentIn[c] => pc[c] = "write"
         /\ c \in TurnCallers => pc'[c] \notin {"handle", "lookup"}
<1> DEFINE Goal == /\ ~Early(c) => ~Early(c)' /\ sentIn'[c] = sentIn[c]
                   /\ sentIn'[c] # sentIn[c] => pc[c] = "write"
                   /\ c \in TurnCallers => pc'[c] \notin {"handle", "lookup"}
<1> /\ pc \in [Callers -> Labels] /\ Streams \subseteq Callers /\ TurnCallers \cap LoginCallers = {}
    /\ sentIn \in [Callers -> 0 .. session]
  BY Ranges DEF TypeInv, CallerType
<1>k. c \in TurnCallers => pc[c] \notin {"handle", "lookup"}
  BY DEF KeptInv, Kept
<1>1. CASE pc'[c] = pc[c] /\ sentIn'[c] = sentIn[c]
  BY <1>1, <1>k DEF Early
<1>2. CASE Start \/ Close \/ ServerStep \/ \E s \in Sessions : ReaderThread(s)
  <2>1. UNCHANGED callers
    <3>1. CASE \E s \in Sessions : ReadLine(s)
      BY <3>1 DEF ReadLine, Took
    <3>2. CASE ~\E s \in Sessions : ReadLine(s)
      BY <1>2, <3>2 DEF Start, Close, ServerStep, Respond, Notify, AskApproval, Crash, ReaderThread, Check,
         PutResponse, PutNotification, HandlerReturns, FailAll, Wake
    <3> QED BY <3>1, <3>2
  <2> QED BY <1>1, <2>1 DEF callers
<1>3. ASSUME NEW d \in Callers, CallerStep(d)
      PROVE  Goal
  <2>1. CASE c # d
    <3>1. pc'[c] = pc[c] /\ sentIn'[c] = sentIn[c]
      BY <1>3, <2>1 DEF CallerStep, CreateWaiter, WriteRequest, WriteFails, GetAnswer, Goto
    <3> QED BY <1>1, <3>1
  <2>2. CASE c = d
    <3>1. /\ pc[c] \in {"idle", "write", "waiting"} /\ pc'[c] \in {"write", "waiting", "raised", "register", "done"}
          /\ sentIn'[c] # sentIn[c] => pc[c] = "write"
      BY <1>3, <2>2 DEF CallerStep, CreateWaiter, WriteRequest, WriteFails, GetAnswer, Goto
    <3> QED BY <3>1 DEF Early
  <2> QED BY <2>1, <2>2
<1>4. ASSUME NEW d \in Streams, StreamStep(d)
      PROVE  Goal
  <2>0. sentIn' = sentIn
    BY <1>4 DEF StreamStep, Registers, Register, Replay, LookUpLogin, GetNotification, GetFailure,
       CloseStream, callers
  <2>1. CASE Registers(d)
    <3>1. PICK to \in {"streaming", "handle", "lookup"} :
            Register(d, to) /\ (d \in TurnCallers /\ pc[d] = "register" => to = "streaming")
      BY <2>1 DEF Registers
    <3>2. pc' = [pc EXCEPT ![d] = to] /\ pc[d] \in {"register", "handle"}
      BY <2>1, <3>1 DEF Registers, Register, Goto
    <3>3. CASE c # d
      <4>1. pc'[c] = pc[c]
        BY <3>2, <3>3
      <4> QED BY <1>1, <2>0, <4>1
    <3>4. CASE c = d
      <4>1. pc'[c] = to
        BY <3>2, <3>4
      <4>2. c \in TurnCallers => to = "streaming"
        BY <1>k, <3>1, <3>2, <3>4
      <4> QED BY <2>0, <4>1, <4>2 DEF Early
    <3> QED BY <3>3, <3>4
  <2>2. CASE ~Registers(d)
    <3>1. pc' = pc \/ \E l \in {"streaming", "raised", "done", "closed"} : pc' = [pc EXCEPT ![d] = l]
      BY <1>4, <2>2 DEF StreamStep, Replay, LookUpLogin, GetNotification, GetFailure, CloseStream, callers, Goto
    <3>2. pc'[c] = pc[c] \/ pc'[c] \in {"streaming", "raised", "done", "closed"}
      BY <3>1
    <3> QED BY <1>k, <2>0, <3>2 DEF Early
  <2> QED BY <2>1, <2>2
<1> QED BY <1>2, <1>3, <1>4, Steps

LEMMA SeqGrows ==
  ASSUME NEW lo \in Nat, NEW m \in Nat, NEW n \in Nat, m <= n, NEW q \in Seq(lo .. m)
  PROVE  q \in Seq(lo .. n)
<1>1. lo .. m \subseteq lo .. n
  OBVIOUS
<1> QED BY <1>1

LEMMA SeqSteps ==
  ASSUME NEW S, NEW q \in Seq(S)
  PROVE  /\ <<>> \in Seq(S) /\ \A x \in S : Append(q, x) \in Seq(S)
         /\ q # <<>> => Tail(q) \in Seq(S) /\ Head(q) \in S
OBVIOUS

LEMMA SequencesKept ==
  ASSUME TypeInv, NEW c \in Streams, Kept(c), Move(c)
  PROVE  /\ pending'[c] \in Seq(1 .. sent'[c]) /\ replay'[c] \in Seq(1 .. sent'[c])
         /\ queue'[c] \in Seq(0 .. sent'[c]) /\ received'[c] \in Seq(1 .. sent'[c])
<1> DEFINE P == pending[c]
           R == replay[c]
           Q == queue[c]
           V == received[c]
           N == sent[c]
<1>1. N \in Nat /\ P \in Seq(1 .. N) /\ R \in Seq(1 .. N) /\ Q \in Seq(0 .. N) /\ V \in Seq(1 .. N)
  BY Ranges DEF TypeInv, ServerType, Kept
<1>2. /\ sent'[c] = N \/ Sends(c)
      /\ pending'[c] = P \/ Buffers(c) \/ Forgets(c) \/ Loses(c) \/ Begins(c)
      /\ replay'[c] = R \/ Begins(c) \/ Replays(c)
      /\ queue'[c] = Q \/ Delivers(c) \/ Hears(c) \/ Begins(c) \/ Replays(c) \/ Reads(c)
      /\ received'[c] = V \/ Reads(c)
  BY DEF Move, Idles, Sends, TakesUp, Buffers, Forgets, Delivers, Discards, Loses, Hears, Begins, Replays, Reads
<1>3. CASE Sends(c)
  <2>1. sent'[c] = N + 1 /\ N <= N + 1 /\ N + 1 \in Nat /\ pending'[c] = P /\ replay'[c] = R /\ queue'[c] = Q
        /\ received'[c] = V /\ 0 \in Nat /\ 1 \in Nat
    BY <1>1, <1>3 DEF Sends
  <2> HIDE DEF P, R, Q, V, N
  <2> QED BY <1>1, <2>1, SeqGrows
<1>4. CASE ~Sends(c)
  <2>0. sent'[c] = N
    BY <1>2, <1>4
  <2>1. pending'[c] \in Seq(1 .. N)
    <3>1. pending'[c] = P \/ pending'[c] = <<>> \/ \E n \in 1 .. N : pending'[c] = Append(P, n)
      BY <1>2 DEF Buffers, Forgets, Loses, Begins
    <3> HIDE DEF P, N
    <3> QED BY <1>1, <3>1, SeqSteps
  <2>2. replay'[c] \in Seq(1 .. N)
    <3>1. replay'[c] = R \/ replay'[c] = P \/ (R # <<>> /\ replay'[c] = Tail(R))
      BY <1>2 DEF Begins, Replays
    <3> HIDE DEF R, P, N
    <3> QED BY <1>1, <3>1, SeqSteps
  <2>3. queue'[c] \in Seq(0 .. N)
    <3>1. \/ queue'[c] = Q \/ queue'[c] = <<>> \/ (Q # <<>> /\ queue'[c] = Tail(Q))
          \/ \E n \in 0 .. N : queue'[c] = Append(Q, n)
      <4>1. Replays(c) => Head(R) \in 0 .. N
        <5>1. Replays(c) => R # <<>>
          BY DEF Replays
        <5> HIDE DEF R, N
        <5> QED BY <1>1, <5>1
      <4>2. Failure \in 0 .. N /\ \A n \in 1 .. N : n \in 0 .. N
        BY <1>1, Ranges
      <4> QED BY <1>2, <4>1, <4>2 DEF Delivers, Hears, Begins, Replays, Reads
    <3> HIDE DEF Q, N
    <3> QED BY <1>1, <3>1, SeqSteps
  <2>4. received'[c] \in Seq(1 .. N)
    <3>1. received'[c] = V \/ (Q # <<>> /\ Head(Q) # 0 /\ received'[c] = Append(V, Head(Q)))
      BY <1>2, Ranges DEF Reads
    <3> HIDE DEF Q, V, N
    <3>2. Q # <<>> /\ Head(Q) # 0 => Head(Q) \in 1 .. N
      <4>1. Q # <<>> => Head(Q) \in 0 .. N
        BY <1>1
      <4> QED BY <1>1, <4>1
    <3> QED BY <1>1, <3>1, <3>2, SeqSteps
  <2> QED BY <2>0, <2>1, <2>2, <2>3, <2>4
<1> QED BY <1>3, <1>4

LEMMA KeptKept ==
  ASSUME TypeInv, SentInv, KeptInv, Next
  PROVE  KeptInv'
<1> ServerType /\ ReaderType /\ RouterType /\ CallerType /\ Numbers \subseteq Nat
  BY Ranges DEF TypeInv
<1> sent \in [Streams -> Numbers]
  BY DEF ServerType
<1>1. ASSUME NEW c \in Streams
      PROVE  Kept(c)'
  <2>1. Kept(c) /\ Move(c)
    BY Moves DEF KeptInv
  <2>2. /\ ~Early(c) => ~Early(c)' /\ sentIn'[c] = sentIn[c]
        /\ c \in TurnCallers => pc'[c] \notin {"handle", "lookup"}
    BY CallersMove
  <2>3. Early(c)' => replay'[c] = <<>> /\ queue'[c] = <<>> /\ received'[c] = <<>>
    <3> SUFFICES ASSUME Early(c)'
                 PROVE  replay'[c] = <<>> /\ queue'[c] = <<>> /\ received'[c] = <<>>
      OBVIOUS
    <3>1. Early(c) /\ replay[c] = <<>> /\ queue[c] = <<>> /\ received[c] = <<>>
      BY <2>1, <2>2 DEF Kept
    <3>2. \A s \in Sessions : \A n : ~InHand(s, c, n)
      BY <2>1, <3>1 DEF Kept
    <3>3. ~Delivers(c) /\ ~Hears(c) /\ ~Begins(c) /\ ~Replays(c) /\ ~Reads(c)
      BY <3>1, <3>2 DEF Delivers, LetGo, Hears, Begins, Replays, Reads
    <3> QED BY <2>1, <3>1, <3>3 DEF Move, Idles, Sends, TakesUp, Buffers, Forgets, Discards, Loses
  <2>4. ASSUME NEW s \in Sessions, NEW n, InHand(s, c, n)'
        PROVE  n \in 1 .. sent'[c] /\ reader'[s].on = sentIn'[c] /\ s <= sentIn'[c] /\ ~Early(c)'
    <3>1. sent[c] \in Nat /\ (sent'[c] = sent[c] \/ sent'[c] = sent[c] + 1)
      BY <2>1 DEF Move, Idles, Sends, TakesUp, Buffers, Forgets, Delivers, Discards, Loses, Hears, Begins,
         Replays, Reads
    <3>2. CASE InHand(s, c, n)
      <4>1. n \in 1 .. sent[c] /\ reader[s].on = sentIn[c] /\ s <= sentIn[c] /\ ~Early(c)
        BY <2>1, <3>2 DEF Kept
      <4>2. reader'[s].on = reader[s].on
        BY <3>2, ReadersMove DEF InHand
      <4>3. n \in 1 .. sent'[c]
        BY <3>1, <4>1
      <4> QED BY <2>2, <4>1, <4>2, <4>3
    <3>3. CASE ~InHand(s, c, n)
      <4>1. TakesUp(c)
        BY <2>1, <2>4, <3>3 DEF Move, Idles, Sends, Buffers, Forgets, Delivers, Discards, Loses, Hears, Begins,
           Replays, Reads, SameHands, LetGo
      <4>2. PICK t \in Sessions : \E m \in 1 .. sent[c] :
              /\ \A a \in Sessions : \A b : InHand(a, c, b)' <=> InHand(a, c, b) \/ (a = t /\ b = m)
              /\ reader'[t].on = sentIn[c] /\ t <= sentIn[c]
        BY <4>1 DEF TakesUp
      <4>3. t = s /\ n \in 1 .. sent[c]
        BY <2>4, <3>3, <4>2
      <4>4. ~Early(c) /\ sent'[c] = sent[c]
        BY <4>1 DEF TakesUp
      <4> QED BY <2>2, <4>2, <4>3, <4>4
    <3> QED BY <3>2, <3>3
  <2>5. ASSUME NEW s \in Sessions, NEW m, <<c, m>> \in reader'[s].queues
        PROVE  ~Early(c)'
    <3>1. <<c, m>> \in reader[s].queues \/ c \in registered
      BY <2>5, ReadersMove
    <3>2. ~Early(c)
      BY <2>1, <3>1 DEF Kept, Early, RouterType
    <3> QED BY <2>2, <3>2
  <2>6. /\ pending'[c] \in Seq(1 .. sent'[c]) /\ replay'[c] \in Seq(1 .. sent'[c])
        /\ queue'[c] \in Seq(0 .. sent'[c]) /\ received'[c] \in Seq(1 .. sent'[c])
    BY <2>1, SequencesKept
  <2> QED BY <2>2, <2>3, <2>4, <2>5, <2>6 DEF Kept
<1>2. ASSUME NEW s \in Sessions
      PROVE  reader'[s].on = 0 \/ s <= reader'[s].on
  BY ReadersMove DEF KeptInv
<1> QED BY <1>1, <1>2 DEF KeptInv

LEMMA SentInitially ==
  ASSUME Init
  PROVE  SentInv /\ KeptInv
<1>1. \A s \in Sessions : wire[s] = <<>> /\ reader[s] = Idle
  BY DEF Init
<1>2. \A s \in Sessions : InSequence(s, wire[s])
  BY <1>1 DEF InSequence
<1>3. Streams \subseteq Callers /\ asked = {} /\ started = {}
  BY Ranges DEF Init
<1>4. \A c \in Streams : sent[c] = 0
  BY DEF Init
<1>5. SentInv
  BY <1>2, <1>3, <1>4 DEF SentInv
<1>6. \A s \in Sessions : reader[s].hand = <<>> /\ reader[s].queues = {} /\ reader[s].on = 0
  BY <1>1 DEF Idle
<1>7. ASSUME NEW c \in Streams
      PROVE  Kept(c)
  <2>1. pending[c] = <<>> /\ replay[c] = <<>> /\ queue[c] = <<>> /\ received[c] = <<>> /\ pc[c] = "idle"
    BY <1>3 DEF Init
  <2> QED BY <1>6, <2>1 DEF Kept, InHand
<1> QED BY <1>5, <1>6, <1>7 DEF KeptInv

-----------------------------------------------------------------------------
(* NotificationsOnce. *)

Holders(c, n) == {s \in Sessions : InHand(s, c, n)}

LEMMA OneHome ==
  ASSUME NEW T, NEW home, T \subseteq {home}
  PROVE  (T # {} => Cardinality(T) = 1) /\ (T = {} => Cardinality(T) = 0)
<1>1. T = {} \/ T = {home}
  OBVIOUS
<1> QED BY <1>1, FS_EmptySet, FS_Singleton

LEMMA CopiesSum ==
  ASSUME SentInv, NEW c, NEW n
  PROVE  Copies(c, n) = Times(n, pending[c]) + Times(n, replay[c]) + Times(n, queue[c])
                          + Times(n, received[c]) + If(Unread(c, n)) + Cardinality(Holders(c, n))
<1>1. \A s \in Sessions : \A k \in DOMAIN wire[s] : wire[s][k] = Notice(c, n) => s = sentIn[c]
  BY UnreadSent
<1>2. Cardinality({s \in Sessions : \E k \in DOMAIN wire[s] :
                     wire[s][k] = [kind |-> "notification", of |-> c, n |-> n]}) = If(Unread(c, n))
  <2> DEFINE T == {s \in Sessions : \E k \in DOMAIN wire[s] :
                     wire[s][k] = [kind |-> "notification", of |-> c, n |-> n]}
  <2>1. T \subseteq {sentIn[c]} /\ (T # {} <=> Unread(c, n))
    BY <1>1 DEF Unread, Notice
  <2> HIDE DEF T
  <2>2. Cardinality(T) = If(Unread(c, n))
    BY <2>1, OneHome DEF If
  <2> QED BY <2>2 DEF T
<1>3. Holders(c, n) = {s \in Sessions : /\ reader[s].hand /= <<>>
                                   /\ reader[s].hand[1].kind = "item"
                                   /\ reader[s].hand[1].of = c /\ reader[s].hand[1].n = n}
  BY DEF Holders, InHand
<1> QED BY <1>2, <1>3 DEF Copies

LEMMA CopiesSumNext ==
  ASSUME SentInv', NEW c, NEW n
  PROVE  Copies(c, n)' = Times(n, pending'[c]) + Times(n, replay'[c]) + Times(n, queue'[c])
                           + Times(n, received'[c]) + If(Unread(c, n)') + Cardinality(Holders(c, n)')
<1>1. \A s \in Sessions : \A k \in DOMAIN wire'[s] : wire'[s][k] = Notice(c, n) => s = sentIn'[c]
  BY DEF SentInv, InSequence, Notice
<1>2. Cardinality({s \in Sessions : \E k \in DOMAIN wire'[s] :
                     wire'[s][k] = [kind |-> "notification", of |-> c, n |-> n]}) = If(Unread(c, n)')
  <2>1. Unread(c, n)' <=> \E s \in Sessions : \E k \in DOMAIN wire'[s] : wire'[s][k] = Notice(c, n)
    BY DEF Unread, Notice
  <2> DEFINE T == {s \in Sessions : \E k \in DOMAIN wire'[s] :
                     wire'[s][k] = [kind |-> "notification", of |-> c, n |-> n]}
  <2>2. T \subseteq {sentIn'[c]} /\ (T # {} <=> Unread(c, n)')
    BY <1>1, <2>1 DEF Notice
  <2> HIDE DEF T
  <2>3. Cardinality(T) = If(Unread(c, n)')
    BY <2>2, OneHome DEF If
  <2> QED BY <2>3 DEF T
<1>3. Holders(c, n)' = {s \in Sessions : /\ reader'[s].hand /= <<>>
                                   /\ reader'[s].hand[1].kind = "item"
                                   /\ reader'[s].hand[1].of = c /\ reader'[s].hand[1].n = n}
  BY DEF Holders, InHand
<1>4. Copies(c, n)' = Times(n, pending'[c]) + Times(n, replay'[c]) + Times(n, queue'[c])
       + Times(n, received'[c])
       + Cardinality({s \in Sessions : \E k \in DOMAIN wire'[s] :
                     wire'[s][k] = [kind |-> "notification", of |-> c, n |-> n]})
       + Cardinality({s \in Sessions : /\ reader'[s].hand /= <<>>
                                   /\ reader'[s].hand[1].kind = "item"
                                   /\ reader'[s].hand[1].of = c /\ reader'[s].hand[1].n = n})
  BY DEF Copies, Times
<1> QED BY <1>2, <1>3, <1>4

\* How a move changes the readers that hold n.
LEMMA HoldersMove ==
  ASSUME NEW c, NEW n
  PROVE  /\ IsFiniteSet(Holders(c, n)) /\ Cardinality(Holders(c, n)) \in Nat
         /\ SameHands(c) => Cardinality(Holders(c, n)') = Cardinality(Holders(c, n))
         /\ \A s \in Sessions : \A m : LetGo(s, c, m) =>
              Cardinality(Holders(c, n)') = Cardinality(Holders(c, n)) - If(m = n)
         /\ \A s \in Sessions : \A m :
              (/\ \A k : ~InHand(s, c, k)
               /\ \A t \in Sessions : \A k : InHand(t, c, k)' <=> InHand(t, c, k) \/ (t = s /\ k = m))
              => Cardinality(Holders(c, n)') = Cardinality(Holders(c, n)) + If(m = n)
<1> DEFINE T == Holders(c, n)
<1>1. IsFiniteSet(T) /\ Cardinality(T) \in Nat
  <2>1. T \in SUBSET Sessions /\ IsFiniteSet(Sessions)
    BY Ranges, FS_Interval DEF Holders
  <2> QED BY <2>1, FS_Subset, FS_CardinalityType
<1>2. SameHands(c) => T' = T
  BY DEF Holders, SameHands
<1>3. ASSUME NEW s \in Sessions, NEW m, LetGo(s, c, m)
      PROVE  Cardinality(T') = Cardinality(T) - If(m = n)
  <2>1. T' = T \ {s}
    BY <1>3 DEF LetGo, Holders
  <2>2. s \in T <=> m = n
    BY <1>3 DEF LetGo, Holders, InHand
  <2> HIDE DEF T
  <2>3. Cardinality(T \ {s}) = IF s \in T THEN Cardinality(T) - 1 ELSE Cardinality(T)
    BY <1>1, FS_RemoveElement
  <2>4. CASE m = n
    BY <2>1, <2>2, <2>3, <2>4 DEF If
  <2>5. CASE m # n
    BY <1>1, <2>1, <2>2, <2>3, <2>5 DEF If
  <2> QED BY <2>4, <2>5
<1>4. ASSUME NEW s \in Sessions, NEW m, \A k : ~InHand(s, c, k),
             \A t \in Sessions : \A k : InHand(t, c, k)' <=> InHand(t, c, k) \/ (t = s /\ k = m)
      PROVE  Cardinality(T') = Cardinality(T) + If(m = n)
  <2>1. T' = IF m = n THEN T \cup {s} ELSE T
    BY <1>4 DEF Holders
  <2>2. s \notin T
    BY <1>4 DEF Holders
  <2> HIDE DEF T
  <2> QED BY <1>1, <2>1, <2>2, FS_AddElement DEF If
<1> QED BY <1>1, <1>2, <1>3, <1>4

LEMMA IfCounts == \A b \in BOOLEAN : If(b) \in {0, 1} /\ (If(b) = 1 <=> b)
BY DEF If

LEMMA DroppedGrows ==
  ASSUME Next
  PROVE  dropped \subseteq dropped'
<1>1. CASE \E s \in Sessions : ReadLine(s)
  BY <1>1 DEF ReadLine, RouteResponse, RouteToQueue, RouteToPending, ForgetTurn, Handle
<1>2. CASE \E s \in Sessions : ReaderThread(s) /\ ~ReadLine(s)
  BY <1>2 DEF ReaderThread, Check, PutResponse, PutNotification, HandlerReturns, FailAll, Wake
<1>3. CASE Start \/ Close \/ ServerStep \/ \E c \in Callers : CallerStep(c)
  BY <1>3 DEF Start, Close, ServerStep, Respond, Notify, AskApproval, Crash, CallerStep, CreateWaiter,
     WriteRequest, WriteFails, GetAnswer
<1>4. ASSUME NEW c \in Streams, StreamStep(c)
      PROVE  dropped \subseteq dropped'
  <2>1. CASE Registers(c)
    BY <2>1 DEF Registers, Register
  <2>2. CASE ~Registers(c)
    BY <1>4, <2>2 DEF StreamStep, Replay, LookUpLogin, GetNotification, GetFailure, CloseStream
  <2> QED BY <2>1, <2>2
<1> QED BY <1>1, <1>2, <1>3, <1>4, Steps

LEMMA CopiesMove ==
  ASSUME TypeInv, SentInv, SentInv', KeptInv, KeptInv', NEW c \in Streams, Move(c), NEW n \in 1 .. sent[c]
  PROVE  /\ Copies(c, n) \in Nat /\ Copies(c, n)' \in Nat
         /\ Copies(c, n)' = Copies(c, n) \/ (Copies(c, n)' <= Copies(c, n) /\ c \in dropped')
<1> DEFINE p == Times(n, pending[c])   p2 == Times(n, pending'[c])
           r == Times(n, replay[c])    r2 == Times(n, replay'[c])
           q == Times(n, queue[c])     q2 == Times(n, queue'[c])
           v == Times(n, received[c])  v2 == Times(n, received'[c])
           u == If(Unread(c, n))       u2 == If(Unread(c, n)')
           h == Cardinality(Holders(c, n))
           h2 == Cardinality(Holders(c, n)')
           Same == p2 = p /\ r2 = r /\ q2 = q /\ v2 = v
           Goal == \/ p2 + r2 + q2 + v2 + u2 + h2 = p + r + q + v + u + h
                   \/ p2 + r2 + q2 + v2 + u2 + h2 <= p + r + q + v + u + h /\ c \in dropped'
<1>0. Kept(c) /\ Kept(c)' /\ sent[c] \in Nat /\ Failure = 0
  BY Ranges DEF KeptInv, TypeInv, ServerType
<1>1. /\ p \in Nat /\ r \in Nat /\ q \in Nat /\ v \in Nat /\ u \in Nat /\ h \in Nat
      /\ p2 \in Nat /\ r2 \in Nat /\ q2 \in Nat /\ v2 \in Nat /\ u2 \in Nat
  BY <1>0, OccurrencesFinite, HoldersMove, IfCounts DEF Kept, If
<1>a. Times(n, <<>>) = 0
  BY TimesNone
<1>b. /\ \A x \in 1 .. sent[c] : Times(n, Append(pending[c], x)) = p + If(x = n)
      /\ \A x \in 0 .. sent[c] : Times(n, Append(queue[c], x)) = q + If(x = n)
      /\ \A x \in 1 .. sent[c] : Times(n, Append(received[c], x)) = v + If(x = n)
      /\ queue[c] # <<>> => Times(n, Tail(queue[c])) = q - If(Head(queue[c]) = n)
      /\ replay[c] # <<>> => Times(n, Tail(replay[c])) = r - If(Head(replay[c]) = n)
  <2>1. ASSUME NEW x \in 1 .. sent[c]
        PROVE  Times(n, Append(pending[c], x)) = p + If(x = n)
    <3> DEFINE S == 1 .. sent[c]
    <3>1. pending[c] \in Seq(S) /\ x \in S
      BY <1>0 DEF Kept
    <3> HIDE DEF S
    <3> QED BY <3>1, TimesAppend
  <2>2. ASSUME NEW x \in 0 .. sent[c]
        PROVE  Times(n, Append(queue[c], x)) = q + If(x = n)
    <3> DEFINE S == 0 .. sent[c]
    <3>1. queue[c] \in Seq(S) /\ x \in S
      BY <1>0 DEF Kept
    <3> HIDE DEF S
    <3> QED BY <3>1, TimesAppend
  <2>3. ASSUME NEW x \in 1 .. sent[c]
        PROVE  Times(n, Append(received[c], x)) = v + If(x = n)
    <3> DEFINE S == 1 .. sent[c]
    <3>1. received[c] \in Seq(S) /\ x \in S
      BY <1>0 DEF Kept
    <3> HIDE DEF S
    <3> QED BY <3>1, TimesAppend
  <2>4. queue[c] # <<>> => Times(n, Tail(queue[c])) = q - If(Head(queue[c]) = n)
    BY <1>0, TimesTail DEF Kept
  <2>5. replay[c] # <<>> => Times(n, Tail(replay[c])) = r - If(Head(replay[c]) = n)
    BY <1>0, TimesTail DEF Kept
  <2> QED BY <2>1, <2>2, <2>3, <2>4, <2>5
<1>c. SameUnread(c) => u2 = u
  BY DEF SameUnread, If
<1>d. SameHands(c) => h2 = h
  BY HoldersMove
<1>e. \A m : FirstRead(c, m) => u2 = u - If(m = n)
  <2> SUFFICES ASSUME NEW m, FirstRead(c, m)
               PROVE  u2 = u - If(m = n)
    OBVIOUS
  <2>1. CASE m = n
    BY <2>1 DEF FirstRead, If
  <2>2. CASE m # n
    BY <2>2 DEF FirstRead, If
  <2> QED BY <2>1, <2>2
<1>f. \A s \in Sessions : \A m : LetGo(s, c, m) => h2 = h - If(m = n)
  BY HoldersMove
<1>g. \A m : If(m = n) \in {0, 1}
  BY DEF If
<1> HIDE DEF p, p2, r, r2, q, q2, v, v2, u, u2, h, h2
<1>2. ASSUME Idles(c)
      PROVE  Goal
  <2>1. Same /\ u2 = u /\ h2 = h
    BY <1>2, <1>c, <1>d DEF Idles, p, p2, r, r2, q, q2, v, v2
  <2> QED BY <1>1, <2>1
<1>3. ASSUME Sends(c)
      PROVE  Goal
  <2>1. Same /\ h2 = h
    BY <1>3, <1>d DEF Sends, p, p2, r, r2, q, q2, v, v2
  <2>2. Unread(c, n)' <=> Unread(c, n)
    BY <1>0, <1>3 DEF Sends
  <2>3. u2 = u
    BY <2>2 DEF u, u2, If
  <2> QED BY <1>1, <2>1, <2>3
<1>4. ASSUME TakesUp(c)
      PROVE  Goal
  <2>1. Same
    BY <1>4 DEF TakesUp, p, p2, r, r2, q, q2, v, v2
  <2>2. PICK s \in Sessions, m \in 1 .. sent[c] :
          /\ FirstRead(c, m)
          /\ \A k : ~InHand(s, c, k)
          /\ \A t \in Sessions : \A k : InHand(t, c, k)' <=> InHand(t, c, k) \/ (t = s /\ k = m)
    BY <1>4 DEF TakesUp
  <2>3. h2 = h + If(m = n)
    BY <2>2, HoldersMove DEF h, h2
  <2>4. u2 = u - If(m = n)
    BY <2>2, <1>e
  <2> DEFINE d == If(m = n)
  <2>d. d \in {0, 1} /\ h2 = h + d /\ u2 = u - d
    BY <1>g, <2>3, <2>4
  <2> HIDE DEF d
  <2> QED BY <1>1, <2>d, <2>1
<1>5. ASSUME Buffers(c)
      PROVE  Goal
  <2>1. PICK m \in 1 .. sent[c] : FirstRead(c, m) /\ pending'[c] = Append(pending[c], m)
    BY <1>5 DEF Buffers
  <2>2. r2 = r /\ q2 = q /\ v2 = v /\ h2 = h
    BY <1>5, <1>d DEF Buffers, r, r2, q, q2, v, v2
  <2>3. p2 = p + If(m = n)
    BY <2>1, <1>b DEF p2
  <2>4. u2 = u - If(m = n)
    BY <2>1, <1>e
  <2> DEFINE d == If(m = n)
  <2>d. d \in {0, 1} /\ p2 = p + d /\ u2 = u - d
    BY <1>g, <2>3, <2>4
  <2> HIDE DEF d
  <2> QED BY <1>1, <2>d, <2>2
<1>6. ASSUME Forgets(c)
      PROVE  Goal
  <2>1. PICK m \in 1 .. sent[c] : FirstRead(c, m)
    BY <1>6 DEF Forgets
  <2>2. r2 = r /\ q2 = q /\ v2 = v /\ h2 = h /\ p2 = 0
    BY <1>6, <1>a, <1>d DEF Forgets, r, r2, q, q2, v, v2, p2
  <2>3. u2 = u - If(m = n) /\ c \in dropped'
    BY <1>6, <2>1, <1>e DEF Forgets
  <2> DEFINE d == If(m = n)
  <2>d. d \in {0, 1} /\ u2 = u - d
    BY <1>g, <2>3
  <2> HIDE DEF d
  <2> QED BY <1>1, <2>d, <2>2, <2>3
<1>7. ASSUME Delivers(c)
      PROVE  Goal
  <2>1. PICK s \in Sessions, m \in 1 .. sent[c] : LetGo(s, c, m) /\ queue'[c] = Append(queue[c], m)
    BY <1>7 DEF Delivers
  <2>2. r2 = r /\ p2 = p /\ v2 = v /\ u2 = u
    BY <1>7, <1>c DEF Delivers, r, r2, p, p2, v, v2
  <2>3. q2 = q + If(m = n)
    <3>1. m \in 0 .. sent[c]
      BY <1>0
    <3> QED BY <2>1, <3>1, <1>b DEF q2
  <2>4. h2 = h - If(m = n)
    BY <2>1, <1>f
  <2> DEFINE d == If(m = n)
  <2>d. d \in {0, 1} /\ q2 = q + d /\ h2 = h - d
    BY <1>g, <2>3, <2>4
  <2> HIDE DEF d
  <2> QED BY <1>1, <2>d, <2>2
<1>8. ASSUME Discards(c)
      PROVE  Goal
  <2>1. PICK s \in Sessions, m \in 1 .. sent[c] : LetGo(s, c, m)
    BY <1>8 DEF Discards
  <2>2. Same /\ u2 = u /\ c \in dropped'
    BY <1>8, <1>c DEF Discards, p, p2, r, r2, q, q2, v, v2
  <2>3. h2 = h - If(m = n)
    BY <2>1, <1>f
  <2> DEFINE d == If(m = n)
  <2>d. d \in {0, 1} /\ h2 = h - d
    BY <1>g, <2>3
  <2> HIDE DEF d
  <2> QED BY <1>1, <2>d, <2>2
<1>9. ASSUME Loses(c)
      PROVE  Goal
  <2>1. r2 = r /\ q2 = q /\ v2 = v /\ p2 = 0 /\ u2 = u /\ h2 = h /\ c \in dropped'
    BY <1>9, <1>a, <1>c, <1>d DEF Loses, r, r2, q, q2, v, v2, p2
  <2> QED BY <1>1, <2>1
<1>10. ASSUME Hears(c)
      PROVE  Goal
  <2>1. r2 = r /\ p2 = p /\ v2 = v /\ u2 = u /\ h2 = h
    BY <1>10, <1>c, <1>d DEF Hears, r, r2, p, p2, v, v2
  <2>2. queue'[c] = Append(queue[c], 0) /\ 0 \in 0 .. sent[c] /\ 0 # n
    BY <1>0, <1>10 DEF Hears
  <2>3. q2 = q
    BY <1>1, <1>b, <2>2 DEF q2, If
  <2> QED BY <1>1, <2>1, <2>3
<1>11. ASSUME Begins(c)
      PROVE  Goal
  <2>1. v2 = v /\ u2 = u /\ h2 = h /\ r = 0 /\ r2 = p /\ p2 = 0 /\ q2 = 0
    BY <1>11, <1>a, <1>c, <1>d DEF Begins, v, v2, r, r2, p, p2, q2
  <2>2. q = 0 \/ c \in dropped'
    BY <1>11, <1>a DEF Begins, q
  <2> QED BY <1>1, <2>1, <2>2
<1>12. ASSUME Replays(c)
      PROVE  Goal
  <2> DEFINE x == Head(replay[c])
  <2>1. p2 = p /\ v2 = v /\ u2 = u /\ h2 = h
    BY <1>12, <1>c, <1>d DEF Replays, v, v2, p, p2
  <2>2. replay[c] # <<>> /\ queue'[c] = Append(queue[c], x) /\ replay'[c] = Tail(replay[c])
    BY <1>12 DEF Replays
  <2>3. x \in 1 .. sent[c]
    BY <1>0, <2>2, SeqSteps DEF Kept
  <2>4. x \in 0 .. sent[c]
    BY <1>0, <2>3
  <2>5. r2 = r - If(x = n)
    BY <2>2, <1>b DEF r2
  <2> HIDE DEF x
  <2>6. q2 = q + If(x = n)
    BY <2>2, <2>4, <1>b DEF q2
  <2> DEFINE d == If(x = n)
  <2>d. d \in {0, 1} /\ r2 = r - d /\ q2 = q + d
    BY <1>g, <2>5, <2>6
  <2> HIDE DEF d
  <2> QED BY <1>1, <2>d, <2>1
<1>13. ASSUME Reads(c)
      PROVE  Goal
  <2> DEFINE x == Head(queue[c])
  <2>1. p2 = p /\ r2 = r /\ u2 = u /\ h2 = h
    BY <1>13, <1>c, <1>d DEF Reads, r, r2, p, p2
  <2>2. /\ queue[c] # <<>> /\ queue'[c] = Tail(queue[c])
        /\ received'[c] = IF x = 0 THEN received[c] ELSE Append(received[c], x)
    BY <1>0, <1>13 DEF Reads
  <2>3. x \in 0 .. sent[c]
    BY <1>0, <2>2, SeqSteps DEF Kept
  <2>4. x # 0 => x \in 1 .. sent[c]
    BY <1>0, <2>3
  <2>5. q2 = q - If(x = n)
    BY <2>2, <1>b DEF q2
  <2> HIDE DEF x
  <2>6. v2 = v + If(x = n)
    <3>1. CASE x = 0
      BY <1>1, <2>2, <3>1 DEF v, v2, If
    <3>2. CASE x # 0
      BY <1>b, <2>2, <2>4, <3>2 DEF v2
    <3> QED BY <3>1, <3>2
  <2> DEFINE d == If(x = n)
  <2>d. d \in {0, 1} /\ q2 = q - d /\ v2 = v + d
    BY <1>g, <2>5, <2>6
  <2> HIDE DEF d
  <2> QED BY <1>1, <2>d, <2>1
<1>14. Goal /\ h2 \in Nat
  <2>1. h2 \in Nat
    <3>1. Holders(c, n)' \in SUBSET Sessions /\ IsFiniteSet(Sessions)
      BY Ranges, FS_Interval DEF Holders
    <3> QED BY <3>1, FS_Subset, FS_CardinalityType DEF h2
  <2> QED BY <2>1, <1>2, <1>3, <1>4, <1>5, <1>6, <1>7, <1>8, <1>9, <1>10, <1>11, <1>12, <1>13 DEF Move
<1>15. /\ Copies(c, n) = p + r + q + v + u + h
       /\ Copies(c, n)' = p2 + r2 + q2 + v2 + u2 + h2
  BY CopiesSum, CopiesSumNext DEF p, p2, r, r2, q, q2, v, v2, u, u2, h, h2
<1> QED BY <1>1, <1>14, <1>15

\* A notification that is sent is nowhere else.
LEMMA NewlySent ==
  ASSUME TypeInv, SentInv, SentInv', KeptInv, KeptInv', NEW c \in Streams, Move(c),
         NEW n \in 1 .. sent'[c], n \notin 1 .. sent[c]
  PROVE  Copies(c, n)' = 1
<1>0. sent[c] \in Nat /\ Kept(c) /\ sent[c] + 1 # 0
  BY Ranges DEF KeptInv, TypeInv, ServerType
<1>1. Sends(c) /\ sent'[c] = sent[c] + 1 /\ n = sent[c] + 1
  BY <1>0 DEF Move, Idles, Sends, TakesUp, Buffers, Forgets, Delivers, Discards, Loses, Hears, Begins,
     Replays, Reads
<1>2. \A q \in Seq(1 .. sent[c]) \cup Seq(0 .. sent[c]) : Times(n, q) = 0
  <2> SUFFICES ASSUME NEW q \in Seq(1 .. sent[c]) \cup Seq(0 .. sent[c]), NEW k \in DOMAIN q
               PROVE  q[k] # n
    BY TimesNone
  <2>1. q[k] \in 0 .. sent[c]
    BY <1>0
  <2> QED BY <1>0, <1>1, <2>1
<1>3. /\ Times(n, pending'[c]) = 0 /\ Times(n, replay'[c]) = 0 /\ Times(n, queue'[c]) = 0
      /\ Times(n, received'[c]) = 0
  BY <1>0, <1>1, <1>2 DEF Sends, Kept
<1>4. If(Unread(c, n)') = 1
  BY <1>1 DEF Sends, If
<1>5. Holders(c, n)' = {}
  BY <1>0, <1>1 DEF Sends, SameHands, Holders, Kept
<1>6. Cardinality(Holders(c, n)') = 0
  BY <1>5, FS_EmptySet
<1> QED BY <1>3, <1>4, <1>6, CopiesSumNext

NotifiedInv == TypeInv /\ SentInv /\ KeptInv /\ NotificationsOnce

LEMMA NotifiedNext ==
  ASSUME NotifiedInv, TypeInv', [Next]_vars
  PROVE  NotifiedInv'
<1>1. CASE Next
  <2>1. SentInv' /\ KeptInv' /\ \A c \in Streams : Move(c)
    BY <1>1, SentKept, KeptKept, Moves DEF NotifiedInv
  <2>2. ASSUME NEW c \in Streams, NEW n \in 1 .. sent'[c]
        PROVE  Copies(c, n)' <= 1 /\ (Copies(c, n)' = 0 => c \in dropped')
    <3>1. CASE n \in 1 .. sent[c]
      <4>1. Copies(c, n) <= 1 /\ (Copies(c, n) = 0 => c \in dropped)
        BY <3>1 DEF NotifiedInv, NotificationsOnce
      <4>2. /\ Copies(c, n) \in Nat /\ Copies(c, n)' \in Nat
            /\ Copies(c, n)' = Copies(c, n) \/ (Copies(c, n)' <= Copies(c, n) /\ c \in dropped')
        BY <2>1, <3>1, CopiesMove DEF NotifiedInv
      <4>3. c \in dropped => c \in dropped'
        BY <1>1, DroppedGrows
      <4> QED BY <4>1, <4>2, <4>3
    <3>2. CASE n \notin 1 .. sent[c]
      BY <2>1, <3>2, NewlySent DEF NotifiedInv
    <3> QED BY <3>1, <3>2
  <2>3. NotificationsOnce'
    BY <2>2 DEF NotificationsOnce
  <2> QED BY <2>1, <2>3 DEF NotifiedInv
<1>2. CASE UNCHANGED vars
  <2>1. /\ SentInv' /\ KeptInv'
    BY <1>2 DEF NotifiedInv, SentInv, InSequence, KeptInv, Kept, Early, InHand, vars, server, router, callers
  <2>2. \A c, n : Copies(c, n)' = Copies(c, n)
    BY <1>2 DEF Copies, Times, vars, server, router, callers
  <2>3. sent' = sent /\ dropped' = dropped
    BY <1>2 DEF vars, server
  <2>4. NotificationsOnce'
    BY <2>2, <2>3 DEF NotifiedInv, NotificationsOnce
  <2> QED BY <2>1, <2>4 DEF NotifiedInv
<1> QED BY <1>1, <1>2

LEMMA NotifiedAlways == Spec => []NotifiedInv
<1>1. Init => NotifiedInv
  <2> SUFFICES ASSUME Init
               PROVE  NotifiedInv
    OBVIOUS
  <2>1. NotificationsOnce
    <3>1. \A c \in Streams : sent[c] = 0 /\ 1 .. 0 = {}
      BY DEF Init
    <3> QED BY <3>1 DEF NotificationsOnce
  <2> QED BY <2>1, InitTyped, SentInitially DEF NotifiedInv
<1>2. NotifiedInv /\ TypeInv' /\ [Next]_vars => NotifiedInv'
  BY NotifiedNext
<1>3. Spec => []TypeInv
  BY OnceAlways, PTL
<1> QED BY <1>1, <1>2, <1>3, PTL DEF Spec

\* However registering, unregistering and fail_all interleave with the readers, no notification is
\* delivered twice, and none is lost but those the router drops, for any callers and sessions.
THEOREM NotificationsOnceHolds == Spec => []NotificationsOnce
<1>1. NotifiedInv => NotificationsOnce
  BY DEF NotifiedInv
<1> QED BY <1>1, NotifiedAlways, PTL

-----------------------------------------------------------------------------
(* DirectInOrder. *)

In(x, q) == \E k \in DOMAIN q : q[k] = x

\* Every element of a sequence and every later one are related.
Sorted(q, rel) == \A j \in DOMAIN q : \A i \in 1 .. j - 1 : <<q[i], q[j]>> \in rel

LEMMA InSteps ==
  ASSUME NEW S, NEW q \in Seq(S)
  PROVE  /\ \A y : ~In(y, <<>>)
         /\ \A y : In(y, q) => y \in S
         /\ \A x \in S : \A y : In(y, Append(q, x)) <=> In(y, q) \/ y = x
         /\ q # <<>> => In(Head(q), q) /\ \A y : In(y, Tail(q)) => In(y, q)
<1> DEFINE l == Len(q)
<1>1. l \in Nat /\ DOMAIN q = 1 .. l /\ \A k \in 1 .. l : q[k] \in S
  BY LenProperties
<1> HIDE DEF l
<1>2. ASSUME NEW x \in S, NEW y
      PROVE  In(y, Append(q, x)) <=> In(y, q) \/ y = x
  <2> DEFINE r == Append(q, x)
  <2>1. DOMAIN r = 1 .. l + 1 /\ r[l + 1] = x /\ \A k \in 1 .. l : r[k] = q[k]
    BY <1>1, AppendProperties DEF l
  <2> HIDE DEF r
  <2>2. In(y, r) <=> In(y, q) \/ y = x
    BY <1>1, <2>1 DEF In
  <2> QED BY <2>2 DEF r
<1>3. ASSUME q # <<>>
      PROVE  In(Head(q), q) /\ \A y : In(y, Tail(q)) => In(y, q)
  <2> DEFINE t == Tail(q)
  <2>1. l # 0 /\ Head(q) = q[1]
    BY <1>1, <1>3, EmptySeq DEF l
  <2>2. DOMAIN t = 1 .. l - 1 /\ \A k \in 1 .. l - 1 : t[k] = q[k + 1]
    BY <1>1, <1>3, <2>1, HeadTailProperties, LenProperties DEF l
  <2> HIDE DEF t
  <2>3. In(Head(q), q)
    BY <1>1, <2>1 DEF In
  <2>4. \A y : In(y, t) => In(y, q)
    BY <1>1, <2>1, <2>2 DEF In
  <2> QED BY <2>3, <2>4 DEF t
<1>4. (\A y : ~In(y, <<>>)) /\ \A y : In(y, q) => y \in S
  BY <1>1 DEF In
<1> QED BY <1>2, <1>3, <1>4

LEMMA SortedSteps ==
  ASSUME NEW S, NEW q \in Seq(S), NEW rel
  PROVE  /\ Sorted(<<>>, rel)
         /\ \A x \in S : Sorted(q, rel) /\ (\A y : In(y, q) => <<y, x>> \in rel)
                           => Sorted(Append(q, x), rel)
         /\ Sorted(q, rel) /\ q # <<>> =>
              Sorted(Tail(q), rel) /\ \A y : In(y, Tail(q)) => <<Head(q), y>> \in rel
         /\ \A other : Sorted(q, rel)
                       /\ (\A a, b : In(a, q) /\ In(b, q) /\ <<a, b>> \in rel => <<a, b>> \in other)
                         => Sorted(q, other)
<1> DEFINE l == Len(q)
<1>1. l \in Nat /\ DOMAIN q = 1 .. l
  BY LenProperties
<1> HIDE DEF l
<1>2. ASSUME NEW x \in S, Sorted(q, rel), \A y : In(y, q) => <<y, x>> \in rel
      PROVE  Sorted(Append(q, x), rel)
  <2> DEFINE r == Append(q, x)
  <2>1. DOMAIN r = 1 .. l + 1 /\ r[l + 1] = x /\ \A k \in 1 .. l : r[k] = q[k]
    BY <1>1, AppendProperties DEF l
  <2> HIDE DEF r
  <2> SUFFICES ASSUME NEW j \in 1 .. l + 1, NEW i \in 1 .. j - 1
               PROVE  <<r[i], r[j]>> \in rel
    BY <2>1 DEF Sorted, r
  <2>2. i \in 1 .. l /\ r[i] = q[i]
    BY <1>1, <2>1
  <2>3. CASE j = l + 1
    BY <1>1, <1>2, <2>1, <2>2, <2>3 DEF In
  <2>4. CASE j \in 1 .. l
    BY <1>1, <1>2, <2>1, <2>2, <2>4 DEF Sorted
  <2> QED BY <1>1, <2>3, <2>4
<1>3. ASSUME Sorted(q, rel), q # <<>>
      PROVE  Sorted(Tail(q), rel) /\ \A y : In(y, Tail(q)) => <<Head(q), y>> \in rel
  <2> DEFINE t == Tail(q)
  <2>1. l # 0 /\ Head(q) = q[1]
    BY <1>1, <1>3, EmptySeq DEF l
  <2>2. DOMAIN t = 1 .. l - 1 /\ \A k \in 1 .. l - 1 : t[k] = q[k + 1]
    BY <1>1, <1>3, <2>1, HeadTailProperties, LenProperties DEF l
  <2> HIDE DEF t
  <2>3. ASSUME NEW j \in 1 .. l - 1, NEW i \in 1 .. j - 1
        PROVE  <<t[i], t[j]>> \in rel
    <3>1. j + 1 \in DOMAIN q /\ i + 1 \in 1 .. (j + 1) - 1 /\ t[i] = q[i + 1] /\ t[j] = q[j + 1]
      BY <1>1, <2>1, <2>2
    <3> QED BY <1>3, <3>1 DEF Sorted
  <2>4. ASSUME NEW j \in 1 .. l - 1
        PROVE  <<q[1], t[j]>> \in rel
    <3>1. j + 1 \in DOMAIN q /\ 1 \in 1 .. (j + 1) - 1 /\ t[j] = q[j + 1]
      BY <1>1, <2>1, <2>2
    <3> QED BY <1>3, <3>1 DEF Sorted
  <2> QED BY <2>1, <2>2, <2>3, <2>4 DEF Sorted, In, t
<1>4. ASSUME NEW other, Sorted(q, rel),
             \A a, b : In(a, q) /\ In(b, q) /\ <<a, b>> \in rel => <<a, b>> \in other
      PROVE  Sorted(q, other)
  <2> SUFFICES ASSUME NEW j \in DOMAIN q, NEW i \in 1 .. j - 1
               PROVE  <<q[i], q[j]>> \in other
    BY DEF Sorted
  <2>1. i \in DOMAIN q
    BY <1>1
  <2> QED BY <1>4, <2>1 DEF Sorted, In
<1>5. Sorted(<<>>, rel)
  BY DEF Sorted
<1> QED BY <1>2, <1>3, <1>4, <1>5

Less == {p \in Nat \X Nat : p[1] < p[2]}
\* What DirectInOrder allows: a notification that was in pending may come after newer ones that
\* were not.
Ahead(c) ==
  {p \in Nat \X Nat : p[1] > p[2] /\ p[2] # Failure => <<c, p[2]>> \in buffered /\ <<c, p[1]>> \notin buffered}

Given(c, x) == In(x, received[c]) \/ In(x, queue[c])
GivenInOrder(c) ==
  /\ Sorted(received[c], Ahead(c)) /\ Sorted(queue[c], Ahead(c))
  /\ \A a, b : In(a, received[c]) /\ In(b, queue[c]) => <<a, b>> \in Ahead(c)
RestInOrder(c) ==
  /\ Sorted(replay[c], Less) /\ Sorted(pending[c], Less)
  /\ \A x : In(x, replay[c]) \/ In(x, pending[c]) => <<c, x>> \in buffered
  /\ \A x, y : In(x, replay[c]) /\ Given(c, y) /\ <<c, y>> \in buffered => y < x
HandsLater(c) ==
  \A s \in Sessions : \A n : InHand(s, c, n) =>
    <<c, n>> \notin buffered /\ \A y : Given(c, y) \/ In(y, replay[c]) => y < n
UnreadLater(c) ==
  \A n : Unread(c, n) =>
    /\ <<c, n>> \notin buffered
    /\ \A y : Given(c, y) \/ In(y, replay[c]) \/ In(y, pending[c]) => y < n
    /\ \A s \in Sessions : \A m : InHand(s, c, m) => m < n
Ordered(c) == GivenInOrder(c) /\ RestInOrder(c) /\ HandsLater(c) /\ UnreadLater(c)

BufferedInv == \A c \in Streams : \A n : <<c, n>> \in buffered => n \in 1 .. sent[c]
OrderInv == \A c \in TurnCallers : SoleReader(c) => Ordered(c)

LEMMA KeptNumbers ==
  ASSUME TypeInv, NEW c \in Streams, Kept(c)
  PROVE  /\ sent[c] \in Nat
         /\ \A x : In(x, pending[c]) \/ In(x, replay[c]) \/ In(x, received[c]) => x \in 1 .. sent[c]
         /\ \A x : In(x, queue[c]) \/ Given(c, x) => x \in 0 .. sent[c]
         /\ \A s \in Sessions : \A n : InHand(s, c, n) => n \in 1 .. sent[c]
<1>1. sent[c] \in Nat
  BY Ranges DEF TypeInv, ServerType
<1>2. \A q \in Seq(1 .. sent[c]) : \A x : In(x, q) => x \in 1 .. sent[c]
  BY InSteps
<1>3. \A q \in Seq(0 .. sent[c]) : \A x : In(x, q) => x \in 0 .. sent[c]
  BY InSteps
<1>4. \A x \in 1 .. sent[c] : x \in 0 .. sent[c]
  BY <1>1
<1> QED BY <1>1, <1>2, <1>3, <1>4 DEF Kept, Given

\* Whatever leaves the four sequences and what was buffered as they are.
LEMMA OrderSame ==
  ASSUME NEW c, UNCHANGED <<pending[c], replay[c], queue[c], received[c]>>, SameBuffered(c)
  PROVE  /\ (GivenInOrder(c)' <=> GivenInOrder(c)) /\ (RestInOrder(c)' <=> RestInOrder(c))
         /\ \A x : Given(c, x)' <=> Given(c, x)
<1>1. Ahead(c)' = Ahead(c)
  BY DEF SameBuffered, Ahead
<1>2. \A x : Given(c, x)' <=> Given(c, x)
  BY DEF Given, In
<1>3. GivenInOrder(c)' <=> GivenInOrder(c)
  BY <1>1 DEF GivenInOrder, Sorted, In
<1>4. RestInOrder(c)' <=> RestInOrder(c)
  BY <1>2 DEF RestInOrder, Sorted, In, SameBuffered, Less
<1> QED BY <1>2, <1>3, <1>4

\* Only one reader can hold notifications of a stream its server's sole reader reads.
LEMMA SoleHolder ==
  ASSUME NEW c \in Streams, Kept(c), SoleReader(c), sentIn[c] \in Nat, NEW s \in Sessions, NEW t \in Sessions,
         NEW m, NEW n, InHand(s, c, m), InHand(t, c, n)
  PROVE  s = t
<1> DEFINE T == {a \in 1 .. sentIn[c] : reader[a].on >= sentIn[c]}
<1>1. s \in T /\ t \in T
  BY Ranges DEF Kept
<1>2. T \in SUBSET (1 .. sentIn[c]) /\ IsFiniteSet(1 .. sentIn[c])
  BY FS_Interval
<1>3. IsFiniteSet(T) /\ Cardinality(T) \in Nat /\ Cardinality(T) <= 1
  BY <1>2, FS_Subset, FS_CardinalityType DEF SoleReader
<1> HIDE DEF T
<1>4. Cardinality(T) = 0 \/ Cardinality(T) = 1
  BY <1>3
<1> QED BY <1>1, <1>3, <1>4, FS_EmptySet, FS_Singleton

LEMMA OrderedMove ==
  ASSUME TypeInv, SentInv, KeptInv, BufferedInv, NEW c \in TurnCallers, Ordered(c), Move(c),
         SoleReader(c) \/ sent[c] = 0
  PROVE  Ordered(c)'
<1> c \in Streams /\ Kept(c) /\ Failure = 0
  BY Ranges DEF KeptInv
<1> DEFINE N == sent[c]
<1>0. N \in Nat
  BY KeptNumbers
<1>k. /\ \A x : In(x, pending[c]) \/ In(x, replay[c]) \/ In(x, received[c]) => x \in 1 .. N
      /\ \A x : In(x, queue[c]) \/ Given(c, x) => x \in 0 .. N
      /\ \A s \in Sessions : \A n : InHand(s, c, n) => n \in 1 .. N
      /\ \A n : <<c, n>> \in buffered => n \in 1 .. N
  BY KeptNumbers DEF BufferedInv
<1> DEFINE S1 == 1 .. N
           S0 == 0 .. N
<1>q. /\ pending[c] \in Seq(S1) /\ replay[c] \in Seq(S1)
      /\ queue[c] \in Seq(S0) /\ received[c] \in Seq(S1)
  BY DEF Kept
<1>i. \A x : (x \in S1 <=> x \in 1 .. N) /\ (x \in S0 <=> x \in 0 .. N)
  OBVIOUS
<1>o. GivenInOrder(c) /\ RestInOrder(c) /\ HandsLater(c) /\ UnreadLater(c)
  BY DEF Ordered
<1> HIDE DEF N, S1, S0
<1>1. CASE Idles(c)
  <2>1. GivenInOrder(c)' /\ RestInOrder(c)' /\ \A x : Given(c, x)' <=> Given(c, x)
    BY <1>1, <1>o, OrderSame DEF Idles
  <2>2. replay'[c] = replay[c] /\ pending'[c] = pending[c] /\ SameHands(c) /\ SameUnread(c) /\ SameBuffered(c)
    BY <1>1 DEF Idles
  <2>3. HandsLater(c)'
    BY <1>o, <2>1, <2>2 DEF HandsLater, SameHands, SameBuffered, In
  <2>4. UnreadLater(c)'
    BY <1>o, <2>1, <2>2 DEF UnreadLater, SameHands, SameUnread, SameBuffered, In
  <2> QED BY <2>1, <2>3, <2>4 DEF Ordered
<1>2. CASE Sends(c)
  <2>1. GivenInOrder(c)' /\ RestInOrder(c)' /\ \A x : Given(c, x)' <=> Given(c, x)
    BY <1>2, <1>o, OrderSame DEF Sends
  <2>2. /\ replay'[c] = replay[c] /\ pending'[c] = pending[c] /\ SameHands(c) /\ SameBuffered(c)
        /\ \A n : Unread(c, n)' <=> Unread(c, n) \/ n = N + 1
    BY <1>2 DEF Sends, N
  <2>3. HandsLater(c)'
    BY <1>o, <2>1, <2>2 DEF HandsLater, SameHands, SameBuffered, In
  <2>4. ASSUME NEW n, Unread(c, n)'
        PROVE  /\ <<c, n>> \notin buffered'
               /\ \A y : Given(c, y)' \/ In(y, replay'[c]) \/ In(y, pending'[c]) => y < n
               /\ \A s \in Sessions : \A m : InHand(s, c, m)' => m < n
    <3>1. CASE n = N + 1
      <4>1. \A y \in 0 .. N : y < n /\ y # N + 1
        BY <1>0, <3>1
      <4>2. \A y \in 1 .. N : y \in 0 .. N
        BY <1>0
      <4>3. <<c, n>> \notin buffered
        BY <1>0, <1>k, <3>1, <4>1, <4>2
      <4>4. \A y : Given(c, y) \/ In(y, replay[c]) \/ In(y, pending[c]) => y < n
        BY <1>k, <4>1, <4>2
      <4>5. \A s \in Sessions : \A m : InHand(s, c, m) => m < n
        BY <1>k, <4>1, <4>2
      <4> QED BY <2>1, <2>2, <4>3, <4>4, <4>5 DEF SameHands, SameBuffered, In
    <3>2. CASE Unread(c, n)
      BY <1>o, <2>1, <2>2, <3>2 DEF UnreadLater, SameHands, SameBuffered, In
    <3> QED BY <2>2, <2>4, <3>1, <3>2
  <2>5. UnreadLater(c)'
    BY <2>4 DEF UnreadLater, In
  <2> QED BY <2>1, <2>3, <2>5 DEF Ordered
<1>3. CASE TakesUp(c)
  <2>1. GivenInOrder(c)' /\ RestInOrder(c)' /\ \A x : Given(c, x)' <=> Given(c, x)
    BY <1>3, <1>o, OrderSame DEF TakesUp
  <2>2. replay'[c] = replay[c] /\ pending'[c] = pending[c] /\ SameBuffered(c)
    BY <1>3 DEF TakesUp
  <2>3. PICK s \in Sessions, n \in 1 .. sent[c] :
          /\ FirstRead(c, n)
          /\ \A t \in Sessions : \A m : InHand(t, c, m)' <=> InHand(t, c, m) \/ (t = s /\ m = n)
    BY <1>3 DEF TakesUp
  <2>4. /\ <<c, n>> \notin buffered
        /\ \A y : Given(c, y) \/ In(y, replay[c]) \/ In(y, pending[c]) => y < n
    BY <1>o, <2>3 DEF UnreadLater, FirstRead
  <2>5. HandsLater(c)'
    BY <1>o, <2>1, <2>2, <2>3, <2>4 DEF HandsLater, SameBuffered, In
  <2>6. UnreadLater(c)'
    BY <1>o, <2>1, <2>2, <2>3 DEF UnreadLater, FirstRead, SameBuffered, In
  <2> QED BY <2>1, <2>5, <2>6 DEF Ordered
<1>4. CASE Buffers(c)
  <2>1. PICK n \in 1 .. sent[c] :
          /\ FirstRead(c, n) /\ pending'[c] = Append(pending[c], n)
          /\ \A m : <<c, m>> \in buffered' <=> <<c, m>> \in buffered \/ m = n
    BY <1>4 DEF Buffers
  <2>2. replay'[c] = replay[c] /\ queue'[c] = queue[c] /\ received'[c] = received[c] /\ SameHands(c)
    BY <1>4 DEF Buffers
  <2>3. /\ <<c, n>> \notin buffered
        /\ \A y : Given(c, y) \/ In(y, replay[c]) \/ In(y, pending[c]) => y < n
        /\ \A s \in Sessions : \A m : InHand(s, c, m) => m < n
    BY <1>o, <2>1 DEF UnreadLater, FirstRead
  <2>4. n \in 1 .. N /\ n \in Nat /\ n \in S1
    BY <1>0 DEF N, S1
  <2>5. /\ \A x : In(x, pending'[c]) <=> In(x, pending[c]) \/ x = n
        /\ \A x : Given(c, x)' <=> Given(c, x)
    <3>1. \A x : In(x, pending'[c]) <=> In(x, pending[c]) \/ x = n
      BY <1>q, <2>1, <2>4, InSteps
    <3> QED BY <2>2, <3>1 DEF Given, In
  <2>6. \A a, b : Given(c, a) /\ Given(c, b) /\ <<a, b>> \in Ahead(c) => <<a, b>> \in Ahead(c)'
    <3> SUFFICES ASSUME NEW a, NEW b, Given(c, a), <<a, b>> \in Ahead(c)
                 PROVE  <<a, b>> \in Ahead(c)'
      OBVIOUS
    <3>1. a # n
      BY <1>0, <1>k, <2>3, <2>4
    <3> QED BY <2>1, <3>1 DEF Ahead
  <2>7. GivenInOrder(c)'
    <3>1. Sorted(received[c], Ahead(c)') /\ Sorted(queue[c], Ahead(c)')
      BY <1>o, <1>q, <2>6, SortedSteps DEF GivenInOrder, Given
    <3>2. \A a, b : In(a, received[c]) /\ In(b, queue[c]) => <<a, b>> \in Ahead(c)'
      BY <1>o, <2>6 DEF GivenInOrder, Given
    <3> QED BY <2>2, <3>1, <3>2 DEF GivenInOrder, Sorted, In
  <2>8. RestInOrder(c)'
    <3>1. Sorted(pending'[c], Less)
      <4>1. \A y : In(y, pending[c]) => <<y, n>> \in Less
        BY <1>0, <1>k, <2>3, <2>4 DEF Less
      <4>2. Sorted(pending[c], Less)
        BY <1>o DEF RestInOrder
      <4> QED BY <1>q, <2>1, <2>4, <4>1, <4>2, SortedSteps
    <3>2. Sorted(replay'[c], Less)
      BY <1>o, <2>2 DEF RestInOrder
    <3>3. \A x : In(x, replay'[c]) \/ In(x, pending'[c]) => <<c, x>> \in buffered'
      BY <1>o, <2>1, <2>2, <2>5 DEF RestInOrder
    <3>4. \A x, y : In(x, replay'[c]) /\ Given(c, y)' /\ <<c, y>> \in buffered' => y < x
      <4> SUFFICES ASSUME NEW x, NEW y, In(x, replay[c]), Given(c, y), <<c, y>> \in buffered'
                   PROVE  y < x
        BY <2>2, <2>5
      <4>1. y # n
        BY <1>0, <1>k, <2>3, <2>4
      <4> QED BY <1>o, <2>1, <4>1 DEF RestInOrder
    <3> QED BY <3>1, <3>2, <3>3, <3>4 DEF RestInOrder, Sorted, In, Less
  <2>9. HandsLater(c)'
    <3> SUFFICES ASSUME NEW s \in Sessions, NEW m, InHand(s, c, m)
                 PROVE  <<c, m>> \notin buffered' /\ \A y : Given(c, y)' \/ In(y, replay'[c]) => y < m
      BY <2>2 DEF HandsLater, SameHands, In
    <3>1. m # n
      BY <1>0, <1>k, <2>3, <2>4
    <3> QED BY <1>o, <2>1, <2>2, <2>5, <3>1 DEF HandsLater
  <2>10. UnreadLater(c)'
    <3> SUFFICES ASSUME NEW m, Unread(c, m)'
                 PROVE  /\ <<c, m>> \notin buffered'
                        /\ \A y : Given(c, y)' \/ In(y, replay'[c]) \/ In(y, pending'[c]) => y < m
                        /\ \A s \in Sessions : \A k : InHand(s, c, k)' => k < m
      BY DEF UnreadLater, In
    <3>1. Unread(c, m) /\ n < m /\ m # n
      BY <2>1 DEF FirstRead
    <3> QED BY <1>o, <2>1, <2>2, <2>5, <3>1 DEF UnreadLater, SameHands
  <2> QED BY <2>7, <2>8, <2>9, <2>10 DEF Ordered
<1>5. CASE Forgets(c) \/ Loses(c) \/ Discards(c)
  <2>1. /\ replay'[c] = replay[c] /\ queue'[c] = queue[c] /\ received'[c] = received[c] /\ SameBuffered(c)
        /\ pending'[c] = pending[c] \/ pending'[c] = <<>>
        /\ \A s \in Sessions : \A n : InHand(s, c, n)' => InHand(s, c, n)
        /\ \A n : Unread(c, n)' => Unread(c, n)
    BY <1>5 DEF Forgets, Loses, Discards, SameHands, SameUnread, FirstRead, LetGo
  <2>2. /\ \A x : In(x, pending'[c]) => In(x, pending[c])
        /\ \A x : Given(c, x)' <=> Given(c, x)
        /\ Ahead(c)' = Ahead(c)
    BY <2>1 DEF Given, In, SameBuffered, Ahead
  <2>3. GivenInOrder(c)'
    BY <1>o, <2>1, <2>2 DEF GivenInOrder, Sorted, In
  <2>4. RestInOrder(c)'
    <3>1. Sorted(pending'[c], Less)
      BY <1>o, <2>1 DEF RestInOrder, Sorted
    <3> QED BY <1>o, <2>1, <2>2, <3>1 DEF RestInOrder, SameBuffered, Sorted, In, Less
  <2>5. HandsLater(c)'
    BY <1>o, <2>1, <2>2 DEF HandsLater, SameBuffered, In
  <2>6. UnreadLater(c)'
    BY <1>o, <2>1, <2>2 DEF UnreadLater, SameBuffered, In
  <2> QED BY <2>3, <2>4, <2>5, <2>6 DEF Ordered
<1>6. CASE Delivers(c)
  <2>1. PICK s \in Sessions, n \in 1 .. sent[c] : LetGo(s, c, n) /\ queue'[c] = Append(queue[c], n)
    BY <1>6 DEF Delivers
  <2>2. /\ replay'[c] = replay[c] /\ pending'[c] = pending[c] /\ received'[c] = received[c]
        /\ SameUnread(c) /\ SameBuffered(c)
    BY <1>6 DEF Delivers
  <2>3. <<c, n>> \notin buffered /\ \A y : Given(c, y) \/ In(y, replay[c]) => y < n
    BY <1>o, <2>1 DEF LetGo, HandsLater
  <2>4. n \in 0 .. N /\ n \in Nat /\ n \in 1 .. N /\ n \in S0
    BY <1>0 DEF N, S0
  <2>5. /\ \A x : In(x, queue'[c]) <=> In(x, queue[c]) \/ x = n
        /\ \A x : Given(c, x)' <=> Given(c, x) \/ x = n
        /\ Ahead(c)' = Ahead(c)
    <3>1. \A x : In(x, queue'[c]) <=> In(x, queue[c]) \/ x = n
      BY <1>q, <2>1, <2>4, InSteps
    <3> QED BY <2>2, <3>1 DEF Given, Ahead, SameBuffered, In
  <2>6. \A y : Given(c, y) => <<y, n>> \in Ahead(c)
    <3> SUFFICES ASSUME NEW y, Given(c, y)
                 PROVE  <<y, n>> \in Ahead(c)
      OBVIOUS
    <3>1. y \in Nat /\ y < n
      BY <1>0, <1>k, <2>3
    <3> QED BY <2>4, <3>1 DEF Ahead
  <2>7. GivenInOrder(c)'
    <3>1. Sorted(queue'[c], Ahead(c))
      BY <1>o, <1>q, <2>1, <2>4, <2>6, SortedSteps DEF GivenInOrder, Given
    <3>2. \A a, b : In(a, received[c]) /\ In(b, queue'[c]) => <<a, b>> \in Ahead(c)
      BY <1>o, <2>5, <2>6 DEF GivenInOrder, Given
    <3> QED BY <1>o, <2>2, <2>5, <3>1, <3>2 DEF GivenInOrder, Sorted, In
  <2>8. RestInOrder(c)'
    BY <1>o, <2>2, <2>3, <2>5 DEF RestInOrder, Sorted, In, SameBuffered, Less
  <2>9. HandsLater(c)'
    <3>1. SoleReader(c)
      BY <2>1 DEF LetGo, Kept
    <3>2. sentIn[c] \in Nat
      BY Ranges DEF TypeInv, ServerType, CallerType
    <3>3. \A t \in Sessions : \A m : ~InHand(t, c, m)'
      BY <2>1, <3>1, <3>2, SoleHolder DEF LetGo
    <3> QED BY <3>3 DEF HandsLater
  <2>10. UnreadLater(c)'
    <3>1. \A m : Unread(c, m) => n < m
      BY <1>o, <2>1 DEF LetGo, UnreadLater
    <3> QED BY <1>o, <2>1, <2>2, <2>5, <3>1 DEF UnreadLater, SameUnread, SameBuffered, LetGo, In
  <2> QED BY <2>7, <2>8, <2>9, <2>10 DEF Ordered
<1>7. CASE Hears(c)
  <2>1. /\ replay'[c] = replay[c] /\ pending'[c] = pending[c] /\ received'[c] = received[c]
        /\ SameUnread(c) /\ SameBuffered(c) /\ SameHands(c) /\ queue'[c] = Append(queue[c], 0)
    BY <1>7 DEF Hears
  <2>2. 0 \in S0
    BY <1>0, <1>i
  <2>3. /\ \A x : In(x, queue'[c]) <=> In(x, queue[c]) \/ x = 0
        /\ \A x : Given(c, x)' <=> Given(c, x) \/ x = 0
        /\ Ahead(c)' = Ahead(c)
    <3>1. \A x : In(x, queue'[c]) <=> In(x, queue[c]) \/ x = 0
      BY <1>q, <2>1, <2>2, InSteps
    <3> QED BY <2>1, <3>1 DEF Given, Ahead, SameBuffered, In
  <2>4. \A y : Given(c, y) => <<y, 0>> \in Ahead(c)
    BY <1>0, <1>k DEF Ahead
  <2>5. GivenInOrder(c)'
    <3>1. Sorted(queue'[c], Ahead(c))
      BY <1>o, <1>q, <2>1, <2>2, <2>4, SortedSteps DEF GivenInOrder, Given
    <3>2. \A a, b : In(a, received[c]) /\ In(b, queue'[c]) => <<a, b>> \in Ahead(c)
      BY <1>o, <2>3, <2>4 DEF GivenInOrder, Given
    <3> QED BY <1>o, <2>1, <2>3, <3>1, <3>2 DEF GivenInOrder, Sorted, In
  <2>6. <<c, 0>> \notin buffered
    BY <1>0, <1>k
  <2>7. RestInOrder(c)'
    BY <1>o, <2>1, <2>3, <2>6 DEF RestInOrder, Sorted, In, SameBuffered, Less
  <2>8. HandsLater(c)'
    BY <1>o, <1>0, <1>k, <2>1, <2>3 DEF HandsLater, SameHands, SameBuffered, In
  <2>9. \A n : Unread(c, n) => 0 < n
    BY <1>0, UnreadSent DEF N, Unread
  <2>10. UnreadLater(c)'
    BY <1>o, <2>1, <2>3, <2>9 DEF UnreadLater, SameUnread, SameHands, SameBuffered, In
  <2> QED BY <2>5, <2>7, <2>8, <2>10 DEF Ordered
<1>8. CASE Begins(c)
  <2>1. /\ replay'[c] = pending[c] /\ pending'[c] = <<>> /\ queue'[c] = <<>> /\ received'[c] = received[c]
        /\ SameHands(c) /\ SameUnread(c) /\ SameBuffered(c) /\ Early(c)
    BY <1>8 DEF Begins
  <2>2. received[c] = <<>> /\ \A s \in Sessions : \A n : ~InHand(s, c, n)
    BY <2>1 DEF Kept
  <2>3. \A x : ~Given(c, x)' /\ ~In(x, pending'[c]) /\ ~In(x, queue'[c])
    BY <2>1, <2>2 DEF Given, In
  <2>4. GivenInOrder(c)'
    BY <2>1, <2>2 DEF GivenInOrder, Sorted, In
  <2>5. RestInOrder(c)'
    <3>0. Sorted(pending[c], Less)
      BY <1>o DEF RestInOrder
    <3>e. Sorted(<<>>, Less)
      BY DEF Sorted
    <3>1. Sorted(replay'[c], Less) /\ Sorted(pending'[c], Less)
      BY <2>1, <3>0, <3>e
    <3>2. \A x : In(x, replay'[c]) => <<c, x>> \in buffered'
      BY <1>o, <2>1 DEF RestInOrder, SameBuffered
    <3> QED BY <2>3, <3>1, <3>2 DEF RestInOrder, Sorted, In, Less
  <2>6. HandsLater(c)'
    BY <2>1, <2>2 DEF HandsLater, SameHands
  <2>7. UnreadLater(c)'
    BY <1>o, <2>1, <2>2, <2>3 DEF UnreadLater, SameUnread, SameHands, SameBuffered, In
  <2> QED BY <2>4, <2>5, <2>6, <2>7 DEF Ordered
<1>9. CASE Replays(c)
  <2> DEFINE x == Head(replay[c])
  <2>1. /\ pending'[c] = pending[c] /\ received'[c] = received[c] /\ replay[c] # <<>>
        /\ SameHands(c) /\ SameUnread(c) /\ SameBuffered(c)
        /\ queue'[c] = Append(queue[c], x) /\ replay'[c] = Tail(replay[c])
    BY <1>9 DEF Replays
  <2>2. In(x, replay[c]) /\ \A y : In(y, replay'[c]) => In(y, replay[c])
    BY <1>q, <2>1, InSteps
  <2>3. Sorted(replay'[c], Less) /\ \A y : In(y, replay'[c]) => <<x, y>> \in Less
    BY <1>o, <1>q, <2>1, SortedSteps DEF RestInOrder
  <2> HIDE DEF x
  <2>4. x \in 1 .. N /\ x \in 0 .. N /\ x \in Nat /\ x \in S0
    BY <1>0, <1>i, <1>k, <2>2
  <2>5. <<c, x>> \in buffered /\ \A y : Given(c, y) /\ <<c, y>> \in buffered => y < x
    BY <1>o, <2>2 DEF RestInOrder
  <2>6. \A y : Given(c, y) => <<y, x>> \in Ahead(c)
    <3> SUFFICES ASSUME NEW y, Given(c, y)
                 PROVE  <<y, x>> \in Ahead(c)
      OBVIOUS
    <3>1. y \in Nat /\ (<<c, y>> \in buffered => ~(y > x))
      BY <1>0, <1>k, <2>4, <2>5
    <3> QED BY <2>4, <2>5, <3>1 DEF Ahead
  <2>7. /\ \A y : In(y, queue'[c]) <=> In(y, queue[c]) \/ y = x
        /\ \A y : Given(c, y)' <=> Given(c, y) \/ y = x
        /\ Ahead(c)' = Ahead(c)
    <3>1. \A y : In(y, queue'[c]) <=> In(y, queue[c]) \/ y = x
      BY <1>q, <2>1, <2>4, InSteps
    <3> QED BY <2>1, <3>1 DEF Given, Ahead, SameBuffered, In
  <2>8. GivenInOrder(c)'
    <3>1. Sorted(queue'[c], Ahead(c))
      BY <1>o, <1>q, <2>1, <2>4, <2>6, SortedSteps DEF GivenInOrder, Given
    <3>2. \A a, b : In(a, received[c]) /\ In(b, queue'[c]) => <<a, b>> \in Ahead(c)
      BY <1>o, <2>6, <2>7 DEF GivenInOrder, Given
    <3> QED BY <1>o, <2>1, <2>7, <3>1, <3>2 DEF GivenInOrder, Sorted, In
  <2>9. RestInOrder(c)'
    <3>1. Sorted(pending'[c], Less) /\ \A y : In(y, pending'[c]) <=> In(y, pending[c])
      BY <1>o, <2>1 DEF RestInOrder
    <3>2. \A y, z : In(y, replay'[c]) /\ Given(c, z)' /\ <<c, z>> \in buffered => z < y
      <4> SUFFICES ASSUME NEW y, NEW z, In(y, replay'[c]), Given(c, z)', <<c, z>> \in buffered
                   PROVE  z < y
        OBVIOUS
      <4>1. CASE z = x
        BY <2>3, <4>1 DEF Less
      <4>2. CASE Given(c, z)
        BY <1>o, <2>2, <4>2 DEF RestInOrder
      <4> QED BY <2>7, <4>1, <4>2
    <3>3. \A y : In(y, replay'[c]) \/ In(y, pending'[c]) => <<c, y>> \in buffered
      BY <1>o, <2>2, <3>1 DEF RestInOrder
    <3> QED BY <2>1, <2>3, <3>1, <3>2, <3>3 DEF RestInOrder, SameBuffered, Sorted, In, Less
  <2>10. HandsLater(c)'
    BY <1>o, <2>1, <2>2, <2>7 DEF HandsLater, SameHands, SameBuffered, In
  <2>11. UnreadLater(c)'
    BY <1>o, <2>1, <2>2, <2>7 DEF UnreadLater, SameUnread, SameHands, SameBuffered, In
  <2> QED BY <2>8, <2>9, <2>10, <2>11 DEF Ordered
<1>10. CASE Reads(c)
  <2> DEFINE x == Head(queue[c])
  <2>1. /\ pending'[c] = pending[c] /\ replay'[c] = replay[c] /\ queue[c] # <<>>
        /\ SameHands(c) /\ SameUnread(c) /\ SameBuffered(c)
        /\ queue'[c] = Tail(queue[c])
        /\ received'[c] = IF x = 0 THEN received[c] ELSE Append(received[c], x)
    BY <1>10 DEF Reads
  <2>2. In(x, queue[c]) /\ \A y : In(y, queue'[c]) => In(y, queue[c])
    BY <1>q, <2>1, InSteps
  <2>3. Sorted(queue'[c], Ahead(c)) /\ \A y : In(y, queue'[c]) => <<x, y>> \in Ahead(c)
    BY <1>o, <1>q, <2>1, SortedSteps DEF GivenInOrder
  <2> HIDE DEF x
  <2>4. x \in 0 .. N /\ (x # 0 => x \in S1)
    BY <1>0, <1>i, <1>k, <2>2
  <2>5. \A y : In(y, received'[c]) => In(y, received[c]) \/ y = x
    <3>1. \A z \in S1 : \A y : In(y, Append(received[c], z)) <=> In(y, received[c]) \/ y = z
      BY <1>q, InSteps
    <3> QED BY <2>1, <2>4, <3>1
  <2>6. (\A y : Given(c, y)' => Given(c, y)) /\ Ahead(c)' = Ahead(c)
    BY <2>1, <2>2, <2>5 DEF Given, Ahead, SameBuffered, In
  <2>7. GivenInOrder(c)'
    <3>1. Sorted(received'[c], Ahead(c))
      <4>1. CASE x = 0
        BY <1>o, <2>1, <4>1 DEF GivenInOrder
      <4>2. CASE x # 0
        <5>1. \A y : In(y, received[c]) => <<y, x>> \in Ahead(c)
          BY <1>o, <2>2 DEF GivenInOrder
        <5> QED BY <1>o, <1>q, <2>1, <2>4, <4>2, <5>1, SortedSteps DEF GivenInOrder
      <4> QED BY <4>1, <4>2
    <3>2. \A a, b : In(a, received'[c]) /\ In(b, queue'[c]) => <<a, b>> \in Ahead(c)
      BY <1>o, <2>2, <2>3, <2>5 DEF GivenInOrder
    <3> QED BY <2>3, <2>6, <3>1, <3>2 DEF GivenInOrder, Sorted, In
  <2>8. RestInOrder(c)'
    BY <1>o, <2>1, <2>6 DEF RestInOrder, Sorted, In, SameBuffered, Less
  <2>9. HandsLater(c)'
    BY <1>o, <2>1, <2>6 DEF HandsLater, SameHands, SameBuffered, In
  <2>10. UnreadLater(c)'
    BY <1>o, <2>1, <2>6 DEF UnreadLater, SameUnread, SameHands, SameBuffered, In
  <2> QED BY <2>7, <2>8, <2>9, <2>10 DEF Ordered
<1> QED BY <1>1, <1>2, <1>3, <1>4, <1>5, <1>6, <1>7, <1>8, <1>9, <1>10 DEF Move

\* A stream of which nothing was sent is in order.
LEMMA NothingSent ==
  ASSUME TypeInv, SentInv, KeptInv, BufferedInv, NEW c \in Streams, sent[c] = 0
  PROVE  Ordered(c)
<1> Kept(c) /\ Failure = 0
  BY Ranges DEF KeptInv
<1>1. \A x : ~(x \in 1 .. sent[c]) /\ (x \in 0 .. sent[c] => x = 0)
  OBVIOUS
<1>2. /\ \A x : ~In(x, pending[c]) /\ ~In(x, replay[c]) /\ ~In(x, received[c])
      /\ \A x : In(x, queue[c]) \/ Given(c, x) => x = 0
      /\ \A s \in Sessions : \A n : ~InHand(s, c, n)
  BY <1>1, KeptNumbers
<1>3. \A n : ~Unread(c, n)
  BY <1>1, UnreadSent DEF Unread, Notice
<1>4. <<0, 0>> \in Ahead(c)
  BY DEF Ahead
<1>5. Sorted(received[c], Ahead(c)) /\ Sorted(replay[c], Less) /\ Sorted(pending[c], Less)
  BY <1>2 DEF Sorted, In
<1>6. Sorted(queue[c], Ahead(c))
  <2> SUFFICES ASSUME NEW j \in DOMAIN queue[c], NEW i \in 1 .. j - 1
               PROVE  <<queue[c][i], queue[c][j]>> \in Ahead(c)
    BY DEF Sorted
  <2> DEFINE q == queue[c]
             l == Len(q)
  <2>1. l \in Nat /\ DOMAIN q = 1 .. l
    BY LenProperties DEF Kept
  <2>2. i \in DOMAIN q
    BY <2>1
  <2> QED BY <1>2, <1>4, <2>2 DEF In
<1>7. GivenInOrder(c)
  BY <1>2, <1>5, <1>6 DEF GivenInOrder
<1>8. RestInOrder(c) /\ HandsLater(c) /\ UnreadLater(c)
  BY <1>2, <1>3, <1>5 DEF RestInOrder, HandsLater, UnreadLater
<1> QED BY <1>7, <1>8 DEF Ordered

OrderedInv == TypeInv /\ SentInv /\ KeptInv /\ BufferedInv /\ OrderInv

LEMMA BufferedKept ==
  ASSUME TypeInv, BufferedInv, \A c \in Streams : Move(c)
  PROVE  BufferedInv'
<1> SUFFICES ASSUME NEW c \in Streams, NEW n, <<c, n>> \in buffered'
             PROVE  n \in 1 .. sent'[c]
  BY DEF BufferedInv
<1>1. sent[c] \in Nat /\ Move(c)
  BY Ranges DEF TypeInv, ServerType
<1>2. n \in 1 .. sent[c]
  BY <1>1 DEF BufferedInv, Move, Idles, Sends, TakesUp, Buffers, Forgets, Delivers, Discards, Loses, Hears,
     Begins, Replays, Reads, SameBuffered
<1>3. sent'[c] = sent[c] \/ sent'[c] = sent[c] + 1
  BY <1>1 DEF Move, Idles, Sends, TakesUp, Buffers, Forgets, Delivers, Discards, Loses, Hears, Begins,
     Replays, Reads
<1> QED BY <1>1, <1>2, <1>3

\* Readers do not go back: what is read by one thread only was so before.
LEMMA SoleBefore ==
  ASSUME TypeInv, Next, NEW c \in Streams, sentIn'[c] = sentIn[c], SoleReader(c)'
  PROVE  SoleReader(c)
<1> DEFINE k == sentIn[c]
           T == {a \in 1 .. k : reader[a].on >= k}
           U == {a \in 1 .. k : reader'[a].on >= k}
<1>1. k \in 0 .. MaxSessions /\ 1 .. k \subseteq Sessions /\ IsFiniteSet(1 .. k)
  <2>1. k \in 0 .. session /\ session \in 0 .. MaxSessions /\ MaxSessions \in Nat
    BY Ranges DEF TypeInv, CallerType, ServerType
  <2>2. k \in 0 .. MaxSessions /\ k \in Nat
    BY <2>1
  <2> HIDE DEF k
  <2>3. 1 .. k \subseteq Sessions
    BY <2>1, <2>2, Ranges
  <2>4. IsFiniteSet(1 .. k)
    BY <2>2, FS_Interval
  <2> QED BY <2>2, <2>3, <2>4
<1>2. \A a \in 1 .. k : reader[a].on \in Nat /\ reader'[a].on \in Int /\ reader[a].on <= reader'[a].on
  <2> SUFFICES ASSUME NEW a \in 1 .. k
               PROVE  reader[a].on \in Nat /\ reader'[a].on \in Int /\ reader[a].on <= reader'[a].on
    OBVIOUS
  <2>1. a \in Sessions /\ reader[a].on \in Nat /\ session \in Nat
    BY <1>1, Ranges DEF TypeInv, ReaderType, ServerType
  <2>2. /\ reader[a].on <= reader'[a].on
        /\ reader'[a].on = reader[a].on \/ reader'[a].on = session
    BY <2>1, ReadersMove
  <2> QED BY <2>1, <2>2
<1>3. Cardinality(U) <= 1
  BY DEF SoleReader
<1> HIDE DEF k
<1>4. T \in SUBSET U /\ U \in SUBSET (1 .. k)
  BY <1>1, <1>2
<1> HIDE DEF T, U
<1>5. IsFiniteSet(U) /\ Cardinality(U) \in Nat
  BY <1>1, <1>4, FS_Subset, FS_CardinalityType
<1>6. Cardinality(T) \in Nat /\ Cardinality(T) <= Cardinality(U)
  BY <1>4, <1>5, FS_Subset, FS_CardinalityType
<1>7. Cardinality(T) <= 1
  BY <1>3, <1>5, <1>6
<1> QED BY <1>7 DEF SoleReader, T, k

LEMMA OrderedNext ==
  ASSUME OrderedInv, TypeInv', SentInv', KeptInv', [Next]_vars
  PROVE  OrderedInv'
<1>1. CASE Next
  <2>1. \A c \in Streams : Move(c)
    BY <1>1, Moves DEF OrderedInv
  <2>2. BufferedInv'
    BY <2>1, BufferedKept DEF OrderedInv
  <2>3. ASSUME NEW c \in TurnCallers, SoleReader(c)'
        PROVE  Ordered(c)'
    <3>0. c \in Streams /\ Streams \subseteq Callers
      BY Ranges
    <3>1. CASE sentIn'[c] = sentIn[c]
      <4>1. SoleReader(c)
        BY <1>1, <2>3, <3>0, <3>1, SoleBefore DEF OrderedInv
      <4>2. Ordered(c)
        BY <4>1 DEF OrderedInv, OrderInv
      <4> QED BY <2>1, <3>0, <4>1, <4>2, OrderedMove DEF OrderedInv
    <3>2. CASE sentIn'[c] # sentIn[c]
      <4>1. pc[c] = "write"
        BY <1>1, <3>0, <3>2, CallersMove DEF OrderedInv
      <4>2. sent[c] = 0
        BY <3>0, <4>1 DEF OrderedInv, SentInv
      <4>3. Ordered(c)
        BY <3>0, <4>2, NothingSent DEF OrderedInv
      <4> QED BY <2>1, <3>0, <4>2, <4>3, OrderedMove DEF OrderedInv
    <3> QED BY <3>1, <3>2
  <2>4. OrderInv'
    BY <2>3 DEF OrderInv
  <2> QED BY <2>2, <2>4 DEF OrderedInv
<1>2. CASE UNCHANGED vars
  <2>1. BufferedInv'
    BY <1>2 DEF OrderedInv, BufferedInv, vars, server
  <2>2. ASSUME NEW c
        PROVE  Ordered(c) => Ordered(c)'
    <3>1. UNCHANGED <<pending[c], replay[c], queue[c], received[c]>> /\ SameBuffered(c)
      BY <1>2 DEF vars, router, callers, SameBuffered
    <3>2. /\ (GivenInOrder(c)' <=> GivenInOrder(c)) /\ (RestInOrder(c)' <=> RestInOrder(c))
          /\ \A x : Given(c, x)' <=> Given(c, x)
      BY <3>1, OrderSame
    <3>3. SameHands(c) /\ SameUnread(c)
      BY <1>2 DEF vars, server, SameHands, SameUnread, InHand, Unread, Notice
    <3>4. HandsLater(c) => HandsLater(c)'
      BY <3>1, <3>2, <3>3 DEF HandsLater, SameHands, SameBuffered, In
    <3>5. UnreadLater(c) => UnreadLater(c)'
      BY <3>1, <3>2, <3>3 DEF UnreadLater, SameHands, SameUnread, SameBuffered, In
    <3> QED BY <3>2, <3>4, <3>5 DEF Ordered
  <2>3. \A c : SoleReader(c)' <=> SoleReader(c)
    BY <1>2 DEF SoleReader, vars, callers
  <2>4. OrderInv'
    BY <2>2, <2>3 DEF OrderedInv, OrderInv
  <2> QED BY <2>1, <2>4 DEF OrderedInv
<1> QED BY <1>1, <1>2

\* What was taken from the queue followed by what is in it.
LEMMA OrderedGiven ==
  ASSUME KeptInv, OrderInv
  PROVE  DirectInOrder
<1> Failure = 0
  BY Ranges
<1> SUFFICES ASSUME NEW c \in TurnCallers, SoleReader(c),
                    NEW j \in DOMAIN (received[c] \o queue[c]), NEW i \in 1 .. j - 1
             PROVE  LET given == received[c] \o queue[c] IN
                    (given[j] /= Failure /\ given[i] > given[j]) =>
                       <<c, given[j]>> \in buffered /\ <<c, given[i]>> \notin buffered
  BY DEF DirectInOrder
<1> c \in Streams
  BY Ranges
<1> DEFINE v == received[c]
           q == queue[c]
           given == v \o q
           N == sent[c]
           S == 0 .. N
           a == given[i]
           b == given[j]
<1>1. v \in Seq(S) /\ q \in Seq(S)
  <2>1. v \in Seq(1 .. N) /\ q \in Seq(S)
    BY DEF KeptInv, Kept
  <2>2. 1 .. N \subseteq S
    OBVIOUS
  <2> DEFINE T == 1 .. N
  <2>3. v \in Seq(T) /\ T \subseteq S
    BY <2>1, <2>2
  <2> HIDE DEF v, S, T
  <2>4. Seq(T) \subseteq Seq(S)
    BY <2>3
  <2> QED BY <2>1, <2>3, <2>4
<1>2. GivenInOrder(c)
  BY DEF OrderInv, Ordered
<1>3. Sorted(v, Ahead(c)) /\ Sorted(q, Ahead(c)) /\ \A x, y : In(x, v) /\ In(y, q) => <<x, y>> \in Ahead(c)
  BY <1>2 DEF GivenInOrder
<1> HIDE DEF S, v, q
<1>4. Len(v) \in Nat /\ Len(q) \in Nat /\ DOMAIN v = 1 .. Len(v) /\ DOMAIN q = 1 .. Len(q)
  BY <1>1, LenProperties
<1>5. given \in Seq(S) /\ Len(given) = Len(v) + Len(q) /\ DOMAIN given = 1 .. Len(v) + Len(q)
  BY <1>1, <1>4, ConcatProperties, LenProperties
<1>6. \A k \in 1 .. Len(v) + Len(q) : given[k] = IF k <= Len(v) THEN v[k] ELSE q[k - Len(v)]
  BY <1>1, ConcatProperties
<1>7. j \in DOMAIN given
  BY DEF v, q
<1> DEFINE m == Len(v)
           n == Len(q)
<1>8. m \in Nat /\ n \in Nat /\ j \in 1 .. m + n /\ DOMAIN v = 1 .. m /\ DOMAIN q = 1 .. n
      /\ \A k \in 1 .. m + n : given[k] = IF k <= m THEN v[k] ELSE q[k - m]
  BY <1>4, <1>5, <1>6, <1>7
<1> HIDE DEF m, n, given
<1>9. i \in 1 .. m + n /\ j \in Int /\ i \in Int /\ i < j
  BY <1>8
<1>10. <<a, b>> \in Ahead(c)
  <2>1. CASE j <= m
    <3>1. b = v[j] /\ a = v[i] /\ j \in DOMAIN v
      BY <1>8, <1>9, <2>1
    <3> HIDE DEF a, b
    <3> QED BY <1>3, <3>1 DEF Sorted
  <2>2. CASE i > m
    <3>1. b = q[j - m] /\ a = q[i - m] /\ j - m \in DOMAIN q /\ i - m \in 1 .. (j - m) - 1
      BY <1>8, <1>9, <2>2
    <3> HIDE DEF a, b
    <3> QED BY <1>3, <3>1 DEF Sorted
  <2>3. CASE i <= m /\ j > m
    <3>1. b = q[j - m] /\ a = v[i] /\ j - m \in DOMAIN q /\ i \in DOMAIN v
      BY <1>8, <1>9, <2>3
    <3>2. In(a, v) /\ In(b, q)
      BY <3>1 DEF In
    <3> HIDE DEF a, b
    <3> QED BY <1>3, <3>2
  <2> QED BY <1>8, <1>9, <2>1, <2>2, <2>3
<1> HIDE DEF a, b
<1>11. b # Failure /\ a > b => <<c, b>> \in buffered /\ <<c, a>> \notin buffered
  BY <1>10 DEF Ahead
<1> QED BY <1>11 DEF a, b, given, v, q

LEMMA OrderedAlways == Spec => []OrderedInv
<1>1. Init => OrderedInv
  <2> SUFFICES ASSUME Init
               PROVE  OrderedInv
    OBVIOUS
  <2>1. TypeInv /\ SentInv /\ KeptInv
    BY InitTyped, SentInitially
  <2>2. BufferedInv /\ \A c \in Streams : sent[c] = 0
    BY DEF Init, BufferedInv
  <2>3. OrderInv
    BY <2>1, <2>2, Ranges, NothingSent DEF OrderInv
  <2> QED BY <2>1, <2>2, <2>3 DEF OrderedInv
<1>2. OrderedInv /\ TypeInv' /\ SentInv' /\ KeptInv' /\ [Next]_vars => OrderedInv'
  BY OrderedNext
<1>3. NotifiedInv => TypeInv /\ SentInv /\ KeptInv
  BY DEF NotifiedInv
<1>4. Spec => [](TypeInv /\ SentInv /\ KeptInv)
  BY <1>3, NotifiedAlways, PTL
<1> QED BY <1>1, <1>2, <1>4, PTL DEF Spec

\* While one thread only has read a turn's app-server, its events come out of the queue in the order
\* they were sent but for those register_turn replays, for any callers and sessions.
THEOREM DirectInOrderHolds == Spec => []DirectInOrder
<1>1. OrderedInv => DirectInOrder
  BY OrderedGiven DEF OrderedInv
<1> QED BY <1>1, OrderedAlways, PTL

=============================================================================
