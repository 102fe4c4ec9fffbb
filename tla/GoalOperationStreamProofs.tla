----------------------- MODULE GoalOperationStreamProofs -----------------------
(***************************************************************************)
(* What holds of the logical streams of GoalOperation for any number of    *)
(* goals, other callers, turns and faults: ConsumerNotStranded and         *)
(* OneLogicalTurn.  The reader's _GoalOperationState and the consumer's    *)
(* _GoalStreamCursor are moved on by the same notifications at different   *)
(* times; the invariant says the queue between them makes up for the       *)
(* difference, which needs that a turn's end is the next on its way after  *)
(* its start, and that a goal hears of no end of an own turn unannounced.  *)
(* On top of it CancelStops: a pause and one or two interrupts, answered   *)
(* in order, stop a caller's goal and whichever of its turns still runs.   *)
(***************************************************************************)
EXTENDS GoalOperationProofs

-----------------------------------------------------------------------------
(* The cursor of a consumer and the reader's state. *)

\* How a notification moves the consumer's cursor on.
Advanced(cur, msg) ==
  CASE msg.kind = "started" ->
         [cur EXCEPT !.active = TRUE, !.started = IF @ = 0 THEN msg.n ELSE @]
    [] msg.kind = "completed" -> [cur EXCEPT !.active = FALSE, !.last = msg.n]
    [] msg.kind = "goal" /\ msg.status = "cleared" -> [cur EXCEPT !.cleared = TRUE]
    [] msg.kind = "goal" /\ msg.status # "cleared" ->
         [cur EXCEPT !.status = msg.status, !.cleared = @ /\ msg.status # "active"]
    [] msg.kind = "failure" -> cur

\* The cursor and the reader's state say the same of the goal.
Agrees(st, cur) ==
  /\ cur.status = st.status /\ cur.cleared = st.cleared /\ cur.started = st.started
  /\ cur.last = st.completed /\ (cur.active <=> st.current # 0)

\* The turn announced first is n; a turn that completed before any was announced is in F.
Announces(cur, n, F) == cur.started \in {0, n} /\ (cur.started = 0 /\ cur.last # 0 => cur.last \in F)

\* The cursors a consumer comes through while it takes the queue q.
Path(h, cur, q) ==
  /\ h \in [0 .. Len(q) -> Cursors] /\ h[0] = cur
  /\ \A k \in 1 .. Len(q) : h[k] = Advanced(h[k - 1], q[k])

\* Having taken what is queued, the consumer will know what the reader knows.
Faithful(st, cur, F) ==
  \E h : /\ Path(h, cur, st.queue) /\ Agrees(st, h[Len(st.queue)])
         /\ \A k \in 0 .. Len(st.queue) : Announces(h[k], st.started, F)

SameView(st, st2) ==
  /\ st2.status = st.status /\ st2.cleared = st.cleared /\ st2.started = st.started
  /\ st2.completed = st.completed /\ st2.current = st.current

LEMMA KindsOfLines ==
  /\ \A x \in StartedLines : x.kind = "started" /\ x.n \in Turns
  /\ \A x \in EndedLines : x.kind = "completed" /\ x.n \in Turns
                           /\ x.status \in {"completed", "failed", "interrupted"}
  /\ \A x \in GoalLines : x.kind = "goal" /\ x.status \in Status \cup {"cleared"}
  /\ \A x \in Turns : x # 0 /\ x \in Upto
  /\ \A x \in Queued : x \in Notices \/ x.kind = "failure"
  /\ \A x \in Notices : x \in StartedLines \/ x \in EndedLines \/ x \in GoalLines
  /\ \A x \in Notices : x \in Queued /\ x.kind # "failure" /\ x.kind # "answer"
BY Numbers DEF StartedLines, EndedLines, GoalLines, Queued, Notices, Turns

LEMMA AdvancedTyped ==
  ASSUME NEW cur \in Cursors, NEW msg \in Queued
  PROVE  Advanced(cur, msg) \in Cursors
<1> USE KindsOfLines DEF Cursors, Advanced
<1>1. CASE msg \in StartedLines
  BY <1>1
<1>2. CASE msg \in EndedLines
  BY <1>2
<1>3. CASE msg \in GoalLines
  <2>1. CASE msg.status = "cleared"
    BY <1>3, <2>1
  <2>2. CASE msg.status # "cleared"
    BY <1>3, <2>2
  <2> QED BY <2>1, <2>2
<1>4. CASE msg.kind = "failure"
  BY <1>4
<1> QED BY <1>1, <1>2, <1>3, <1>4

\* What a notification changes in the state, field by field.
LEMMA ToldFields ==
  ASSUME NEW st \in States, NEW msg \in Notices
  PROVE  LET new == Told(st, msg) IN
         /\ new \in States
         /\ new.finished = st.finished /\ new.failure = st.failure /\ new.routing = st.routing
         /\ new.queue = st.queue
         /\ new.started = IF msg.kind = "started" /\ st.started = 0 THEN msg.n ELSE st.started
         /\ new.completed = IF msg.kind = "completed" THEN msg.n ELSE st.completed
         /\ new.current = CASE msg.kind = "started" -> msg.n
                            [] msg.kind = "completed" -> IF st.current = msg.n THEN 0 ELSE st.current
                            [] msg.kind = "goal" -> st.current
         /\ new.status = IF msg.kind = "goal" /\ msg.status # "cleared" THEN msg.status ELSE st.status
         /\ new.cleared = IF msg.kind # "goal" THEN st.cleared
                          ELSE msg.status = "cleared" \/ (st.cleared /\ msg.status # "active")
<1> USE KindsOfLines DEF States, Told
<1>0. Told(st, msg) \in States
  BY ToldTyped
<1>1. CASE msg \in StartedLines
  BY <1>0, <1>1
<1>2. CASE msg \in EndedLines
  BY <1>0, <1>2
<1>3. CASE msg \in GoalLines
  <2>1. CASE msg.status = "cleared"
    BY <1>0, <1>3, <2>1
  <2>2. CASE msg.status # "cleared"
    BY <1>0, <1>3, <2>2
  <2> QED BY <2>1, <2>2
<1> QED BY <1>1, <1>2, <1>3

LEMMA AdvancedFields ==
  ASSUME NEW cur \in Cursors, NEW msg \in Notices
  PROVE  LET new == Advanced(cur, msg) IN
         /\ new.started = IF msg.kind = "started" /\ cur.started = 0 THEN msg.n ELSE cur.started
         /\ new.last = IF msg.kind = "completed" THEN msg.n ELSE cur.last
         /\ new.active = CASE msg.kind = "started" -> TRUE
                           [] msg.kind = "completed" -> FALSE
                           [] msg.kind = "goal" -> cur.active
         /\ new.status = IF msg.kind = "goal" /\ msg.status # "cleared" THEN msg.status ELSE cur.status
         /\ new.cleared = IF msg.kind # "goal" THEN cur.cleared
                          ELSE msg.status = "cleared" \/ (cur.cleared /\ msg.status # "active")
<1> USE KindsOfLines DEF Cursors, Advanced
<1>1. CASE msg \in StartedLines
  BY <1>1
<1>2. CASE msg \in EndedLines
  BY <1>2
<1>3. CASE msg \in GoalLines
  <2>1. CASE msg.status = "cleared"
    BY <1>3, <2>1
  <2>2. CASE msg.status # "cleared"
    BY <1>3, <2>2
  <2> QED BY <2>1, <2>2
<1> QED BY <1>1, <1>2, <1>3

\* The reader and the consumer make the same of a notification, provided a turn that completes
\* is the one under way, and one that was not announced is in F.
LEMMA BothMoveOn ==
  ASSUME NEW st \in States, NEW cur \in Cursors, NEW msg \in Notices, NEW F,
         Agrees(st, cur), Announces(cur, st.started, F),
         msg.kind = "completed" => st.current \in {0, msg.n} /\ (st.started # 0 \/ msg.n \in F)
  PROVE  /\ Agrees(Told(st, msg), Advanced(cur, msg))
         /\ Announces(Advanced(cur, msg), Told(st, msg).started, F)
<1> DEFINE new == Told(st, msg)
           next == Advanced(cur, msg)
<1>1. /\ new.started = IF msg.kind = "started" /\ st.started = 0 THEN msg.n ELSE st.started
      /\ new.completed = IF msg.kind = "completed" THEN msg.n ELSE st.completed
      /\ new.current = CASE msg.kind = "started" -> msg.n
                         [] msg.kind = "completed" -> IF st.current = msg.n THEN 0 ELSE st.current
                         [] msg.kind = "goal" -> st.current
      /\ new.status = IF msg.kind = "goal" /\ msg.status # "cleared" THEN msg.status ELSE st.status
      /\ new.cleared = IF msg.kind # "goal" THEN st.cleared
                       ELSE msg.status = "cleared" \/ (st.cleared /\ msg.status # "active")
  BY ToldFields
<1>2. /\ next.started = IF msg.kind = "started" /\ cur.started = 0 THEN msg.n ELSE cur.started
      /\ next.last = IF msg.kind = "completed" THEN msg.n ELSE cur.last
      /\ next.active = CASE msg.kind = "started" -> TRUE
                         [] msg.kind = "completed" -> FALSE
                         [] msg.kind = "goal" -> cur.active
      /\ next.status = IF msg.kind = "goal" /\ msg.status # "cleared" THEN msg.status ELSE cur.status
      /\ next.cleared = IF msg.kind # "goal" THEN cur.cleared
                        ELSE msg.status = "cleared" \/ (cur.cleared /\ msg.status # "active")
  BY AdvancedFields
<1> HIDE DEF new, next
<1>3. msg.kind \in {"started", "completed", "goal"} /\ (msg.kind = "started" => msg.n # 0)
  BY KindsOfLines
<1>4. Agrees(new, next)
  <2>1. next.status = new.status /\ next.cleared = new.cleared
    BY <1>1, <1>2 DEF Agrees
  <2>2. next.started = new.started /\ next.last = new.completed
    BY <1>1, <1>2 DEF Agrees
  <2>3. next.active <=> new.current # 0
    <3>1. CASE msg.kind = "started"
      BY <1>1, <1>2, <1>3, <3>1
    <3>2. CASE msg.kind = "completed"
      BY <1>1, <1>2, <3>2
    <3>3. CASE msg.kind = "goal"
      BY <1>1, <1>2, <3>3 DEF Agrees
    <3> QED BY <1>3, <3>1, <3>2, <3>3
  <2> QED BY <2>1, <2>2, <2>3 DEF Agrees
<1>5. Announces(next, new.started, F)
  <2>1. next.started = new.started
    BY <1>4 DEF Agrees
  <2>2. next.started = 0 => cur.started = 0 /\ st.started = 0
    BY <1>2, <1>3 DEF Agrees
  <2>3. next.started = 0 /\ next.last # 0 => next.last \in F
    BY <1>2, <2>2 DEF Announces
  <2> QED BY <2>1, <2>3 DEF Announces
<1> QED BY <1>4, <1>5 DEF new, next

LEMMA FaithfulAppend ==
  ASSUME NEW st \in States, NEW st2 \in States, NEW cur \in Cursors, NEW msg \in Queued, NEW F,
         Faithful(st, cur, F), st2.queue = Append(st.queue, msg), st.started \in {0, st2.started},
         \A c \in Cursors : Agrees(st, c) /\ Announces(c, st.started, F) =>
           Agrees(st2, Advanced(c, msg)) /\ Announces(Advanced(c, msg), st2.started, F)
  PROVE  Faithful(st2, cur, F)
<1> DEFINE q == st.queue
           r == st2.queue
           l == Len(q)
<1>1. q \in Seq(Queued) /\ l \in Nat /\ Len(r) = l + 1 /\ r[l + 1] = msg /\ \A k \in 1 .. l : r[k] = q[k]
  BY DEF States
<1>2. PICK h : /\ Path(h, cur, q) /\ Agrees(st, h[l])
               /\ \A k \in 0 .. l : Announces(h[k], st.started, F)
  BY DEF Faithful
<1> DEFINE f == [k \in 0 .. l + 1 |-> IF k = l + 1 THEN Advanced(h[l], msg) ELSE h[k]]
<1> HIDE DEF q, r, l
<1>3. h \in [0 .. l -> Cursors] /\ h[0] = cur /\ \A k \in 1 .. l : h[k] = Advanced(h[k - 1], q[k])
  BY <1>2 DEF Path, l
<1>4. h[l] \in Cursors /\ Advanced(h[l], msg) \in Cursors
  BY <1>1, <1>3, AdvancedTyped
<1>5. f \in [0 .. l + 1 -> Cursors]
  BY <1>1, <1>3, <1>4
<1>6. f[l + 1] = Advanced(h[l], msg) /\ \A k \in 0 .. l : f[k] = h[k]
  BY <1>1
<1> HIDE DEF f
<1>7. \A k \in 1 .. l + 1 : f[k] = Advanced(f[k - 1], r[k])
  <2>1. ASSUME NEW k \in 1 .. l PROVE f[k] = Advanced(f[k - 1], r[k])
    BY <1>1, <1>3, <1>6
  <2>2. f[l + 1] = Advanced(f[(l + 1) - 1], r[l + 1])
    BY <1>1, <1>6
  <2> QED BY <1>1, <2>1, <2>2
<1>8. Path(f, cur, r)
  BY <1>1, <1>3, <1>5, <1>6, <1>7 DEF Path
<1>9. Agrees(st2, f[l + 1]) /\ Announces(f[l + 1], st2.started, F)
  BY <1>1, <1>2, <1>4, <1>6
<1>10. \A k \in 0 .. l : Announces(f[k], st2.started, F)
  BY <1>2, <1>6 DEF Announces
<1>11. \A k \in 0 .. l + 1 : Announces(f[k], st2.started, F)
  BY <1>1, <1>9, <1>10
<1> QED BY <1>1, <1>8, <1>9, <1>11 DEF Faithful, r

\* The consumer takes the first notification.
LEMMA FaithfulTail ==
  ASSUME NEW st \in States, NEW st2 \in States, NEW cur \in Cursors, NEW F,
         Faithful(st, cur, F), st.queue # <<>>, st2.queue = Tail(st.queue), SameView(st, st2)
  PROVE  /\ Faithful(st2, Advanced(cur, Head(st.queue)), F)
         /\ Announces(cur, st.started, F) /\ Announces(Advanced(cur, Head(st.queue)), st.started, F)
<1> DEFINE q == st.queue
           r == st2.queue
           l == Len(r)
<1>1. /\ q \in Seq(Queued) /\ l \in Nat /\ Len(q) = l + 1 /\ q[1] = Head(q)
      /\ \A k \in 1 .. l : r[k] = q[k + 1]
  BY DEF States
<1>2. PICK h : /\ Path(h, cur, q) /\ Agrees(st, h[l + 1])
               /\ \A k \in 0 .. l + 1 : Announces(h[k], st.started, F)
  BY <1>1 DEF Faithful
<1> DEFINE f == [k \in 0 .. l |-> h[k + 1]]
<1> HIDE DEF q, r, l
<1>3. h \in [0 .. l + 1 -> Cursors] /\ h[0] = cur /\ \A k \in 1 .. l + 1 : h[k] = Advanced(h[k - 1], q[k])
  BY <1>1, <1>2 DEF Path
<1>4. f \in [0 .. l -> Cursors] /\ \A k \in 0 .. l : f[k] = h[k + 1]
  BY <1>1, <1>3
<1> HIDE DEF f
<1>5. f[0] = Advanced(cur, Head(q))
  BY <1>1, <1>3, <1>4
<1>6. \A k \in 1 .. l : f[k] = Advanced(f[k - 1], r[k])
  <2>1. ASSUME NEW k \in 1 .. l PROVE f[k] = Advanced(f[k - 1], r[k])
    <3>1. k + 1 \in 1 .. l + 1 /\ k \in 0 .. l /\ k - 1 \in 0 .. l /\ (k - 1) + 1 = k /\ (k + 1) - 1 = k
      BY <1>1
    <3>2. h[k + 1] = Advanced(h[k], q[k + 1])
      BY <1>3, <3>1
    <3> QED BY <1>1, <1>4, <3>1, <3>2
  <2> QED BY <2>1
<1>7. Path(f, Advanced(cur, Head(q)), r)
  BY <1>4, <1>5, <1>6 DEF Path, l
<1>8. Agrees(st2, f[l])
  BY <1>1, <1>2, <1>4 DEF Agrees, SameView
<1>9. \A k \in 0 .. l : Announces(f[k], st2.started, F)
  BY <1>1, <1>2, <1>4 DEF SameView
<1>10. Faithful(st2, Advanced(cur, Head(q)), F)
  BY <1>7, <1>8, <1>9 DEF Faithful, l, r
<1>11. Announces(cur, st.started, F)
  BY <1>1, <1>2, <1>3
<1>12. Announces(f[0], st.started, F)
  BY <1>1, <1>9 DEF SameView
<1> QED BY <1>5, <1>10, <1>11, <1>12 DEF q

LEMMA FaithfulSame ==
  ASSUME NEW st, NEW st2, NEW cur, NEW F, NEW F2,
         Faithful(st, cur, F), st2.queue = st.queue, SameView(st, st2), F \subseteq F2
  PROVE  Faithful(st2, cur, F2)
<1>1. PICK h : /\ Path(h, cur, st.queue) /\ Agrees(st, h[Len(st.queue)])
               /\ \A k \in 0 .. Len(st.queue) : Announces(h[k], st.started, F)
  BY DEF Faithful
<1>2. Agrees(st2, h[Len(st2.queue)])
  BY <1>1 DEF Agrees, SameView
<1>3. \A k \in 0 .. Len(st2.queue) : Announces(h[k], st2.started, F2)
  BY <1>1 DEF Announces, SameView
<1> QED BY <1>1, <1>2, <1>3 DEF Faithful

LEMMA FaithfulNow ==
  ASSUME NEW st \in States, NEW cur, NEW F, Faithful(st, cur, F), st.queue = <<>>
  PROVE  Agrees(st, cur)
BY DEF Faithful, Path

-----------------------------------------------------------------------------
(* The turn that ends next. *)

\* The next turn to end from the i-th line of w on is n: its end is on its way, or it is r, the
\* turn that runs.
NextEnd(w, r, n, i) ==
  \E j \in i + 1 .. Len(w) + 1 :
    /\ \A k \in i + 1 .. j - 1 : w[k].kind # "completed"
    /\ IF j = Len(w) + 1 THEN r = n ELSE w[j].kind = "completed" /\ w[j].n = n

LEMMA TailOfLines ==
  ASSUME NEW w \in Seq(Lines), w # <<>>
  PROVE  /\ Tail(w) \in Seq(Lines) /\ Len(w) \in Nat /\ Len(w) >= 1 /\ Len(Tail(w)) = Len(w) - 1
         /\ \A k \in 1 .. Len(Tail(w)) : Tail(w)[k] = w[k + 1]
         /\ Head(w) = w[1] /\ 1 \in DOMAIN w
         /\ DOMAIN w = 1 .. Len(w) /\ DOMAIN Tail(w) = 1 .. Len(Tail(w))
OBVIOUS

LEMMA NextEndMovesUp ==
  ASSUME NEW w \in Seq(Lines), w # <<>>, NEW r, NEW n, NEW i \in Nat, NextEnd(w, r, n, i + 1)
  PROVE  NextEnd(Tail(w), r, n, i)
<1> DEFINE v == Tail(w)
           l == Len(v)
<1>1. l \in Nat /\ Len(w) = l + 1 /\ \A k \in 1 .. l : v[k] = w[k + 1]
  BY TailOfLines
<1>2. PICK j \in i + 2 .. l + 2 :
        /\ \A k \in i + 2 .. j - 1 : w[k].kind # "completed"
        /\ IF j = l + 2 THEN r = n ELSE w[j].kind = "completed" /\ w[j].n = n
  <2>1. (i + 1) + 1 = i + 2 /\ Len(w) + 1 = l + 2
    BY <1>1
  <2> HIDE DEF l
  <2> QED BY <2>1 DEF NextEnd
<1> HIDE DEF v, l
<1>3. j - 1 \in i + 1 .. l + 1 /\ (j - 1 = l + 1 <=> j = l + 2)
  BY <1>1
<1>4. \A k \in i + 1 .. (j - 1) - 1 : k \in 1 .. l /\ k + 1 \in i + 2 .. j - 1
  BY <1>1
<1>5. \A k \in i + 1 .. (j - 1) - 1 : v[k].kind # "completed"
  BY <1>1, <1>2, <1>4
<1>6. j - 1 # l + 1 => v[j - 1] = w[j]
  <2>1. j - 1 # l + 1 => j - 1 \in 1 .. l /\ (j - 1) + 1 = j
    BY <1>1
  <2> QED BY <1>1, <2>1
<1>7. IF j - 1 = l + 1 THEN r = n ELSE v[j - 1].kind = "completed" /\ v[j - 1].n = n
  BY <1>2, <1>3, <1>6
<1> QED BY <1>3, <1>5, <1>7 DEF NextEnd, l, v

LEMMA NextEndHead ==
  ASSUME NEW w \in Seq(Lines), w # <<>>, NEW r, NEW n, NextEnd(w, r, n, 0)
  PROVE  /\ Head(w).kind # "completed" => NextEnd(Tail(w), r, n, 0)
         /\ Head(w).kind = "completed" => Head(w).n = n
<1>1. Len(w) \in Nat /\ Len(w) >= 1 /\ Head(w) = w[1]
  BY TailOfLines
<1>2. PICK j \in 0 + 1 .. Len(w) + 1 :
        /\ \A k \in 0 + 1 .. j - 1 : w[k].kind # "completed"
        /\ IF j = Len(w) + 1 THEN r = n ELSE w[j].kind = "completed" /\ w[j].n = n
  BY DEF NextEnd
<1>3. CASE j = 1
  BY <1>1, <1>2, <1>3
<1>4. CASE j # 1
  <2>1. j \in (0 + 1) + 1 .. Len(w) + 1 /\ 1 \in 0 + 1 .. j - 1
    BY <1>1, <1>4
  <2>2. \A k \in (0 + 1) + 1 .. j - 1 : w[k].kind # "completed"
    BY <1>2
  <2>3. NextEnd(w, r, n, 0 + 1)
    BY <1>2, <2>1, <2>2 DEF NextEnd
  <2>4. NextEnd(Tail(w), r, n, 0)
    BY <2>3, NextEndMovesUp
  <2> QED BY <1>1, <1>2, <2>1, <2>4
<1> QED BY <1>3, <1>4

LEMMA LinesAdded ==
  ASSUME NEW w \in Seq(Lines), NEW s \in Seq(Lines)
  PROVE  /\ Len(w) \in Nat /\ Len(s) \in Nat /\ Len(w \o s) = Len(w) + Len(s)
         /\ DOMAIN w = 1 .. Len(w) /\ DOMAIN s = 1 .. Len(s) /\ DOMAIN (w \o s) = 1 .. Len(w) + Len(s)
         /\ \A k \in 1 .. Len(w) : (w \o s)[k] = w[k]
         /\ \A k \in 1 .. Len(s) : (w \o s)[Len(w) + k] = s[k]
         /\ \A k \in Len(w) + 1 .. Len(w) + Len(s) : k - Len(w) \in 1 .. Len(s) /\ (w \o s)[k] = s[k - Len(w)]
OBVIOUS

\* The app-server writes s while the turn that runs becomes r2.
LEMMA NextEndGrows ==
  ASSUME NEW w \in Seq(Lines), NEW s \in Seq(Lines), NEW r, NEW r2, NEW n, NEW i \in 0 .. Len(w),
         NextEnd(w, r, n, i),
         r = n => \/ r2 = n /\ \A k \in DOMAIN s : s[k].kind # "completed"
                  \/ s # <<>> /\ s[1].kind = "completed" /\ s[1].n = n
  PROVE  NextEnd(w \o s, r2, n, i)
<1> DEFINE v == w \o s
           l == Len(w)
           m == Len(s)
<1>1. /\ l \in Nat /\ m \in Nat /\ Len(v) = l + m /\ DOMAIN s = 1 .. m
      /\ \A k \in 1 .. l : v[k] = w[k]
      /\ \A k \in l + 1 .. l + m : k - l \in 1 .. m /\ v[k] = s[k - l]
  BY LinesAdded
<1>2. PICK j \in i + 1 .. l + 1 :
        /\ \A k \in i + 1 .. j - 1 : w[k].kind # "completed"
        /\ IF j = l + 1 THEN r = n ELSE w[j].kind = "completed" /\ w[j].n = n
  BY DEF NextEnd
<1>3. s # <<>> => m >= 1
  BY DEF m
<1>4. i \in Nat /\ i <= l
  BY <1>1
<1> HIDE DEF v, l, m
<1>5. \A k \in i + 1 .. j - 1 : v[k].kind # "completed"
  <2>1. \A k \in i + 1 .. j - 1 : k \in 1 .. l
    BY <1>1, <1>4
  <2> QED BY <1>1, <1>2, <2>1
<1>6. CASE j # l + 1
  <2>1. j \in 1 .. l /\ j \in i + 1 .. Len(v) + 1 /\ j # Len(v) + 1
    BY <1>1, <1>4, <1>6
  <2>2. v[j].kind = "completed" /\ v[j].n = n
    BY <1>1, <1>2, <1>6, <2>1
  <2> QED BY <1>5, <2>1, <2>2 DEF NextEnd, v
<1>7. CASE j = l + 1 /\ r2 = n /\ \A k \in DOMAIN s : s[k].kind # "completed"
  <2>1. Len(v) + 1 \in i + 1 .. Len(v) + 1
    BY <1>1, <1>4
  <2>2. ASSUME NEW k \in i + 1 .. (Len(v) + 1) - 1 PROVE v[k].kind # "completed"
    <3>1. k \in i + 1 .. j - 1 \/ k \in l + 1 .. l + m
      BY <1>1, <1>4, <1>7
    <3> QED BY <1>1, <1>5, <1>7, <3>1
  <2> QED BY <1>7, <2>1, <2>2 DEF NextEnd, v
<1>8. CASE j = l + 1 /\ s # <<>> /\ s[1].kind = "completed" /\ s[1].n = n
  <2>1. /\ l + 1 \in i + 1 .. Len(v) + 1 /\ l + 1 # Len(v) + 1 /\ l + 1 \in l + 1 .. l + m
        /\ (l + 1) - l = 1
    BY <1>1, <1>3, <1>4, <1>8
  <2>2. v[l + 1] = s[1]
    BY <1>1, <2>1
  <2> QED BY <1>5, <1>8, <2>1, <2>2 DEF NextEnd, v
<1> QED BY <1>2, <1>6, <1>7, <1>8

\* Nothing that is written ends a turn: the next to end is the one that runs.
LEMMA NextEndRuns ==
  ASSUME NEW w \in Seq(Lines), NEW s \in Seq(Lines), NEW n, NEW i \in Nat,
         \A k \in DOMAIN s : s[k].kind # "completed", Len(w) <= i, i <= Len(w) + Len(s)
  PROVE  NextEnd(w \o s, n, n, i)
<1> DEFINE v == w \o s
           l == Len(w)
           m == Len(s)
<1>1. /\ l \in Nat /\ m \in Nat /\ Len(v) = l + m /\ DOMAIN s = 1 .. m
      /\ \A k \in l + 1 .. l + m : k - l \in 1 .. m /\ v[k] = s[k - l]
  BY LinesAdded
<1>2. l <= i /\ i <= l + m
  OBVIOUS
<1> HIDE DEF v, l, m
<1>3. Len(v) + 1 \in i + 1 .. Len(v) + 1
  BY <1>1, <1>2
<1>4. \A k \in i + 1 .. (Len(v) + 1) - 1 : k \in l + 1 .. l + m
  BY <1>1, <1>2
<1>5. \A k \in i + 1 .. (Len(v) + 1) - 1 : v[k].kind # "completed"
  BY <1>1, <1>4
<1> QED BY <1>3, <1>5 DEF NextEnd, v

-----------------------------------------------------------------------------
(* What the app-server writes. *)

\* What the app-server writes about turns: nothing, the end of the one that runs, the start of
\* one, of the caller who set the goal or of a turn_start.
Silent(x) == x.kind \notin {"started", "completed"}
TurnGoesOn(s) == UNCHANGED <<running, startedBy>> /\ \A j \in DOMAIN s : Silent(s[j])
TurnEnds(s) ==
  /\ running # 0 /\ running' = 0 /\ UNCHANGED startedBy
  /\ s # <<>> /\ s[1].kind = "completed" /\ s[1].n = running
  /\ \A j \in DOMAIN s : j # 1 => Silent(s[j])
TurnStarts(s) ==
  /\ running = 0 /\ running' = Len(startedBy) + 1
  /\ \E c \in Callers \cup {Nobody} : startedBy' = Append(startedBy, c) /\ (c \in Goals => c = owner)
  /\ \E j \in DOMAIN s : s[j].kind = "started"
  /\ \A j \in DOMAIN s : s[j].kind # "completed" /\ (s[j].kind = "started" => s[j].n = running')
Writes(s) == s \in Seq(Lines) /\ wire' = wire \o s /\ (TurnGoesOn(s) \/ TurnEnds(s) \/ TurnStarts(s))
OwnerMoves == owner' \in {owner, Nobody} \/ \E g \in Goals : owner' = g /\ pc[g] = "set"

LEMMA OneSilentLine ==
  ASSUME NEW x \in Lines, Silent(x), wire' = wire \o <<x>>, UNCHANGED <<running, startedBy>>
  PROVE  \E s : Writes(s)
<1> DEFINE s == <<x>>
<1>1. s \in Seq(Lines) /\ DOMAIN s = {1} /\ s[1] = x /\ wire' = wire \o s
  OBVIOUS
<1> HIDE DEF s
<1>2. Writes(s)
  BY <1>1 DEF Writes, TurnGoesOn
<1> QED BY <1>2

\* An answer, of either kind of caller, says nothing of turns.
LEMMA AnswerIsSilent ==
  ASSUME NEW c \in Callers, NEW what \in {"ok", "busy", "invalid", "error", "exception"}, NEW n \in Upto
  PROVE  Answer(c, what, n) \in Lines /\ Silent(Answer(c, what, n))
<1>1. Answer(c, what, n) \in Lines
  BY LinesTyped
<1> QED BY <1>1, QuietLines DEF Silent

LEMMA GoalIsSilent ==
  ASSUME NEW status \in Status \cup {"cleared"}
  PROVE  Goal(status) \in Lines /\ Silent(Goal(status))
<1>1. Goal(status) \in Lines
  BY LinesTyped
<1> QED BY <1>1, QuietLines DEF Silent

LEMMA ServeWrites ==
  ASSUME TypeInv, \A g \in Goals : pc[g] # "turn", NEW c \in Callers,
         Serve(c) \/ \E what \in {"invalid", "error"} : Refuse(c, what)
  PROVE  OwnerMoves /\ \E s : Writes(s)
<1> USE Numbers
<1>0. /\ startedBy \in Seq(Callers \cup {Nobody}) /\ running \in {0, Len(startedBy)}
      /\ Len(startedBy) \in Nat
  BY StartedByTyped
<1>1. CASE ServeRead(c)
  <2>1. PICK what \in {"ok", "busy"} : wire' = wire \o <<Answer(c, what, 0)>>
    BY <1>1 DEF ServeRead, Say
  <2>2. UNCHANGED <<owner, running, startedBy>>
    BY <1>1 DEF ServeRead
  <2> QED BY <2>1, <2>2, AnswerIsSilent, OneSilentLine DEF OwnerMoves
<1>2. ASSUME NEW what \in {"invalid", "error"}, Refuse(c, what) PROVE OwnerMoves /\ \E s : Writes(s)
  <2>1. wire' = wire \o <<Answer(c, what, 0)>> /\ UNCHANGED <<owner, running, startedBy>>
    BY <1>2 DEF Refuse, Say
  <2> QED BY <2>1, AnswerIsSilent, OneSilentLine DEF OwnerMoves
<1>3. CASE ServeClear(c) \/ ServeSet(c) \/ ServePause(c)
  <2>1. UNCHANGED <<running, startedBy>>
    BY <1>3 DEF ServeClear, ServeSet, ServePause
  <2>2. PICK status \in {"cleared", "active", "paused"} :
          \E t \in {<<>>, <<Goal(status)>>} : wire' = wire \o (t \o <<Answer(c, "ok", 0)>>)
    <3>1. CASE ServeClear(c)
      BY <3>1 DEF ServeClear, Say
    <3>2. CASE ServePause(c)
      BY <3>2 DEF ServePause, Say
    <3>3. CASE ServeSet(c)
      <4>1. <<Goal("active"), Answer(c, "ok", 0)>> = <<Goal("active")>> \o <<Answer(c, "ok", 0)>>
        OBVIOUS
      <4> QED BY <3>3, <4>1 DEF ServeSet, Say
    <3> QED BY <1>3, <3>1, <3>2, <3>3
  <2> PICK t \in {<<>>, <<Goal(status)>>} : wire' = wire \o (t \o <<Answer(c, "ok", 0)>>)
    BY <2>2
  <2>3. Goal(status) \in Lines /\ Silent(Goal(status))
    BY GoalIsSilent DEF Status
  <2>4. Answer(c, "ok", 0) \in Lines /\ Silent(Answer(c, "ok", 0))
    BY AnswerIsSilent
  <2> DEFINE x == Goal(status)
             y == Answer(c, "ok", 0)
             all == t \o <<y>>
  <2>5. x \in Lines /\ Silent(x) /\ y \in Lines /\ Silent(y) /\ t \in {<<>>, <<x>>} /\ wire' = wire \o all
    BY <2>3, <2>4
  <2> HIDE DEF x, y
  <2>6. all \in Seq(Lines) /\ \A j \in DOMAIN all : all[j] \in {x, y}
    BY <2>5, TwoInOne
  <2> HIDE DEF all
  <2>7. Writes(all)
    BY <2>1, <2>5, <2>6 DEF Writes, TurnGoesOn
  <2>8. OwnerMoves
    <3>1. CASE ServeClear(c) \/ ServePause(c)
      BY <3>1 DEF ServeClear, ServePause, OwnerMoves
    <3>2. CASE ServeSet(c)
      <4>1. owner' = c /\ pc[c] = "set"
        BY <3>2 DEF ServeSet, Reply
      <4>2. c \in Goals
        BY <4>1 DEF TypeInv, ClientType, Callers
      <4> QED BY <4>1, <4>2 DEF OwnerMoves
    <3> QED BY <1>3, <3>1, <3>2
  <2> QED BY <2>7, <2>8
<1>4. CASE ServeTurn(c)
  <2>0. UNCHANGED owner /\ pc[c] = "turn"
    BY <1>4 DEF ServeTurn, Reply
  <2>1. CASE running = 0 /\ Len(startedBy) < MaxTurns
    <3> DEFINE x == Answer(c, "ok", 0)
               y == Started(Len(startedBy) + 1)
               s == <<x, y>>
    <3>1. wire' = wire \o s /\ startedBy' = Append(startedBy, c) /\ running' = Len(startedBy) + 1
      BY <1>4, <2>1 DEF ServeTurn, Say
    <3>2. Len(startedBy) + 1 \in Turns
      BY <2>1 DEF TypeInv
    <3>3. x \in Lines /\ Silent(x) /\ y \in Lines /\ y.kind = "started" /\ y.n = Len(startedBy) + 1
      BY <3>2, AnswerIsSilent, LinesTyped DEF Started
    <3> HIDE DEF x, y
    <3>4. s \in Seq(Lines) /\ DOMAIN s = {1, 2} /\ s[1] = x /\ s[2] = y
      BY <3>3
    <3> HIDE DEF s
    <3>5. c \notin Goals
      BY <2>0
    <3>6. \A j \in DOMAIN s : s[j].kind # "completed" /\ (s[j].kind = "started" => s[j].n = running')
      BY <3>1, <3>3, <3>4 DEF Silent
    <3>7. \E j \in DOMAIN s : s[j].kind = "started"
      BY <3>3, <3>4
    <3>8. TurnStarts(s)
      BY <2>1, <3>1, <3>5, <3>6, <3>7 DEF TurnStarts
    <3>9. Writes(s)
      BY <3>1, <3>4, <3>8 DEF Writes
    <3> QED BY <2>0, <3>9 DEF OwnerMoves
  <2>2. CASE ~(running = 0 /\ Len(startedBy) < MaxTurns)
    <3>1. wire' = wire \o <<Answer(c, "invalid", 0)>> /\ UNCHANGED <<running, startedBy>>
      BY <1>4, <2>2 DEF ServeTurn, Say
    <3> QED BY <2>0, <3>1, AnswerIsSilent, OneSilentLine DEF OwnerMoves
  <2> QED BY <2>1, <2>2
<1>5. CASE c \in Goals /\ ServeInterrupt(c)
  <2>1. target[c] \in Turns /\ target[c] # 0 /\ UNCHANGED <<owner, startedBy>>
    BY <1>5, KindsOfLines DEF ServeInterrupt, Reply, TypeInv, ClientType
  <2>2. CASE running = target[c]
    <3> DEFINE x == Ended(running, "interrupted")
               y == Answer(c, "ok", 0)
               s == <<x, y>>
    <3>1. wire' = wire \o s /\ running' = 0
      BY <1>5, <2>2 DEF ServeInterrupt, Say
    <3>2. running # 0 /\ running \in Turns
      BY <2>1, <2>2
    <3>3. x \in Lines /\ x.kind = "completed" /\ x.n = running /\ y \in Lines /\ Silent(y)
      BY <3>2, AnswerIsSilent, LinesTyped DEF Ended
    <3> HIDE DEF x, y
    <3>4. s \in Seq(Lines) /\ DOMAIN s = {1, 2} /\ s[1] = x /\ s[2] = y /\ s # <<>>
      BY <3>3
    <3> HIDE DEF s
    <3>5. TurnEnds(s)
      BY <2>1, <3>1, <3>2, <3>3, <3>4 DEF TurnEnds
    <3>6. Writes(s)
      BY <3>1, <3>4, <3>5 DEF Writes
    <3> QED BY <2>1, <3>6 DEF OwnerMoves
  <2>3. CASE running # target[c]
    <3>1. wire' = wire \o <<Answer(c, "invalid", running)>> /\ running' = running
      BY <1>5, <2>3 DEF ServeInterrupt, Say
    <3>2. running \in Upto
      BY DEF TypeInv
    <3> QED BY <2>1, <3>1, <3>2, AnswerIsSilent, OneSilentLine DEF OwnerMoves
  <2> QED BY <2>2, <2>3
<1> QED BY <1>1, <1>2, <1>3, <1>4, <1>5 DEF Serve

LEMMA ServerWrites ==
  ASSUME TypeInv, StartTurn \/ EndGoal \/ Crash \/ \E status \in {"completed", "failed"} : EndTurn(status)
  PROVE  OwnerMoves /\ \E s : Writes(s)
<1> USE Numbers
<1>0. /\ startedBy \in Seq(Callers \cup {Nobody}) /\ running \in {0, Len(startedBy)}
      /\ Len(startedBy) \in Nat /\ wire \in Seq(Lines) /\ owner \in Goals \cup {Nobody}
  BY StartedByTyped DEF TypeInv, ServerType
<1>1. CASE StartTurn
  <2> DEFINE x == Started(Len(startedBy) + 1)
             s == <<x>>
  <2>1. /\ wire' = wire \o s /\ Len(startedBy) < MaxTurns /\ running = 0 /\ UNCHANGED owner
        /\ startedBy' = Append(startedBy, owner) /\ running' = Len(startedBy) + 1
    BY <1>1 DEF StartTurn, Say
  <2>2. Len(startedBy) + 1 \in Turns
    BY <2>1 DEF TypeInv
  <2>3. x \in Lines /\ x.kind = "started" /\ x.n = Len(startedBy) + 1
    BY <2>2, LinesTyped DEF Started
  <2> HIDE DEF x
  <2>4. s \in Seq(Lines) /\ DOMAIN s = {1} /\ s[1] = x
    BY <2>3
  <2> HIDE DEF s
  <2>5. owner \in Callers \cup {Nobody}
    BY <1>0
  <2>6. TurnStarts(s)
    BY <2>1, <2>3, <2>4, <2>5 DEF TurnStarts
  <2>7. Writes(s)
    BY <2>1, <2>4, <2>6 DEF Writes
  <2> QED BY <2>1, <2>7 DEF OwnerMoves
<1>2. ASSUME NEW status \in {"completed", "failed"}, EndTurn(status) PROVE OwnerMoves /\ \E s : Writes(s)
  <2> DEFINE x == Ended(running, status)
             s == <<x>>
  <2>1. wire' = wire \o s /\ running # 0 /\ running' = 0 /\ UNCHANGED <<owner, startedBy>>
    BY <1>2 DEF EndTurn, Say
  <2>2. running \in Turns
    BY <2>1 DEF TypeInv
  <2>3. x \in Lines /\ x.kind = "completed" /\ x.n = running
    BY <2>2, LinesTyped DEF Ended
  <2> HIDE DEF x
  <2>4. s \in Seq(Lines) /\ DOMAIN s = {1} /\ s[1] = x /\ s # <<>>
    BY <2>3
  <2> HIDE DEF s
  <2>5. TurnEnds(s)
    BY <2>1, <2>3, <2>4 DEF TurnEnds
  <2>6. Writes(s)
    BY <2>1, <2>4, <2>5 DEF Writes
  <2> QED BY <2>1, <2>6 DEF OwnerMoves
<1>3. CASE EndGoal
  <2>1. wire' = wire \o <<Goal("complete")>> /\ UNCHANGED <<owner, running, startedBy>>
    BY <1>3 DEF EndGoal, Say
  <2>2. Goal("complete") \in Lines /\ Silent(Goal("complete"))
    BY GoalIsSilent DEF Status
  <2> QED BY <2>1, <2>2, OneSilentLine DEF OwnerMoves
<1>4. CASE Crash
  <2> DEFINE s == <<>>
  <2>1. UNCHANGED <<wire, owner, running, startedBy>>
    BY <1>4 DEF Crash
  <2>2. s \in Seq(Lines) /\ DOMAIN s = {} /\ wire \o s = wire
    BY <1>0
  <2> HIDE DEF s
  <2>3. Writes(s)
    BY <2>1, <2>2 DEF Writes, TurnGoesOn
  <2> QED BY <2>1, <2>3 DEF OwnerMoves
<1> QED BY <1>1, <1>2, <1>3, <1>4

-----------------------------------------------------------------------------
(* What a client does to the goals. *)

\* Where a caller is that will not look at its stream any more, and that has nothing yet.
Finished == {"done", "raised", "cancelled", "closed"}
Beginning == {"idle", "acquire", "read"}
Live(g) == pc[g] \notin Finished

\* What a step of the clients is to a goal: nothing but another label, the routing of turns to it,
\* the taking of a notification, or its end.
StaysStill(g) ==
  /\ state'[g] = state[g] /\ cursor'[g] = cursor[g] /\ yielded'[g] = yielded[g]
  /\ \/ pc'[g] = pc[g]
     \/ /\ Live(g) /\ pc'[g] \notin Finished \cup {"turn", "set"}
        /\ pc'[g] \in Beginning => pc[g] \in Beginning
Opens(g) ==
  /\ state'[g] = [state[g] EXCEPT !.routing = TRUE]
  /\ cursor'[g] = cursor[g] /\ yielded'[g] = yielded[g]
  /\ pc[g] = "clear" /\ pc'[g] = "set"
Takes(g) ==
  /\ pc[g] = "streaming" /\ pc'[g] = "streaming"
  /\ state[g].queue # <<>> /\ Msg(g) \in Notices
  /\ state'[g] = [state[g] EXCEPT !.queue = Tail(@)]
  /\ cursor'[g] = Advanced(cursor[g], Msg(g))
  /\ ~(cursor'[g].last # 0 /\ ~cursor'[g].active /\ GoalOver(cursor'[g]))
  /\ yielded'[g] = IF cursor[g].started = 0 /\ Msg(g).kind = "started"
                   THEN Append(yielded[g], <<"started", Msg(g).n>>) ELSE yielded[g]
Completes(g) ==
  /\ pc[g] = "streaming" /\ pc'[g] = "done"
  /\ state[g].queue # <<>> /\ Msg(g) \in Notices
  /\ Advanced(cursor[g], Msg(g)).last # 0 /\ Advanced(cursor[g], Msg(g)).started = cursor[g].started
  /\ yielded'[g] = Append(yielded[g], <<"completed", Advanced(cursor[g], Msg(g)).last>>)
Stops(g) ==
  /\ Live(g) /\ pc'[g] \in Finished
  /\ state'[g].routing = state[g].routing /\ state'[g].started = state[g].started
  /\ state'[g].current \in {0, state[g].current}
  /\ Completes(g) \/ (pc'[g] # "done" /\ yielded'[g] = yielded[g])

Surroundings == <<wire, hand, running, startedBy, owner>>

LEMMA OthersStayStill ==
  ASSUME TypeInv, DOMAIN yielded = Goals, NEW g \in Goals, UNCHANGED pc \/ \E l : Goto(g, l),
         UNCHANGED state \/ \E s : state' = [state EXCEPT ![g] = s],
         UNCHANGED cursor \/ \E s : cursor' = [cursor EXCEPT ![g] = s],
         UNCHANGED yielded \/ \E s : yielded' = [yielded EXCEPT ![g] = s]
  PROVE  /\ \A h \in Goals : h # g => StaysStill(h)
         /\ \A l : Goto(g, l) => pc'[g] = l
         /\ \A s : state' = [state EXCEPT ![g] = s] => state'[g] = s
         /\ \A s : cursor' = [cursor EXCEPT ![g] = s] => cursor'[g] = s
         /\ \A s : yielded' = [yielded EXCEPT ![g] = s] => yielded'[g] = s
         /\ DOMAIN yielded' = Goals
<1>1. DOMAIN pc = Callers /\ DOMAIN state = Goals /\ DOMAIN cursor = Goals /\ Goals \subseteq Callers
  BY DEF TypeInv, ClientType, ReaderType, Callers
<1>2. ASSUME NEW h \in Goals, h # g PROVE StaysStill(h)
  <2>1. pc'[h] = pc[h]
    BY <1>1, <1>2 DEF Goto
  <2>2. state'[h] = state[h]
    BY <1>1, <1>2
  <2>3. cursor'[h] = cursor[h]
    BY <1>1, <1>2
  <2>4. yielded'[h] = yielded[h]
    BY <1>1, <1>2
  <2> QED BY <2>1, <2>2, <2>3, <2>4 DEF StaysStill
<1>3. \A l : Goto(g, l) => pc'[g] = l
  BY <1>1 DEF Goto
<1>4. /\ \A s : state' = [state EXCEPT ![g] = s] => state'[g] = s
      /\ \A s : cursor' = [cursor EXCEPT ![g] = s] => cursor'[g] = s
      /\ \A s : yielded' = [yielded EXCEPT ![g] = s] => yielded'[g] = s
  BY <1>1
<1>5. DOMAIN yielded' = Goals
  OBVIOUS
<1> QED BY <1>2, <1>3, <1>4, <1>5

\* Nothing but the label changes.
LEMMA LabelChanges ==
  ASSUME TypeInv, DOMAIN yielded = Goals, NEW g \in Goals, UNCHANGED <<state, cursor, yielded>>,
         NEW l, Goto(g, l), Live(g), l \notin Finished \cup {"turn", "set"},
         l \in Beginning => pc[g] \in Beginning
  PROVE  DOMAIN yielded' = Goals /\ \A h \in Goals : StaysStill(h)
<1>1. (\A h \in Goals : h # g => StaysStill(h)) /\ pc'[g] = l /\ DOMAIN yielded' = Goals
  BY OthersStayStill
<1>2. StaysStill(g)
  BY <1>1 DEF StaysStill
<1> QED BY <1>1, <1>2

LEMMA FinishStops ==
  ASSUME TypeInv, DOMAIN yielded = Goals, NEW g \in Goals, NEW l \in {"raised", "cancelled", "closed"},
         Finish(g, l), UNCHANGED <<cursor, yielded>>, Live(g)
  PROVE  DOMAIN yielded' = Goals /\ Stops(g) /\ \A h \in Goals : h # g => StaysStill(h)
<1> DEFINE s == [state[g] EXCEPT !.finished = TRUE, !.current = 0]
<1>1. state[g] \in States /\ DOMAIN state = Goals
  BY DEF TypeInv, ReaderType
<1>2. s.routing = state[g].routing /\ s.started = state[g].started /\ s.current = 0
  BY <1>1 DEF States
<1>3. state' = [state EXCEPT ![g] = s] /\ Goto(g, l)
  BY <1>1 DEF Finish
<1> HIDE DEF s
<1>4. /\ \A h \in Goals : h # g => StaysStill(h)
      /\ pc'[g] = l /\ state'[g] = s /\ DOMAIN yielded' = Goals
  <2>1. UNCHANGED state \/ \E x : state' = [state EXCEPT ![g] = x]
    BY <1>3
  <2>2. UNCHANGED pc \/ \E x : Goto(g, x)
    BY <1>3
  <2> QED BY <1>3, <2>1, <2>2, OthersStayStill
<1> QED BY <1>2, <1>4 DEF Stops, Finished

LEMMA MsgTyped ==
  ASSUME TypeInv, NEW g \in Goals, state[g].queue # <<>>
  PROVE  Msg(g) \in Queued /\ cursor[g] \in Cursors /\ state[g] \in States
<1>1. state[g] \in States /\ cursor[g] \in Cursors
  BY DEF TypeInv, ReaderType, ClientType
<1>2. state[g].queue \in Seq(Queued)
  BY <1>1 DEF States
<1> QED BY <1>1, <1>2 DEF Msg

\* The consumer takes a notification and goes on.
LEMMA DequeuedTakes ==
  ASSUME TypeInv, DOMAIN yielded = Goals, NEW g \in Goals, pc[g] = "streaming",
         state[g].queue # <<>>, Msg(g) \in Notices, Dequeued(g), UNCHANGED pc,
         cursor' = [cursor EXCEPT ![g] = Advanced(cursor[g], Msg(g))],
         yielded' = IF cursor[g].started = 0 /\ Msg(g).kind = "started"
                    THEN [yielded EXCEPT ![g] = Append(yielded[g], <<"started", Msg(g).n>>)] ELSE yielded,
         LET cur == Advanced(cursor[g], Msg(g)) IN ~(cur.last # 0 /\ ~cur.active /\ GoalOver(cur))
  PROVE  DOMAIN yielded' = Goals /\ Takes(g) /\ \A h \in Goals : h # g => StaysStill(h)
<1> DEFINE s == [state[g] EXCEPT !.queue = Tail(@)]
           cur == Advanced(cursor[g], Msg(g))
           y == Append(yielded[g], <<"started", Msg(g).n>>)
<1>1. state' = [state EXCEPT ![g] = s]
  BY DEF Dequeued
<1>2. cursor' = [cursor EXCEPT ![g] = cur]
  OBVIOUS
<1>3. yielded' = IF cursor[g].started = 0 /\ Msg(g).kind = "started" THEN [yielded EXCEPT ![g] = y] ELSE yielded
  OBVIOUS
<1>4. ~(cur.last # 0 /\ ~cur.active /\ GoalOver(cur))
  OBVIOUS
<1>5. s = [state[g] EXCEPT !.queue = Tail(@)] /\ cur = Advanced(cursor[g], Msg(g))
      /\ y = Append(yielded[g], <<"started", Msg(g).n>>)
  OBVIOUS
<1> HIDE DEF s, cur, y
<1>6. UNCHANGED state \/ \E x : state' = [state EXCEPT ![g] = x]
  BY <1>1
<1>7. UNCHANGED cursor \/ \E x : cursor' = [cursor EXCEPT ![g] = x]
  BY <1>2
<1>8. UNCHANGED yielded \/ \E x : yielded' = [yielded EXCEPT ![g] = x]
  BY <1>3
<1>9. /\ \A h \in Goals : h # g => StaysStill(h)
      /\ DOMAIN yielded' = Goals /\ state'[g] = s /\ cursor'[g] = cur
      /\ yielded' = [yielded EXCEPT ![g] = y] => yielded'[g] = y
  BY <1>1, <1>2, <1>6, <1>7, <1>8, OthersStayStill
<1>10. yielded'[g] = IF cursor[g].started = 0 /\ Msg(g).kind = "started" THEN y ELSE yielded[g]
  BY <1>3, <1>9
<1> QED BY <1>4, <1>5, <1>9, <1>10 DEF Takes

\* The stream ends with what the consumer took.
LEMMA EndStreamStops ==
  ASSUME TypeInv, DOMAIN yielded = Goals, NEW g \in Goals, pc[g] = "streaming",
         state[g].queue # <<>>, NEW l \in {"done", "raised"}, EndStream(g, l),
         NEW cur, UNCHANGED cursor \/ cursor' = [cursor EXCEPT ![g] = cur],
         \/ l = "raised" /\ UNCHANGED yielded
         \/ /\ l = "done" /\ Msg(g) \in Notices
            /\ Advanced(cursor[g], Msg(g)).last # 0
            /\ Advanced(cursor[g], Msg(g)).started = cursor[g].started
            /\ yielded' = [yielded EXCEPT ![g] = Append(@, <<"completed", Advanced(cursor[g], Msg(g)).last>>)]
  PROVE  DOMAIN yielded' = Goals /\ Stops(g) /\ \A h \in Goals : h # g => StaysStill(h)
<1> DEFINE s == [state[g] EXCEPT !.finished = TRUE, !.current = 0, !.queue = Tail(@)]
           y == Append(yielded[g], <<"completed", Advanced(cursor[g], Msg(g)).last>>)
<1>1. state[g] \in States /\ DOMAIN state = Goals
  BY DEF TypeInv, ReaderType
<1>2. s.routing = state[g].routing /\ s.started = state[g].started /\ s.current = 0
  BY <1>1 DEF States
<1>3. state' = [state EXCEPT ![g] = s] /\ Goto(g, l)
  BY <1>1 DEF EndStream
<1>4. yielded' = yielded \/ yielded' = [yielded EXCEPT ![g] = y]
  OBVIOUS
<1>5. l = "done" => yielded' = [yielded EXCEPT ![g] = y]
  OBVIOUS
<1>6. y = Append(yielded[g], <<"completed", Advanced(cursor[g], Msg(g)).last>>)
  OBVIOUS
<1> HIDE DEF s, y
<1>7. UNCHANGED state \/ \E x : state' = [state EXCEPT ![g] = x]
  BY <1>3
<1>8. UNCHANGED cursor \/ \E x : cursor' = [cursor EXCEPT ![g] = x]
  OBVIOUS
<1>9. UNCHANGED yielded \/ \E x : yielded' = [yielded EXCEPT ![g] = x]
  BY <1>4
<1>10. UNCHANGED pc \/ \E x : Goto(g, x)
  BY <1>3
<1>11. /\ \A h \in Goals : h # g => StaysStill(h)
       /\ pc'[g] = l /\ state'[g] = s /\ DOMAIN yielded' = Goals
       /\ yielded' = [yielded EXCEPT ![g] = y] => yielded'[g] = y
  BY <1>3, <1>7, <1>8, <1>9, <1>10, OthersStayStill
<1>12. CASE l = "raised"
  BY <1>2, <1>11, <1>12 DEF Stops, Finished, Live
<1>13. CASE l = "done"
  <2>1. Completes(g)
    BY <1>5, <1>6, <1>11, <1>13 DEF Completes
  <2> QED BY <1>2, <1>11, <1>13, <2>1 DEF Stops, Finished, Live
<1> QED BY <1>12, <1>13

LEMMA CursorMoves ==
  ASSUME TypeInv, NEW g \in Goals, TakeStarted(g) \/ TakeCompleted(g) \/ TakeGoal(g)
  PROVE  /\ Msg(g) \in Notices /\ pc[g] = "streaming" /\ state[g].queue # <<>>
         /\ cursor' = [cursor EXCEPT ![g] = Advanced(cursor[g], Msg(g))]
         /\ cursor'[g] = Advanced(cursor[g], Msg(g)) /\ cursor[g] \in Cursors
<1>1. state[g].queue # <<>> /\ pc[g] = "streaming" /\ Msg(g).kind \in {"started", "completed", "goal"}
  BY DEF TakeStarted, TakeCompleted, TakeGoal, Took, Streaming
<1>2. Msg(g) \in Notices /\ cursor[g] \in Cursors /\ DOMAIN cursor = Goals
  <2>1. Msg(g) \in Queued /\ cursor[g] \in Cursors
    BY <1>1, MsgTyped
  <2> QED BY <1>1, <2>1, KindsOfLines DEF TypeInv, ClientType
<1>3. CASE TakeStarted(g)
  <2>1. Msg(g).kind = "started"
    BY <1>3 DEF TakeStarted, Took
  <2>2. cursor' = [cursor EXCEPT ![g] = [cursor[g] EXCEPT !.active = TRUE,
                     !.started = IF cursor[g].started = 0 THEN Msg(g).n ELSE cursor[g].started]]
    BY <1>2, <1>3 DEF TakeStarted, Cursors
  <2> QED BY <1>1, <1>2, <2>1, <2>2 DEF Advanced
<1>4. CASE TakeCompleted(g)
  <2>1. Msg(g).kind = "completed"
    BY <1>4 DEF TakeCompleted, Took
  <2>2. cursor' = [cursor EXCEPT ![g] = [cursor[g] EXCEPT !.active = FALSE, !.last = Msg(g).n]]
    BY <1>2, <1>4 DEF TakeCompleted, Cursors
  <2> QED BY <1>1, <1>2, <2>1, <2>2 DEF Advanced
<1>5. CASE TakeGoal(g)
  <2>1. Msg(g).kind = "goal"
    BY <1>5 DEF TakeGoal, Took
  <2>2. cursor' = [cursor EXCEPT ![g] =
          IF Msg(g).status = "cleared" THEN [cursor[g] EXCEPT !.cleared = TRUE]
          ELSE [cursor[g] EXCEPT !.status = Msg(g).status,
                                 !.cleared = cursor[g].cleared /\ Msg(g).status /= "active"]]
    BY <1>5 DEF TakeGoal
  <2>3. CASE Msg(g).status = "cleared"
    BY <1>1, <1>2, <2>1, <2>2, <2>3 DEF Advanced
  <2>4. CASE Msg(g).status # "cleared"
    BY <1>1, <1>2, <2>1, <2>2, <2>4 DEF Advanced
  <2> QED BY <2>3, <2>4
<1> QED BY <1>3, <1>4, <1>5

LEMMA ConsumeSteps ==
  ASSUME TypeInv, DOMAIN yielded = Goals, NEW g \in Goals, Consume(g)
  PROVE  /\ DOMAIN yielded' = Goals /\ (Takes(g) \/ Stops(g))
         /\ \A h \in Goals : h # g => StaysStill(h)
<1> DEFINE cur == Advanced(cursor[g], Msg(g))
<1>1. CASE TakeStarted(g)
  <2>1. /\ Msg(g) \in Notices /\ pc[g] = "streaming" /\ state[g].queue # <<>>
        /\ cursor' = [cursor EXCEPT ![g] = Advanced(cursor[g], Msg(g))] /\ cursor[g] \in Cursors
    BY <1>1, CursorMoves
  <2>2. Msg(g).kind = "started" /\ Dequeued(g) /\ UNCHANGED pc
    BY <1>1 DEF TakeStarted, Took
  <2>3. yielded' = IF cursor[g].started = 0 /\ Msg(g).kind = "started"
                   THEN [yielded EXCEPT ![g] = Append(yielded[g], <<"started", Msg(g).n>>)] ELSE yielded
    BY <1>1, <2>2 DEF TakeStarted, Yield
  <2>4. cur.active
    BY <2>1, <2>2, AdvancedFields
  <2> QED BY <2>1, <2>2, <2>3, <2>4, DequeuedTakes
<1>2. CASE TakeCompleted(g)
  <2>1. /\ Msg(g) \in Notices /\ pc[g] = "streaming" /\ state[g].queue # <<>>
        /\ cursor' = [cursor EXCEPT ![g] = Advanced(cursor[g], Msg(g))] /\ cursor[g] \in Cursors
    BY <1>2, CursorMoves
  <2>2. Msg(g).kind = "completed" /\ Msg(g).n # 0
    BY <1>2, <2>1, KindsOfLines DEF TakeCompleted, Took
  <2>3. /\ cur.last = Msg(g).n /\ cur.started = cursor[g].started
        /\ cur.status = cursor[g].status /\ cur.cleared = cursor[g].cleared
    BY <2>1, <2>2, AdvancedFields
  <2>4. CASE Msg(g).status = "interrupted" \/ GoalOver(cursor[g])
    <3>1. EndStream(g, "done") /\ yielded' = [yielded EXCEPT ![g] = Append(@, <<"completed", cur.last>>)]
      BY <1>2, <2>3, <2>4 DEF TakeCompleted, Yield
    <3> QED BY <2>1, <2>2, <2>3, <3>1, EndStreamStops
  <2>5. CASE ~(Msg(g).status = "interrupted" \/ GoalOver(cursor[g]))
    <3>1. UNCHANGED yielded /\ (EndStream(g, "raised") \/ (Dequeued(g) /\ UNCHANGED pc))
      BY <1>2, <2>5 DEF TakeCompleted
    <3>2. CASE EndStream(g, "raised")
      BY <2>1, <3>1, <3>2, EndStreamStops
    <3>3. CASE Dequeued(g) /\ UNCHANGED pc
      <4>1. ~GoalOver(cur)
        BY <2>3, <2>5 DEF GoalOver
      <4>2. yielded' = IF cursor[g].started = 0 /\ Msg(g).kind = "started"
                       THEN [yielded EXCEPT ![g] = Append(yielded[g], <<"started", Msg(g).n>>)] ELSE yielded
        BY <2>2, <3>1
      <4> QED BY <2>1, <3>3, <4>1, <4>2, DequeuedTakes
    <3> QED BY <3>1, <3>2, <3>3
  <2> QED BY <2>4, <2>5
<1>3. CASE TakeGoal(g)
  <2>1. /\ Msg(g) \in Notices /\ pc[g] = "streaming" /\ state[g].queue # <<>>
        /\ cursor' = [cursor EXCEPT ![g] = Advanced(cursor[g], Msg(g))] /\ cursor[g] \in Cursors
        /\ cursor'[g] = cur
    BY <1>3, CursorMoves
  <2>2. Msg(g).kind = "goal"
    BY <1>3 DEF TakeGoal, Took
  <2>3. cur.last = cursor[g].last /\ cur.started = cursor[g].started /\ cur.active = cursor[g].active
    BY <2>1, <2>2, AdvancedFields
  <2>4. CASE ~cursor[g].active /\ cursor[g].last # 0 /\ GoalOver(cursor'[g])
    <3>1. EndStream(g, "done") /\ yielded' = [yielded EXCEPT ![g] = Append(@, <<"completed", cur.last>>)]
      BY <1>3, <2>3, <2>4 DEF TakeGoal, Yield
    <3> QED BY <2>1, <2>3, <2>4, <3>1, EndStreamStops
  <2>5. CASE ~(~cursor[g].active /\ cursor[g].last # 0 /\ GoalOver(cursor'[g]))
    <3>1. Dequeued(g) /\ UNCHANGED <<pc, yielded>>
      BY <1>3, <2>5 DEF TakeGoal
    <3>2. yielded' = IF cursor[g].started = 0 /\ Msg(g).kind = "started"
                     THEN [yielded EXCEPT ![g] = Append(yielded[g], <<"started", Msg(g).n>>)] ELSE yielded
      BY <2>2, <3>1
    <3>3. ~(cur.last # 0 /\ ~cur.active /\ GoalOver(cur))
      BY <2>1, <2>3, <2>5
    <3> HIDE DEF cur
    <3> QED BY <2>1, <3>1, <3>2, <3>3, DequeuedTakes DEF cur
  <2> QED BY <2>4, <2>5
<1>4. CASE TakeFailure(g)
  <2>1. EndStream(g, "raised") /\ UNCHANGED <<cursor, yielded>> /\ pc[g] = "streaming" /\ state[g].queue # <<>>
    BY <1>4 DEF TakeFailure, Took, Streaming
  <2> QED BY <2>1, EndStreamStops
<1> QED BY <1>1, <1>2, <1>3, <1>4 DEF Consume

LEMMA GoalSteps ==
  ASSUME TypeInv, DOMAIN yielded = Goals, NEW g \in Goals,
         GoalCall(g) \/ CloseStream(g) \/ CancelStream(g), ~TransportError(g)
  PROVE  /\ DOMAIN yielded' = Goals
         /\ \A h \in Goals : StaysStill(h) \/ Opens(h) \/ Takes(h) \/ Stops(h)
         /\ UNCHANGED Surroundings
         /\ route' \in {route, Nobody} \/ (route' = g /\ pc[g] = "read" /\ StaysStill(g))
<1> USE DEF Surroundings, Live, Finished, Beginning
<1>1. CASE StartOfGoal(g) \/ Reserve(g) \/ GoalSet(g) \/ TurnSeen(g) \/ StartFails(g) \/ Paused(g)
           \/ InterruptAgain(g) \/ CancelStream(g)
  <2>1. PICK l : /\ Goto(g, l) /\ l \notin Finished \cup {"turn", "set"}
                 /\ l \in Beginning => pc[g] \in Beginning
    <3>1. ASSUME NEW l \in {"clear", "wait for start", "streaming", "pause", "interrupt", "interrupt again"},
                 Goto(g, l)
          PROVE  \E x : /\ Goto(g, x) /\ x \notin Finished \cup {"turn", "set"}
                        /\ x \in Beginning => pc[g] \in Beginning
      BY <3>1
    <3>2. CASE StartOfGoal(g)
      BY <3>2 DEF StartOfGoal, Send, Acquired
    <3>3. CASE Reserve(g) \/ GoalSet(g) \/ TurnSeen(g)
      BY <3>1, <3>3 DEF Reserve, GoalSet, TurnSeen, Send
    <3>4. CASE StartFails(g) \/ Paused(g) \/ InterruptAgain(g) \/ CancelStream(g)
      BY <3>1, <3>4 DEF StartFails, Paused, InterruptAgain, CancelStream, Send
    <3> QED BY <1>1, <3>2, <3>3, <3>4
  <2>2. UNCHANGED <<state, cursor, yielded>> /\ UNCHANGED Surroundings
    BY <1>1 DEF StartOfGoal, Reserve, GoalSet, TurnSeen, StartFails, Paused, InterruptAgain, CancelStream,
                Send, NoRequest, reader, server
  <2>3. Live(g) /\ (Reserve(g) => pc[g] = "read" /\ route' = g) /\ (~Reserve(g) => route' = route)
    BY <1>1 DEF StartOfGoal, Reserve, GoalSet, TurnSeen, StartFails, Paused, InterruptAgain, CancelStream,
                Streaming, Answered, Acquired
  <2>4. DOMAIN yielded' = Goals /\ \A h \in Goals : StaysStill(h)
    BY <2>1, <2>2, <2>3, LabelChanges
  <2> QED BY <2>2, <2>3, <2>4
<1>2. CASE Cleared(g)
  <2>1. Goto(g, "set") /\ pc[g] = "clear" /\ UNCHANGED <<cursor, yielded, route>> /\ UNCHANGED Surroundings
    BY <1>2 DEF Cleared, Send, Answered, reader
  <2> DEFINE s == [state[g] EXCEPT !.routing = TRUE]
  <2>2. state' = [state EXCEPT ![g] = s]
    BY <1>2 DEF Cleared
  <2>3. s = [state[g] EXCEPT !.routing = TRUE]
    OBVIOUS
  <2> HIDE DEF s
  <2>4. (UNCHANGED state \/ \E x : state' = [state EXCEPT ![g] = x]) /\ (UNCHANGED pc \/ \E x : Goto(g, x))
    BY <2>1, <2>2
  <2>5. /\ \A h \in Goals : h # g => StaysStill(h)
        /\ pc'[g] = "set" /\ state'[g] = s /\ DOMAIN yielded' = Goals
    BY <2>1, <2>2, <2>4, OthersStayStill
  <2>6. Opens(g)
    BY <2>1, <2>3, <2>5 DEF Opens
  <2> QED BY <2>1, <2>5, <2>6
<1>3. CASE GoalRefused(g)
  <2>1. Goto(g, "raised") /\ pc[g] = "read" /\ UNCHANGED <<state, cursor, yielded, route>> /\ UNCHANGED Surroundings
    BY <1>3 DEF GoalRefused, NoRequest, Answered, reader, server
  <2>2. UNCHANGED pc \/ \E x : Goto(g, x)
    BY <2>1
  <2>3. (\A h \in Goals : h # g => StaysStill(h)) /\ pc'[g] = "raised" /\ DOMAIN yielded' = Goals
    BY <2>1, <2>2, OthersStayStill
  <2>4. Stops(g)
    BY <2>1, <2>3 DEF Stops
  <2> QED BY <2>1, <2>3, <2>4
<1>4. CASE Rejected(g) \/ Cancelled(g) \/ CloseStream(g)
  <2>1. UNCHANGED <<cursor, yielded>> /\ UNCHANGED Surroundings
    BY <1>4 DEF Rejected, Cancelled, CloseStream, NoRequest, reader, server
  <2>2. PICK l \in {"raised", "cancelled", "closed"} : Finish(g, l)
    BY <1>4 DEF Rejected, Cancelled, CloseStream
  <2>3. Live(g) /\ route' \in {route, Nobody}
    BY <1>4, <2>2 DEF Rejected, Cancelled, CloseStream, Streaming, Answered, Finish, Unregister
  <2>4. DOMAIN yielded' = Goals /\ Stops(g) /\ \A h \in Goals : h # g => StaysStill(h)
    BY <2>1, <2>2, <2>3, FinishStops
  <2> QED BY <2>1, <2>3, <2>4
<1>5. CASE Consume(g)
  <2>1. PICK k \in {"started", "completed", "goal", "failure"} : Took(g, k)
    BY <1>5 DEF Consume, TakeStarted, TakeCompleted, TakeGoal, TakeFailure
  <2>2. UNCHANGED Surroundings
    BY <2>1 DEF Took, server, reader
  <2>3. route' \in {route, Nobody}
    BY <1>5 DEF Consume, TakeStarted, TakeCompleted, TakeGoal, TakeFailure, EndStream, Unregister
  <2> QED BY <1>5, <2>2, <2>3, ConsumeSteps
<1> QED BY <1>1, <1>2, <1>3, <1>4, <1>5 DEF GoalCall

\* What every step of a client is to every goal.
LEMMA ClientSteps ==
  ASSUME TypeInv, DOMAIN yielded = Goals, ClientStep
  PROVE  /\ DOMAIN yielded' = Goals
         /\ \A h \in Goals : StaysStill(h) \/ Opens(h) \/ Takes(h) \/ Stops(h)
         /\ UNCHANGED Surroundings
         /\ route' \in {route, Nobody} \/ \E g \in Goals : route' = g /\ pc[g] = "read" /\ StaysStill(g)
<1>1. ASSUME NEW c \in Callers, EnterThread(c) \/ LeaveThread(c) \/ TransportError(c)
      PROVE  /\ DOMAIN yielded' = Goals /\ \A h \in Goals : StaysStill(h)
             /\ UNCHANGED Surroundings /\ UNCHANGED route
  <2>1. UNCHANGED <<state, cursor, yielded, route>> /\ UNCHANGED Surroundings
    BY <1>1 DEF EnterThread, LeaveThread, Leaves, TransportError, Surroundings, reader, server, clients
  <2>2. UNCHANGED pc \/ (pc[c] = "idle" /\ Goto(c, "acquire"))
    BY <1>1 DEF EnterThread, LeaveThread, Leaves, TransportError, clients
  <2>3. DOMAIN pc = Callers
    BY DEF TypeInv, ClientType
  <2>4. ASSUME NEW h \in Goals PROVE StaysStill(h)
    <3>1. h \in Callers
      BY DEF Callers
    <3>2. CASE pc'[h] = pc[h]
      BY <2>1, <3>2 DEF StaysStill
    <3>3. CASE pc[h] = "idle" /\ pc'[h] = "acquire"
      BY <2>1, <3>3 DEF StaysStill, Live, Finished, Beginning
    <3> QED BY <2>2, <2>3, <3>1, <3>2, <3>3 DEF Goto
  <2> QED BY <2>1, <2>4
<1>2. ASSUME NEW c \in Starters, StartOfTurn(c) \/ TurnRefused(c) \/ AfterTurn(c)
      PROVE  /\ DOMAIN yielded' = Goals /\ \A h \in Goals : StaysStill(h)
             /\ UNCHANGED Surroundings /\ UNCHANGED route
  <2>1. UNCHANGED <<state, cursor, yielded, route>> /\ UNCHANGED Surroundings
    BY <1>2 DEF StartOfTurn, TurnRefused, AfterTurn, Send, NoRequest, Surroundings, reader, server
  <2>2. \E l : Goto(c, l)
    BY <1>2 DEF StartOfTurn, TurnRefused, AfterTurn, Send
  <2>3. c \notin Goals
    BY GoalAssumption
  <2>4. ASSUME NEW h \in Goals PROVE StaysStill(h)
    <3>1. pc'[h] = pc[h]
      BY <2>2, <2>3 DEF Goto, TypeInv, ClientType, Callers
    <3> QED BY <2>1, <3>1 DEF StaysStill
  <2> QED BY <2>1, <2>4
<1>3. Goals \subseteq Callers
  BY DEF Callers
<1>4. ASSUME NEW g \in Goals, GoalCall(g) \/ CloseStream(g) \/ CancelStream(g), ~TransportError(g)
      PROVE  /\ DOMAIN yielded' = Goals
             /\ \A h \in Goals : StaysStill(h) \/ Opens(h) \/ Takes(h) \/ Stops(h)
             /\ UNCHANGED Surroundings
             /\ route' \in {route, Nobody} \/ (route' = g /\ pc[g] = "read" /\ StaysStill(g))
  BY <1>4, GoalSteps
<1> QED BY <1>1, <1>2, <1>3, <1>4 DEF ClientStep

-----------------------------------------------------------------------------
(* The invariant, and what the reader does. *)

\* What the reader has in hand, and for whom.
Observing(g) == hand # <<>> /\ hand[1].at = "observe" /\ hand[1].to = g
Holding(kind) == hand # <<>> /\ hand[1].at = "observe" /\ hand[1].msg.kind = kind
ForeignTurns(g) == {n \in DOMAIN startedBy : startedBy[n] # g}

\* A goal that begins has a state nobody has touched, and turns are routed to it before it is set.
LabelInv ==
  /\ DOMAIN yielded = Goals
  /\ \A g \in Goals :
       /\ pc[g] \in Beginning => state[g] = NewState /\ cursor[g] = NewCursor /\ yielded[g] = <<>>
       /\ pc[g] = "set" => state[g].routing
       /\ pc[g] # "turn"
       /\ Failing(g) => pc[g] \notin Beginning

\* After the start of a turn the next end is its own, on stdout, in hand and in the state.
LineInv ==
  /\ \A i \in DOMAIN wire : wire[i].kind = "started" => NextEnd(wire, running, wire[i].n, i)
  /\ Holding("started") => NextEnd(wire, running, hand[1].msg.n, 0)
CurrentInv ==
  \A g \in Goals : Live(g) /\ route = g /\ state[g].current # 0 =>
    IF Observing(g) /\ Holding("completed") THEN hand[1].msg.n = state[g].current
    ELSE NextEnd(wire, running, state[g].current, 0)

\* Before turns are routed to a goal there is none of its own; after that a turn which ends is
\* either not its own or has been announced before.
Announced(g, i) ==
  \/ state[g].started # 0
  \/ Observing(g) /\ Holding("started")
  \/ \E j \in 1 .. i - 1 : wire[j].kind = "started"
NotOpen(g) == state[g].current = 0 /\ owner # g /\ \A n \in DOMAIN startedBy : startedBy[n] # g
EndsAnnounced(g) ==
  /\ \A i \in DOMAIN wire : wire[i].kind = "completed" => wire[i].n \in ForeignTurns(g) \/ Announced(g, i)
  /\ running # 0 => running \in ForeignTurns(g) \/ Announced(g, Len(wire) + 1)
OwnInv ==
  \A g \in Goals :
    /\ ~state[g].routing => NotOpen(g)
    /\ Live(g) /\ Observing(g) /\ Holding("completed") =>
         state[g].started # 0 \/ hand[1].msg.n \in ForeignTurns(g)
    /\ route = g => EndsAnnounced(g)

\* A state is finished when the goal is over, and then nothing more is routed to it; the consumer
\* has not passed the end, and has been given a start exactly if its cursor has one.
CursorGoesOn(cur) == ~(cur.last # 0 /\ ~cur.active /\ GoalOver(cur))
YieldedSoFar(g) ==
  yielded[g] = IF cursor[g].started = 0 THEN <<>> ELSE <<<<"started", cursor[g].started>>>>
EndInv ==
  \A g \in Goals : Live(g) =>
    /\ Observing(g) => route = g
    /\ state[g].finished =>
         Over(state[g]) /\ (route = g => hand # <<>> /\ hand[1].at \in {"put", "unregister"} /\ hand[1].to = g)
    /\ state[g].failure => \E k \in DOMAIN state[g].queue : state[g].queue[k].kind = "failure"
    /\ CursorGoesOn(cursor[g])
    /\ YieldedSoFar(g)

FaithInv == \A g \in Goals : Live(g) => Faithful(state[g], cursor[g], ForeignTurns(g))

\* What a consumer got whose operation is over.
OneTurn(g) ==
  LET n == state[g].started IN
  \/ yielded[g] = <<>> /\ pc[g] # "done"
  \/ n # 0 /\ yielded[g] = <<<<"started", n>>>> /\ pc[g] # "done"
  \/ n # 0 /\ pc[g] = "done" /\ \E m : yielded[g] = <<<<"started", n>>, <<"completed", m>>>>
  \/ pc[g] = "done" /\ \E m \in ForeignTurns(g) : yielded[g] = <<<<"completed", m>>>>
TurnInv == \A g \in Goals : ~Live(g) => OneTurn(g)

StreamInv == LabelInv /\ LineInv /\ CurrentInv /\ OwnInv /\ EndInv /\ FaithInv /\ TurnInv

-----------------------------------------------------------------------------
(* What a step of the reader is. *)

TakesLine ==
  /\ wire # <<>> /\ wire' = Tail(wire) /\ hand = <<>> /\ UNCHANGED <<state, route>>
  /\ \/ hand' = <<>> /\ (Head(wire).kind = "answer" \/ route = Nobody)
     \/ /\ Head(wire) \in Notices /\ route \in Goals
        /\ hand' = <<[at |-> "observe", to |-> route, msg |-> Head(wire)]>>
        /\ hand' # <<>> /\ hand'[1].at = "observe" /\ hand'[1].to = route /\ hand'[1].msg = Head(wire)
Drops ==
  /\ hand # <<>> /\ hand[1].at = "observe" /\ hand' = <<>> /\ UNCHANGED <<state, wire, route>>
  /\ ~state[hand[1].to].routing /\ hand[1].msg.kind # "goal"
Observes ==
  LET g == hand[1].to
      msg == hand[1].msg
  IN /\ hand # <<>> /\ hand[1].at = "observe" /\ g \in Goals /\ msg \in Notices
     /\ UNCHANGED <<wire, route>> /\ (state[g].routing \/ msg.kind = "goal")
     /\ state'[g] = Observed(state[g], msg)
     /\ \A h \in Goals : h # g => state'[h] = state[h]
     /\ hand' # <<>> /\ hand'[1].at = "put" /\ hand'[1].to = g
Puts ==
  /\ hand # <<>> /\ UNCHANGED <<state, wire, route>>
  /\ \/ /\ hand[1].at = "put"
        /\ IF state[hand[1].to].finished
           THEN hand' # <<>> /\ hand'[1].at = "unregister" /\ hand'[1].to = hand[1].to
           ELSE hand' = <<>>
     \/ hand[1].at = "put failure" /\ hand' = <<>>
LetsGo ==
  /\ hand # <<>> /\ hand[1].at = "unregister" /\ hand' = <<>> /\ UNCHANGED <<state, wire>>
  /\ route' = IF route = hand[1].to THEN Nobody ELSE route
Failed(st) == [st EXCEPT !.failure = TRUE, !.queue = Append(@, [kind |-> "failure"])]
Quits ==
  /\ hand = <<>> /\ route' = Nobody /\ UNCHANGED <<wire, state>>
  /\ IF route = Nobody THEN hand' = <<>>
     ELSE hand' # <<>> /\ hand'[1].at = "fail" /\ hand'[1].to = route
Fails ==
  LET g == hand[1].to
  IN /\ hand # <<>> /\ hand[1].at = "fail" /\ g \in Goals /\ UNCHANGED <<wire, route>>
     /\ state'[g] = Failed(state[g]) /\ \A h \in Goals : h # g => state'[h] = state[h]
     /\ hand' # <<>> /\ hand'[1].at = "put failure" /\ hand'[1].to = g
Untouched == UNCHANGED <<running, startedBy, owner, cursor, pc, yielded>>

LEMMA ReaderSteps ==
  ASSUME TypeInv, Reader
  PROVE  /\ Untouched
         /\ TakesLine \/ Drops \/ Observes \/ Puts \/ LetsGo \/ Quits \/ Fails
<1>1. CASE RouteAnswer
  BY <1>1 DEF RouteAnswer, Untouched, TakesLine, server, clients, reader
<1>2. CASE LookUpGoal
  <2>1. /\ wire # <<>> /\ wire' = Tail(wire) /\ hand = <<>> /\ UNCHANGED <<state, route>> /\ Untouched
        /\ Head(wire).kind # "answer"
        /\ hand' = IF route = Nobody THEN <<>> ELSE <<[at |-> "observe", to |-> route, msg |-> Head(wire)]>>
    BY <1>2 DEF LookUpGoal, Untouched, server, clients
  <2>2. Head(wire) \in Notices
    BY <2>1, HeadTyped DEF TypeInv, Lines
  <2>3. route # Nobody => route \in Goals
    BY DEF TypeInv, ReaderType
  <2> DEFINE h == [at |-> "observe", to |-> route, msg |-> Head(wire)]
  <2>4. h.at = "observe" /\ h.to = route /\ h.msg = Head(wire)
    OBVIOUS
  <2>5. route # Nobody => hand' = <<h>>
    BY <2>1
  <2>6. h = [at |-> "observe", to |-> route, msg |-> Head(wire)]
    OBVIOUS
  <2> HIDE DEF h
  <2>7. route # Nobody => hand' # <<>> /\ hand'[1] = h
    BY <2>5
  <2> QED BY <2>1, <2>2, <2>3, <2>4, <2>5, <2>6, <2>7 DEF TakesLine
<1>3. CASE Observe
  <2>1. hand # <<>> /\ hand[1].at = "observe" /\ UNCHANGED <<wire, route>> /\ Untouched
    BY <1>3 DEF Observe, Untouched, server, clients
  <2>2. hand[1] \in Notified
    BY <2>1, HandTyped DEF TypeInv
  <2>3. CASE ~state[hand[1].to].routing /\ hand[1].msg.kind /= "goal"
    <3>1. hand' = <<>> /\ UNCHANGED state
      BY <1>3, <2>3 DEF Observe
    <3> QED BY <2>1, <2>3, <3>1 DEF Drops
  <2>4. CASE ~(~state[hand[1].to].routing /\ hand[1].msg.kind /= "goal")
    <3> DEFINE g == hand[1].to
    <3>1. /\ state' = [state EXCEPT ![g] = Observed(state[g], hand[1].msg)]
          /\ hand' = <<[hand[1] EXCEPT !.at = "put"]>>
      BY <1>3, <2>4 DEF Observe, Observed
    <3>2. g \in Goals /\ hand[1].msg \in Notices /\ DOMAIN state = Goals
      BY <2>2 DEF TypeInv, ReaderType, Notified
    <3>3. state'[g] = Observed(state[g], hand[1].msg) /\ \A h \in Goals : h # g => state'[h] = state[h]
      BY <3>1, <3>2
    <3> DEFINE x == [hand[1] EXCEPT !.at = "put"]
    <3>4. x.at = "put" /\ x.to = g
      BY <2>2 DEF Notified
    <3>5. hand' = <<x>>
      BY <3>1
    <3> HIDE DEF x
    <3>6. hand' # <<>> /\ hand'[1] = x
      BY <3>5
    <3>7. Observes
      BY <2>1, <2>4, <3>2, <3>3, <3>4, <3>6 DEF Observes
    <3> QED BY <2>1, <3>7
  <2> QED BY <2>3, <2>4
<1>4. CASE UnregisterFinished
  BY <1>4 DEF UnregisterFinished, Unregister, Untouched, LetsGo, server, clients
<1>5. CASE PutNotification
  <2>1. hand # <<>> /\ hand[1].at = "put" /\ UNCHANGED <<state, wire, route>> /\ Untouched
    BY <1>5 DEF PutNotification, Untouched, server, clients
  <2>2. hand[1] \in Notified
    BY <2>1, HandTyped DEF TypeInv
  <2> DEFINE x == [hand[1] EXCEPT !.at = "unregister"]
  <2>3. x.at = "unregister" /\ x.to = hand[1].to
    BY <2>2 DEF Notified
  <2>4. hand' = IF state[hand[1].to].finished THEN <<x>> ELSE <<>>
    BY <1>5 DEF PutNotification
  <2> HIDE DEF x
  <2>5. IF state[hand[1].to].finished THEN hand' # <<>> /\ hand'[1] = x ELSE hand' = <<>>
    BY <2>4
  <2> QED BY <2>1, <2>3, <2>5 DEF Puts
<1>6. CASE FailAll
  <2>1. /\ hand = <<>> /\ route' = Nobody /\ UNCHANGED <<wire, state>> /\ Untouched
        /\ hand' = IF route = Nobody THEN <<>> ELSE <<[at |-> "fail", to |-> route]>>
    BY <1>6 DEF FailAll, Untouched, clients
  <2> DEFINE x == [at |-> "fail", to |-> route]
  <2>2. x.at = "fail" /\ x.to = route
    OBVIOUS
  <2>3. hand' = IF route = Nobody THEN <<>> ELSE <<x>>
    BY <2>1
  <2> HIDE DEF x
  <2>4. IF route = Nobody THEN hand' = <<>> ELSE hand' # <<>> /\ hand'[1] = x
    BY <2>3
  <2> QED BY <2>1, <2>2, <2>4 DEF Quits
<1>7. CASE FailGoal
  <2> DEFINE g == hand[1].to
             x == [hand[1] EXCEPT !.at = "put failure"]
  <2>1. /\ hand # <<>> /\ hand[1].at = "fail" /\ g \in Goals /\ hand[1] \in Failures
        /\ state[g] \in States /\ DOMAIN state = Goals /\ UNCHANGED <<wire, route>> /\ Untouched
    BY <1>7, HandTyped DEF FailGoal, TypeInv, ReaderType, Untouched, server, clients
  <2>2. state'[g] = Failed(state[g]) /\ \A h \in Goals : h # g => state'[h] = state[h]
    BY <1>7, <2>1 DEF FailGoal, States, Failed
  <2>3. x.at = "put failure" /\ x.to = g
    BY <2>1 DEF Failures
  <2>4. hand' = <<x>>
    BY <1>7 DEF FailGoal
  <2> HIDE DEF x
  <2>5. hand' # <<>> /\ hand'[1] = x
    BY <2>4
  <2> QED BY <2>1, <2>2, <2>3, <2>5 DEF Fails
<1>8. CASE PutFailure
  BY <1>8 DEF PutFailure, Untouched, Puts, server, clients
<1> QED BY <1>1, <1>2, <1>3, <1>4, <1>5, <1>6, <1>7, <1>8 DEF Reader

\* What the reader leaves of a state it observes a notification for.
LEMMA ObservedFields ==
  ASSUME NEW st \in States, NEW msg \in Notices
  PROVE  LET told == Told(st, msg)
             new == Observed(st, msg)
         IN /\ new \in States /\ SameView(told, new)
            /\ new.routing = st.routing /\ new.failure = st.failure
            /\ new.queue = Append(st.queue, msg)
            /\ new.finished = (st.finished \/ Over(new))
<1> DEFINE told == Told(st, msg)
           new == Observed(st, msg)
<1>1. told \in States /\ told.finished = st.finished /\ told.failure = st.failure
      /\ told.routing = st.routing /\ told.queue = st.queue
  BY ToldFields
<1>2. new \in States /\ new = [told EXCEPT !.finished = @ \/ Over(told), !.queue = Append(@, msg)]
  BY ObservedTyped DEF Observed
<1> HIDE DEF told, new
<1>3. /\ SameView(told, new) /\ new.routing = told.routing /\ new.failure = told.failure
      /\ new.queue = Append(told.queue, msg) /\ new.finished = (told.finished \/ Over(told))
  BY <1>1, <1>2 DEF States, SameView
<1>4. Over(told) <=> Over(new)
  BY <1>3 DEF SameView, Over
<1> QED BY <1>1, <1>2, <1>3, <1>4 DEF told, new

LEMMA FailedFields ==
  ASSUME NEW st \in States
  PROVE  LET new == Failed(st) IN
         /\ new \in States /\ SameView(st, new)
         /\ new.routing = st.routing /\ new.finished = st.finished
         /\ new.queue = Append(st.queue, [kind |-> "failure"])
<1>1. [kind |-> "failure"] \in Queued
  BY DEF Queued
<1>2. Append(st.queue, [kind |-> "failure"]) \in Seq(Queued)
  BY <1>1 DEF States
<1> QED BY <1>2 DEF States, Failed, SameView

LEMMA FailsKeepsView ==
  ASSUME TypeInv, Fails, NEW g \in Goals
  PROVE  /\ SameView(state[g], state'[g])
         /\ state'[g].routing = state[g].routing /\ state'[g].finished = state[g].finished
<1>1. state[g] \in States
  BY DEF TypeInv, ReaderType
<1>2. CASE g = hand[1].to
  BY <1>1, <1>2, FailedFields DEF Fails
<1>3. CASE g # hand[1].to
  BY <1>3 DEF Fails, SameView
<1> QED BY <1>2, <1>3

\* For every goal: what it has once, it keeps.
LEMMA ReaderKeepsStarted ==
  ASSUME TypeInv, Reader, NEW g \in Goals
  PROVE  /\ state'[g].routing = state[g].routing
         /\ state[g].started # 0 => state'[g].started = state[g].started
         /\ ~state[g].routing => state'[g].current = state[g].current /\ state'[g].started = state[g].started
         /\ state'[g] = state[g] \/ Observing(g) \/ Failing(g)
<1>0. state[g] \in States
  BY DEF TypeInv, ReaderType
<1>1. CASE TakesLine \/ Drops \/ Puts \/ LetsGo \/ Quits
  BY <1>1 DEF TakesLine, Drops, Puts, LetsGo, Quits
<1>2. CASE Observes /\ hand[1].to # g
  BY <1>2 DEF Observes
<1>3. CASE Observes /\ hand[1].to = g
  <2>1. hand[1].msg \in Notices /\ state'[g] = Observed(state[g], hand[1].msg) /\ Observing(g)
        /\ (state[g].routing \/ hand[1].msg.kind = "goal")
    BY <1>3 DEF Observes, Observing
  <2>2. /\ SameView(Told(state[g], hand[1].msg), state'[g]) /\ state'[g].routing = state[g].routing
    BY <1>0, <2>1, ObservedFields
  <2>3. LET new == Told(state[g], hand[1].msg) IN
        /\ state[g].started # 0 => new.started = state[g].started
        /\ hand[1].msg.kind = "goal" => new.current = state[g].current /\ new.started = state[g].started
    BY <1>0, <2>1, ToldFields
  <2> QED BY <2>1, <2>2, <2>3 DEF SameView
<1>4. CASE Fails
  <2>1. state'[g] = state[g] \/ Failing(g)
    BY <1>4 DEF Fails, Failing
  <2> QED BY <1>4, <2>1, FailsKeepsView DEF SameView
<1> QED BY <1>1, <1>2, <1>3, <1>4, ReaderSteps

-----------------------------------------------------------------------------
(* The steps of each process. *)

ServerStep ==
  \/ StartTurn \/ EndGoal \/ Crash \/ \E status \in {"completed", "failed"} : EndTurn(status)
  \/ \E c \in Callers : Serve(c) \/ \E what \in {"invalid", "error"} : Refuse(c, what)
OutOfReach == UNCHANGED <<hand, route, state, cursor, pc, yielded>>

LEMMA ServerDoes ==
  ASSUME TypeInv, LabelInv, ServerStep
  PROVE  /\ OutOfReach /\ OwnerMoves /\ \E s : Writes(s)
         /\ \A g : ForeignTurns(g) \subseteq ForeignTurns(g)'
<1>1. OutOfReach
  BY ServerSteps DEF ServerStep, OutOfReach, reader, clients
<1>2. \A g \in Goals : pc[g] # "turn"
  BY DEF LabelInv
<1>3. OwnerMoves /\ \E s : Writes(s)
  BY <1>2, ServeWrites, ServerWrites DEF ServerStep
<1>4. \A g : ForeignTurns(g) \subseteq ForeignTurns(g)'
  <2>1. startedBy \in Seq(Callers \cup {Nobody})
    BY StartedByTyped
  <2>2. startedBy' = startedBy \/ \E c \in Callers \cup {Nobody} : startedBy' = Append(startedBy, c)
    BY <1>3 DEF Writes, TurnGoesOn, TurnEnds, TurnStarts
  <2>3. DOMAIN startedBy \subseteq DOMAIN startedBy' /\ \A n \in DOMAIN startedBy : startedBy'[n] = startedBy[n]
    <3>1. CASE startedBy' = startedBy
      BY <3>1
    <3>2. ASSUME NEW c \in Callers \cup {Nobody}, startedBy' = Append(startedBy, c)
          PROVE  DOMAIN startedBy \subseteq DOMAIN startedBy' /\ \A n \in DOMAIN startedBy : startedBy'[n] = startedBy[n]
      BY <2>1, <3>2
    <3> QED BY <2>2, <3>1, <3>2
  <2> QED BY <2>3 DEF ForeignTurns
<1> QED BY <1>1, <1>3, <1>4

\* The reader only touches a live goal that has the thread, or had it until the reader quit.
LEMMA ReaderMeetsOwner ==
  ASSUME TypeInv, RouteInv, LabelInv, EndInv, Reader, NEW g \in Goals, Live(g), state'[g] # state[g]
  PROVE  (route = g /\ Operating(g)) \/ (Failing(g) /\ pc[g] \notin Beginning)
<1>1. Observing(g) \/ Failing(g)
  BY ReaderKeepsStarted
<1>2. Observing(g) => route = g
  BY DEF EndInv
<1>3. route = g => Operating(g)
  BY DEF RouteInv, RouteFollowsOperation
<1>4. Failing(g) => pc[g] \notin Beginning
  BY DEF LabelInv
<1> QED BY <1>1, <1>2, <1>3, <1>4

-----------------------------------------------------------------------------
(* Beginnings. *)

LEMMA LabelByServer ==
  ASSUME TypeInv, LabelInv, ServerStep
  PROVE  LabelInv'
BY ServerDoes DEF OutOfReach, LabelInv, Failing

LEMMA LabelByReader ==
  ASSUME TypeInv, RouteInv, LabelInv, EndInv, Reader
  PROVE  LabelInv'
<1>1. Untouched
  BY ReaderSteps
<1>2. ASSUME NEW g \in Goals, pc[g] \in Beginning PROVE state'[g] = state[g]
  <2>1. Live(g) /\ ~Operating(g)
    BY <1>2 DEF Beginning, Live, Finished, Operating
  <2> QED BY <1>2, <2>1, ReaderMeetsOwner
<1>3. \A g \in Goals : state'[g].routing = state[g].routing
  BY ReaderKeepsStarted
<1>4. ASSUME NEW g \in Goals, Failing(g)' PROVE Failing(g) \/ Operating(g)
  <2>1. CASE Quits
    <3>1. route = g
      BY <1>4, <2>1 DEF Quits, Failing
    <3> QED BY <3>1 DEF RouteInv, RouteFollowsOperation
  <2>2. CASE TakesLine \/ Drops \/ Observes \/ Puts \/ LetsGo \/ Fails
    BY <1>4, <2>2 DEF TakesLine, Drops, Observes, Puts, LetsGo, Fails, Failing
  <2> QED BY <2>1, <2>2, ReaderSteps
<1>5. \A g \in Goals : Failing(g)' => pc'[g] \notin Beginning
  BY <1>1, <1>4 DEF LabelInv, Untouched, Operating, Beginning
<1> QED BY <1>1, <1>2, <1>3, <1>5 DEF LabelInv, Untouched

LEMMA LabelByClient ==
  ASSUME TypeInv, LabelInv, ClientStep
  PROVE  LabelInv'
<1>1. /\ DOMAIN yielded' = Goals
      /\ \A h \in Goals : StaysStill(h) \/ Opens(h) \/ Takes(h) \/ Stops(h)
  BY ClientSteps DEF LabelInv
<1>2. ASSUME NEW g \in Goals
      PROVE  /\ pc'[g] \in Beginning => state'[g] = NewState /\ cursor'[g] = NewCursor /\ yielded'[g] = <<>>
             /\ pc'[g] = "set" => state'[g].routing
             /\ pc'[g] # "turn"
             /\ pc'[g] \in Beginning => pc[g] \in Beginning
  <2>1. CASE StaysStill(g)
    BY <2>1 DEF StaysStill, LabelInv
  <2>2. CASE Opens(g)
    <3>1. state[g] \in States
      BY DEF TypeInv, ReaderType
    <3>2. state'[g].routing
      BY <2>2, <3>1 DEF Opens, States
    <3> QED BY <2>2, <3>2 DEF Opens, Beginning
  <2>3. CASE Takes(g)
    BY <2>3 DEF Takes, Beginning
  <2>4. CASE Stops(g)
    BY <2>4 DEF Stops, Beginning, Finished
  <2> QED BY <1>1, <2>1, <2>2, <2>3, <2>4
<1>3. UNCHANGED hand
  BY ClientSteps DEF LabelInv, Surroundings
<1>4. \A g \in Goals : Failing(g)' <=> Failing(g)
  BY <1>3 DEF Failing
<1> QED BY <1>1, <1>2, <1>4 DEF LabelInv

-----------------------------------------------------------------------------
(* Ends. *)

LEMMA FaithfulFirst ==
  ASSUME NEW st \in States, NEW cur, NEW F, Faithful(st, cur, F)
  PROVE  Announces(cur, st.started, F)
<1>1. Len(st.queue) \in Nat
  BY DEF States
<1>2. 0 \in 0 .. Len(st.queue)
  BY <1>1
<1> QED BY <1>2 DEF Faithful, Path

LEMMA TurnByServer ==
  ASSUME TypeInv, LabelInv, TurnInv, ServerStep
  PROVE  TurnInv'
<1>1. OutOfReach /\ \A g : ForeignTurns(g) \subseteq ForeignTurns(g)'
  BY ServerDoes
<1>2. \A g \in Goals : ~Live(g)' => ~Live(g)
  BY <1>1 DEF OutOfReach, Live
<1>3. \A g \in Goals : OneTurn(g) => OneTurn(g)'
  BY <1>1 DEF OutOfReach, OneTurn
<1> QED BY <1>2, <1>3 DEF TurnInv

LEMMA TurnByReader ==
  ASSUME TypeInv, TurnInv, Reader
  PROVE  TurnInv'
<1>1. UNCHANGED <<startedBy, pc, yielded>>
  BY ReaderSteps DEF Untouched
<1>2. ASSUME NEW g \in Goals, OneTurn(g) PROVE OneTurn(g)'
  <2>1. state[g].started # 0 => state'[g].started = state[g].started
    BY ReaderKeepsStarted
  <2>2. ForeignTurns(g)' = ForeignTurns(g)
    BY <1>1 DEF ForeignTurns
  <2> QED BY <1>1, <1>2, <2>1, <2>2 DEF OneTurn
<1>3. \A g \in Goals : ~Live(g)' => ~Live(g)
  BY <1>1 DEF Live
<1> QED BY <1>2, <1>3 DEF TurnInv

LEMMA AppendSecond ==
  ASSUME NEW S, NEW s \in Seq(S), NEW b \in S, Len(s) = 1
  PROVE  /\ Append(s, b) \in Seq(S) /\ Len(Append(s, b)) = 2
         /\ Append(s, b)[1] = s[1] /\ Append(s, b)[2] = b
<1>1. Len(s) + 1 = 2 /\ 1 \in 1 .. Len(s)
  OBVIOUS
<1>2. Append(s, b) \in Seq(S) /\ Len(Append(s, b)) = Len(s) + 1
  OBVIOUS
<1>3. Append(s, b)[1] = s[1]
  BY <1>1
<1>4. Append(s, b)[Len(s) + 1] = b
  BY Appended
<1> QED BY <1>1, <1>2, <1>3, <1>4

LEMMA AppendOne ==
  ASSUME NEW a, NEW b
  PROVE  Append(<<a>>, b) = <<a, b>>
<1> DEFINE S == {a, b}
           s == <<a>>
           t == <<a, b>>
<1>1. a \in S /\ b \in S
  OBVIOUS
<1> HIDE DEF S
<1>2. s \in Seq(S) /\ Len(s) = 1 /\ s[1] = a
  BY <1>1
<1>3. t \in Seq(S) /\ Len(t) = 2 /\ t[1] = a /\ t[2] = b
  BY <1>1
<1> HIDE DEF s, t
<1>4. Append(s, b) \in Seq(S) /\ Len(Append(s, b)) = 2 /\ Append(s, b)[1] = a /\ Append(s, b)[2] = b
  BY <1>1, <1>2, AppendSecond
<1>5. Len(t) = Len(Append(s, b)) /\ \A k \in 1 .. Len(t) : t[k] = Append(s, b)[k]
  BY <1>3, <1>4
<1>6. t = Append(s, b)
  BY <1>3, <1>4, <1>5, SeqEqual
<1> QED BY <1>6 DEF s, t

\* A stream that ends showed the start of the turn its caller waited for, and its end.
LEMMA StopShowsOneTurn ==
  ASSUME TypeInv, EndInv, FaithInv, NEW g \in Goals, Stops(g), UNCHANGED startedBy
  PROVE  OneTurn(g)'
<1> DEFINE n == state[g].started
           k == cursor[g].started
<1>1. /\ state[g] \in States /\ cursor[g] \in Cursors /\ Live(g)
      /\ Faithful(state[g], cursor[g], ForeignTurns(g)) /\ state'[g].started = n
      /\ ForeignTurns(g)' = ForeignTurns(g)
  BY DEF TypeInv, ReaderType, ClientType, Stops, FaithInv, ForeignTurns
<1>2. k \in {0, n} /\ yielded[g] = IF k = 0 THEN <<>> ELSE <<<<"started", k>>>>
  <2>1. Announces(cursor[g], n, ForeignTurns(g))
    BY <1>1, FaithfulFirst
  <2> QED BY <1>1, <2>1 DEF Announces, EndInv, YieldedSoFar
<1>3. CASE pc'[g] # "done" /\ yielded'[g] = yielded[g]
  <2> HIDE DEF n, k
  <2>1. CASE k = 0
    BY <1>2, <1>3, <2>1 DEF OneTurn
  <2>2. CASE k # 0
    <3>1. n # 0 /\ yielded'[g] = <<<<"started", n>>>>
      BY <1>2, <1>3, <2>2
    <3> QED BY <1>1, <1>3, <3>1 DEF OneTurn
  <2> QED BY <2>1, <2>2
<1>4. CASE Completes(g)
  <2> DEFINE cur == Advanced(cursor[g], Msg(g))
             m == cur.last
  <2>1. /\ state[g].queue # <<>> /\ m # 0 /\ cur.started = k /\ pc'[g] = "done"
        /\ yielded'[g] = Append(yielded[g], <<"completed", m>>)
    BY <1>4 DEF Completes
  <2>2. Announces(cur, n, ForeignTurns(g))
    <3> DEFINE st2 == [state[g] EXCEPT !.queue = Tail(@)]
    <3>1. Tail(state[g].queue) \in Seq(Queued)
      BY <1>1, <2>1 DEF States
    <3>2. st2 \in States /\ st2.queue = Tail(state[g].queue) /\ SameView(state[g], st2)
      BY <1>1, <3>1 DEF States, SameView
    <3> HIDE DEF st2
    <3> QED BY <1>1, <2>1, <3>2, FaithfulTail DEF Msg
  <2> HIDE DEF n, k, m, cur
  <2>3. CASE k = 0
    <3>1. yielded'[g] = <<<<"completed", m>>>>
      BY <1>2, <2>1, <2>3
    <3>2. m \in ForeignTurns(g)'
      BY <1>1, <2>1, <2>2, <2>3 DEF Announces, m
    <3> QED BY <2>1, <3>1, <3>2 DEF OneTurn
  <2>4. CASE k # 0
    <3>1. n # 0 /\ yielded[g] = <<<<"started", n>>>>
      BY <1>2, <2>4
    <3>2. yielded'[g] = <<<<"started", n>>, <<"completed", m>>>>
      BY <2>1, <3>1, AppendOne
    <3> QED BY <1>1, <2>1, <3>1, <3>2 DEF OneTurn
  <2> QED BY <2>3, <2>4
<1> QED BY <1>3, <1>4 DEF Stops

LEMMA TurnByClient ==
  ASSUME TypeInv, LabelInv, EndInv, FaithInv, TurnInv, ClientStep
  PROVE  TurnInv'
<1>1. /\ \A h \in Goals : StaysStill(h) \/ Opens(h) \/ Takes(h) \/ Stops(h)
      /\ UNCHANGED startedBy
  BY ClientSteps DEF LabelInv, Surroundings
<1>2. ASSUME NEW g \in Goals, ~Live(g)' PROVE OneTurn(g)'
  <2>1. CASE StaysStill(g)
    <3>1. pc'[g] = pc[g] /\ ~Live(g) /\ state'[g] = state[g] /\ yielded'[g] = yielded[g]
      BY <1>2, <2>1 DEF StaysStill, Live
    <3> QED BY <1>1, <3>1 DEF TurnInv, OneTurn, ForeignTurns
  <2>2. CASE Opens(g) \/ Takes(g)
    BY <1>2, <2>2 DEF Opens, Takes, Live, Finished
  <2>3. CASE Stops(g)
    BY <1>1, <2>3, StopShowsOneTurn
  <2> QED BY <1>1, <2>1, <2>2, <2>3
<1> QED BY <1>2 DEF TurnInv

-----------------------------------------------------------------------------
(* Lines and the current turn. *)

LEMMA NobodyIsNoGoal == Nobody \notin Goals
BY GoalAssumption DEF Callers

\* What the app-server writes leaves the end of a turn next.
LEMMA EndStaysNext ==
  ASSUME TypeInv, NEW s, Writes(s), NEW n, n # 0, NEW i \in 0 .. Len(wire), NextEnd(wire, running, n, i)
  PROVE  NextEnd(wire', running', n, i)
<1>1. wire \in Seq(Lines) /\ s \in Seq(Lines) /\ wire' = wire \o s
  BY DEF Writes, TypeInv, ServerType
<1>2. running = n => \/ running' = n /\ \A k \in DOMAIN s : s[k].kind # "completed"
                     \/ s # <<>> /\ s[1].kind = "completed" /\ s[1].n = n
  BY DEF Writes, TurnGoesOn, TurnEnds, TurnStarts, Silent
<1> QED BY <1>1, <1>2, NextEndGrows

LEMMA LineByServer ==
  ASSUME TypeInv, LabelInv, LineInv, ServerStep
  PROVE  LineInv'
<1>1. OutOfReach /\ wire \in Seq(Lines)
  BY ServerDoes DEF TypeInv, ServerType
<1>2. PICK s : Writes(s)
  BY ServerDoes
<1>3. s \in Seq(Lines) /\ wire' = wire \o s
  BY <1>2 DEF Writes
<1>4. /\ Len(wire) \in Nat /\ Len(s) \in Nat /\ DOMAIN wire = 1 .. Len(wire) /\ DOMAIN s = 1 .. Len(s)
      /\ DOMAIN wire' = 1 .. Len(wire) + Len(s)
      /\ \A k \in 1 .. Len(wire) : wire'[k] = wire[k]
      /\ \A k \in Len(wire) + 1 .. Len(wire) + Len(s) : k - Len(wire) \in 1 .. Len(s) /\ wire'[k] = s[k - Len(wire)]
  BY <1>1, <1>3, LinesAdded
<1>5. \A k \in DOMAIN wire : wire[k] \in Lines
  BY <1>1
<1>6. \A x \in Lines : x.kind = "started" => x.n # 0
  <2>1. \A x \in Lines : x.kind = "started" => x \in StartedLines
    BY DEF Lines, Notices, Answers, EndedLines, GoalLines
  <2> QED BY <2>1, KindsOfLines
<1>7. ASSUME NEW i \in DOMAIN wire', wire'[i].kind = "started"
      PROVE  NextEnd(wire', running', wire'[i].n, i)
  <2>1. CASE i \in 1 .. Len(wire)
    <3>1. wire'[i] = wire[i] /\ i \in DOMAIN wire /\ i \in 0 .. Len(wire) /\ wire[i] \in Lines
      BY <1>4, <1>5, <2>1
    <3>2. wire[i].kind = "started" /\ wire[i].n # 0
      BY <1>6, <1>7, <3>1
    <3>3. NextEnd(wire, running, wire[i].n, i)
      BY <3>1, <3>2 DEF LineInv
    <3>4. NextEnd(wire', running', wire[i].n, i)
      BY <1>2, <3>1, <3>2, <3>3, EndStaysNext
    <3> QED BY <3>1, <3>4
  <2>2. CASE i \in Len(wire) + 1 .. Len(wire) + Len(s)
    <3> DEFINE k == i - Len(wire)
    <3>1. k \in DOMAIN s /\ wire'[i] = s[k] /\ i \in Nat /\ Len(wire) <= i /\ i <= Len(wire) + Len(s)
      BY <1>4, <2>2
    <3> HIDE DEF k
    <3>2. s[k].kind = "started"
      BY <1>7, <3>1
    <3>3. TurnStarts(s)
      <4>1. ~TurnGoesOn(s)
        BY <3>1, <3>2 DEF TurnGoesOn, Silent
      <4>2. ~TurnEnds(s)
        BY <3>1, <3>2 DEF TurnEnds, Silent
      <4> QED BY <1>2, <4>1, <4>2 DEF Writes
    <3>4. s[k].n = running' /\ \A j \in DOMAIN s : s[j].kind # "completed"
      BY <3>1, <3>2, <3>3 DEF TurnStarts
    <3>5. NextEnd(wire \o s, running', running', i)
      BY <1>1, <1>3, <3>1, <3>4, NextEndRuns
    <3> QED BY <1>3, <3>1, <3>4, <3>5
  <2>3. i \in 1 .. Len(wire) \/ i \in Len(wire) + 1 .. Len(wire) + Len(s)
    BY <1>4
  <2> QED BY <2>1, <2>2, <2>3
<1>8. ASSUME Holding("started")' PROVE NextEnd(wire', running', hand'[1].msg.n, 0)
  <2>1. Holding("started") /\ hand' = hand
    BY <1>1, <1>8 DEF Holding, OutOfReach
  <2>2. hand[1].msg \in Notices
    BY <2>1, HandTyped DEF Holding, TypeInv, Notified
  <2>3. hand[1].msg.n # 0
    BY <1>6, <2>1, <2>2, LinesTyped DEF Holding
  <2>4. NextEnd(wire, running, hand[1].msg.n, 0)
    BY <2>1 DEF LineInv
  <2>5. 0 \in 0 .. Len(wire)
    BY <1>4
  <2> QED BY <1>2, <2>1, <2>3, <2>4, <2>5, EndStaysNext
<1> QED BY <1>7, <1>8 DEF LineInv

LEMMA CurrentByServer ==
  ASSUME TypeInv, LabelInv, CurrentInv, ServerStep
  PROVE  CurrentInv'
<1>1. OutOfReach
  BY ServerDoes
<1>2. PICK s : Writes(s)
  BY ServerDoes
<1>3. 0 \in 0 .. Len(wire)
  BY DEF TypeInv, ServerType
<1>4. ASSUME NEW g \in Goals, Live(g)', route' = g, state'[g].current # 0
      PROVE  IF (Observing(g) /\ Holding("completed"))' THEN hand'[1].msg.n = state'[g].current
             ELSE NextEnd(wire', running', state'[g].current, 0)
  <2>1. /\ Live(g) /\ route = g /\ state'[g] = state[g] /\ hand' = hand /\ state[g].current # 0
        /\ (Observing(g) /\ Holding("completed"))' = (Observing(g) /\ Holding("completed"))
    BY <1>1, <1>4 DEF OutOfReach, Live, Observing, Holding
  <2>2. CASE Observing(g) /\ Holding("completed")
    BY <2>1, <2>2 DEF CurrentInv
  <2>3. CASE ~(Observing(g) /\ Holding("completed"))
    <3>1. NextEnd(wire, running, state[g].current, 0)
      BY <2>1, <2>3 DEF CurrentInv
    <3>2. NextEnd(wire', running', state[g].current, 0)
      BY <1>2, <1>3, <2>1, <3>1, EndStaysNext
    <3> QED BY <2>1, <2>3, <3>2
  <2> QED BY <2>2, <2>3
<1> QED BY <1>4 DEF CurrentInv

\* The reader takes a line from stdout.
LEMMA LineIsTaken ==
  ASSUME TypeInv, LineInv, CurrentInv, TakesLine, Untouched
  PROVE  LineInv' /\ CurrentInv'
<1>1. wire \in Seq(Lines) /\ wire # <<>> /\ wire' = Tail(wire) /\ hand = <<>> /\ UNCHANGED <<running, pc, state, route>>
  BY DEF TypeInv, ServerType, TakesLine, Untouched
<1>2. /\ \A k \in DOMAIN wire' : k \in Nat /\ k + 1 \in DOMAIN wire /\ wire'[k] = wire[k + 1]
      /\ Head(wire) = wire[1] /\ 1 \in DOMAIN wire
  <2>1. /\ Len(wire) \in Nat /\ Len(wire') = Len(wire) - 1 /\ DOMAIN wire = 1 .. Len(wire)
        /\ DOMAIN wire' = 1 .. Len(wire') /\ \A k \in 1 .. Len(wire') : wire'[k] = wire[k + 1]
        /\ Head(wire) = wire[1] /\ 1 \in DOMAIN wire
    BY <1>1, TailOfLines
  <2> QED BY <2>1
<1>3. ASSUME NEW i \in DOMAIN wire', wire'[i].kind = "started"
      PROVE  NextEnd(wire', running', wire'[i].n, i)
  <2>1. NextEnd(wire, running, wire'[i].n, i + 1) /\ i \in Nat
    BY <1>2, <1>3 DEF LineInv
  <2> QED BY <1>1, <2>1, NextEndMovesUp
<1>4. ASSUME Holding("started")' PROVE NextEnd(wire', running', hand'[1].msg.n, 0)
  <2>1. hand'[1].msg = wire[1] /\ wire[1].kind = "started"
    BY <1>2, <1>4 DEF Holding, TakesLine
  <2>2. NextEnd(wire, running, wire[1].n, 0 + 1)
    BY <1>2, <2>1 DEF LineInv
  <2> QED BY <1>1, <2>1, <2>2, NextEndMovesUp
<1>5. ASSUME NEW g \in Goals, Live(g)', route' = g, state'[g].current # 0
      PROVE  IF (Observing(g) /\ Holding("completed"))' THEN hand'[1].msg.n = state'[g].current
             ELSE NextEnd(wire', running', state'[g].current, 0)
  <2>1. NextEnd(wire, running, state[g].current, 0) /\ state'[g] = state[g] /\ route = g /\ route # Nobody
    <3>1. Live(g) /\ route = g /\ state[g].current # 0 /\ ~Observing(g)
      BY <1>1, <1>5 DEF Live, Observing
    <3> QED BY <1>1, <3>1, NobodyIsNoGoal DEF CurrentInv
  <2>2. CASE Head(wire).kind = "completed"
    <3>1. Head(wire).n = state[g].current
      BY <1>1, <2>1, <2>2, NextEndHead
    <3>2. (Observing(g) /\ Holding("completed"))' /\ hand'[1].msg = Head(wire)
      BY <2>1, <2>2 DEF TakesLine, Observing, Holding
    <3> QED BY <2>1, <3>1, <3>2
  <2>3. CASE Head(wire).kind # "completed"
    <3>1. NextEnd(Tail(wire), running, state[g].current, 0)
      BY <1>1, <2>1, <2>3, NextEndHead
    <3>2. ~Holding("completed")'
      BY <2>3 DEF TakesLine, Holding
    <3> QED BY <1>1, <2>1, <3>1, <3>2
  <2> QED BY <2>2, <2>3
<1> QED BY <1>3, <1>4, <1>5 DEF LineInv, CurrentInv

\* The reader observes the end of a turn, which is the current one's if there is one.
LEMMA CurrentObserved ==
  ASSUME TypeInv, LineInv, CurrentInv, OwnInv, Observes, NEW g \in Goals, Observing(g), Live(g), route = g,
         state'[g].current # 0
  PROVE  NextEnd(wire, running, state'[g].current, 0)
<1> DEFINE msg == hand[1].msg
<1>1. state[g] \in States /\ msg \in Notices /\ hand # <<>> /\ hand[1].at = "observe" /\ hand[1].to = g
      /\ state'[g] = Observed(state[g], msg)
  BY DEF TypeInv, ReaderType, Observes, Observing
<1>2. state'[g].current = CASE msg.kind = "started" -> msg.n
                            [] msg.kind = "completed" -> IF state[g].current = msg.n THEN 0 ELSE state[g].current
                            [] msg.kind = "goal" -> state[g].current
  <2>1. SameView(Told(state[g], msg), state'[g])
    BY <1>1, ObservedFields
  <2> QED BY <1>1, <2>1, ToldFields DEF SameView
<1>3. msg.kind \in {"started", "completed", "goal"}
  BY <1>1, KindsOfLines
<1>4. CASE msg.kind = "started"
  BY <1>1, <1>2, <1>4 DEF LineInv, Holding
<1>5. CASE msg.kind = "completed"
  <2>1. state[g].current # 0 => msg.n = state[g].current
    BY <1>1, <1>5 DEF CurrentInv, Observing, Holding
  <2> QED BY <1>2, <1>5, <2>1
<1>6. CASE msg.kind = "goal"
  <2>1. state'[g].current = state[g].current
    BY <1>2, <1>6
  <2> QED BY <1>6, <2>1 DEF CurrentInv, Holding
<1> QED BY <1>3, <1>4, <1>5, <1>6

LEMMA LineByReader ==
  ASSUME TypeInv, LineInv, CurrentInv, OwnInv, Reader
  PROVE  LineInv' /\ CurrentInv'
<1>1. Untouched
  BY ReaderSteps
<1>2. CASE TakesLine
  BY <1>1, <1>2, LineIsTaken
<1>3. ASSUME Drops \/ Observes \/ Puts \/ LetsGo \/ Quits \/ Fails PROVE LineInv' /\ CurrentInv'
  <2>1. UNCHANGED <<wire, running, pc>> /\ \A k : ~Holding(k)'
    BY <1>1, <1>3 DEF Untouched, Drops, Observes, Puts, LetsGo, Quits, Fails, Holding
  <2>2. LineInv'
    BY <2>1 DEF LineInv
  <2>3. ASSUME NEW g \in Goals, Live(g)', route' = g, state'[g].current # 0
        PROVE  NextEnd(wire, running, state'[g].current, 0)
    <3>1. Live(g) /\ route = g
      <4>1. Nobody # g
        BY NobodyIsNoGoal
      <4> QED BY <1>3, <2>1, <2>3, <4>1 DEF Live, Drops, Observes, Puts, LetsGo, Quits, Fails
    <3>2. CASE Drops
      <4>1. state'[g] = state[g] /\ ~(Observing(g) /\ Holding("completed"))
        <5>1. ~state[hand[1].to].routing /\ UNCHANGED state
          BY <3>2 DEF Drops
        <5>2. Observing(g) => state[g].current = 0
          BY <5>1 DEF Observing, OwnInv, NotOpen
        <5> QED BY <2>3, <5>1, <5>2
      <4> QED BY <2>3, <3>1, <4>1 DEF CurrentInv
    <3>3. CASE Observes
      <4>1. CASE Observing(g)
        BY <2>3, <3>1, <3>3, <4>1, CurrentObserved
      <4>2. CASE ~Observing(g)
        <5>1. state'[g] = state[g]
          BY <3>3, <4>2 DEF Observes, Observing
        <5> QED BY <2>3, <3>1, <4>2, <5>1 DEF CurrentInv
      <4> QED BY <4>1, <4>2
    <3>4. CASE Puts \/ LetsGo \/ Quits
      <4>1. state'[g] = state[g] /\ ~Observing(g)
        BY <3>4 DEF Puts, LetsGo, Quits, Observing
      <4> QED BY <2>3, <3>1, <4>1 DEF CurrentInv
    <3>5. CASE Fails
      <4>1. state'[g].current = state[g].current /\ ~Observing(g)
        BY <3>5, FailsKeepsView DEF Observing, Fails, SameView
      <4> QED BY <2>3, <3>1, <4>1 DEF CurrentInv
    <3> QED BY <1>3, <3>2, <3>3, <3>4, <3>5
  <2> QED BY <2>1, <2>2, <2>3 DEF CurrentInv
<1> QED BY <1>2, <1>3, ReaderSteps

LEMMA LineByClient ==
  ASSUME TypeInv, LabelInv, LineInv, CurrentInv, ClientStep
  PROVE  LineInv' /\ CurrentInv'
<1>1. /\ \A h \in Goals : StaysStill(h) \/ Opens(h) \/ Takes(h) \/ Stops(h)
      /\ UNCHANGED <<wire, hand, running>>
      /\ route' \in {route, Nobody} \/ \E g \in Goals : route' = g /\ pc[g] = "read" /\ StaysStill(g)
  BY ClientSteps DEF LabelInv, Surroundings
<1>2. LineInv'
  BY <1>1 DEF LineInv, Holding
<1>3. ASSUME NEW g \in Goals, Live(g)', route' = g, state'[g].current # 0
      PROVE  Live(g) /\ route = g /\ state'[g].current = state[g].current
  <2>1. Live(g) /\ state'[g].current = state[g].current
    <3>1. state[g] \in States
      BY DEF TypeInv, ReaderType
    <3>2. CASE StaysStill(g)
      BY <1>3, <3>2 DEF StaysStill, Live
    <3>3. CASE Opens(g)
      BY <3>1, <3>3 DEF Opens, Live, Finished, States
    <3>4. CASE Takes(g)
      BY <3>1, <3>4 DEF Takes, Live, Finished, States
    <3>5. CASE Stops(g)
      BY <1>3, <3>5 DEF Stops, Live
    <3> QED BY <1>1, <3>2, <3>3, <3>4, <3>5
  <2>2. ~(pc[g] = "read")
    <3>1. pc[g] = "read" => state[g] = NewState
      BY DEF LabelInv, Beginning
    <3>2. NewState.current = 0
      BY DEF NewState
    <3> QED BY <1>3, <2>1, <3>1, <3>2
  <2> QED BY <1>1, <1>3, <2>1, <2>2, NobodyIsNoGoal
<1>4. \A g : Observing(g)' = Observing(g) /\ Holding("completed")' = Holding("completed")
  BY <1>1 DEF Observing, Holding
<1>5. CurrentInv'
  BY <1>1, <1>3, <1>4 DEF CurrentInv
<1> QED BY <1>2, <1>5

-----------------------------------------------------------------------------
(* The own turns of a goal. *)

\* A goal for which no turn was started hears only of the turns of others.
LEMMA AllForeign ==
  ASSUME TypeInv, NoiseInv, NEW g, \A n \in DOMAIN startedBy : startedBy[n] # g
  PROVE  /\ \A i \in DOMAIN wire : wire[i].kind = "completed" => wire[i].n \in ForeignTurns(g)
         /\ running # 0 => running \in ForeignTurns(g)
<1>1. ASSUME NEW i \in DOMAIN wire, wire[i].kind = "completed" PROVE wire[i].n \in ForeignTurns(g)
  <2>1. Known(wire[i], startedBy)
    BY DEF NoiseInv
  <2> QED BY <1>1, <2>1 DEF Known, ForeignTurns
<1>2. running # 0 => running \in DOMAIN startedBy
  BY StartedByTyped
<1> QED BY <1>1, <1>2 DEF ForeignTurns

\* What was announced stays so while the app-server writes.
LEMMA AnnouncedStays ==
  ASSUME TypeInv, NEW s \in Seq(Lines), wire' = wire \o s, OutOfReach,
         NEW g, NEW i \in 1 .. Len(wire) + 1, NEW k \in Nat, i <= k, Announced(g, i)
  PROVE  Announced(g, k)'
<1>1. wire \in Seq(Lines)
  BY DEF TypeInv, ServerType
<1>2. Len(wire) \in Nat /\ \A j \in 1 .. Len(wire) : wire'[j] = wire[j]
  BY <1>1, LinesAdded
<1>3. CASE \E j \in 1 .. i - 1 : wire[j].kind = "started"
  <2>1. PICK j \in 1 .. i - 1 : wire[j].kind = "started"
    BY <1>3
  <2>2. j \in 1 .. Len(wire) /\ j \in 1 .. k - 1
    BY <1>2
  <2>3. wire'[j].kind = "started"
    BY <1>2, <2>1, <2>2
  <2> QED BY <2>2, <2>3 DEF Announced
<1>4. CASE state[g].started # 0 \/ (Observing(g) /\ Holding("started"))
  BY <1>4 DEF Announced, OutOfReach, Observing, Holding
<1> QED BY <1>3, <1>4 DEF Announced

LEMMA EndsAnnouncedByServer ==
  ASSUME TypeInv, OutOfReach, NEW s, Writes(s), NEW g, EndsAnnounced(g),
         ForeignTurns(g) \subseteq ForeignTurns(g)'
  PROVE  EndsAnnounced(g)'
<1>1. wire \in Seq(Lines) /\ s \in Seq(Lines) /\ wire' = wire \o s
  BY DEF Writes, TypeInv, ServerType
<1>2. /\ Len(wire) \in Nat /\ Len(s) \in Nat /\ DOMAIN wire = 1 .. Len(wire) /\ DOMAIN s = 1 .. Len(s)
      /\ DOMAIN wire' = 1 .. Len(wire) + Len(s) /\ Len(wire') = Len(wire) + Len(s)
      /\ \A k \in 1 .. Len(wire) : wire'[k] = wire[k]
      /\ \A k \in Len(wire) + 1 .. Len(wire) + Len(s) : k - Len(wire) \in 1 .. Len(s) /\ wire'[k] = s[k - Len(wire)]
      /\ \A k \in 1 .. Len(s) : wire'[Len(wire) + k] = s[k]
  BY <1>1, LinesAdded
<1>3. ASSUME NEW i \in 1 .. Len(wire) + 1, NEW k \in Nat, i <= k, Announced(g, i) PROVE Announced(g, k)'
  BY <1>1, <1>3, AnnouncedStays
<1>4. ASSUME NEW i \in DOMAIN wire', wire'[i].kind = "completed"
      PROVE  wire'[i].n \in ForeignTurns(g)' \/ Announced(g, i)'
  <2>1. CASE i \in 1 .. Len(wire)
    <3>1. wire[i].n \in ForeignTurns(g) \/ Announced(g, i)
      BY <1>2, <1>4, <2>1 DEF EndsAnnounced
    <3>2. i \in 1 .. Len(wire) + 1 /\ i \in Nat /\ i <= i
      BY <1>2, <2>1
    <3> QED BY <1>2, <1>3, <2>1, <3>1, <3>2
  <2>2. CASE i \in Len(wire) + 1 .. Len(wire) + Len(s)
    <3>1. i - Len(wire) \in DOMAIN s /\ wire'[i] = s[i - Len(wire)]
      BY <1>2, <2>2
    <3>2. TurnEnds(s)
      <4>1. ~TurnGoesOn(s)
        BY <1>4, <3>1 DEF TurnGoesOn, Silent
      <4>2. ~TurnStarts(s)
        BY <1>4, <3>1 DEF TurnStarts
      <4> QED BY <4>1, <4>2 DEF Writes
    <3>3. i - Len(wire) = 1 /\ wire'[i].n = running /\ running # 0
      BY <1>4, <3>1, <3>2 DEF TurnEnds, Silent
    <3>4. running \in ForeignTurns(g) \/ Announced(g, Len(wire) + 1)
      BY <3>3 DEF EndsAnnounced
    <3>5. Len(wire) + 1 \in 1 .. Len(wire) + 1 /\ i \in Nat /\ Len(wire) + 1 <= i
      BY <1>2, <2>2
    <3> QED BY <1>3, <3>3, <3>4, <3>5
  <2>3. i \in 1 .. Len(wire) \/ i \in Len(wire) + 1 .. Len(wire) + Len(s)
    BY <1>2
  <2> QED BY <2>1, <2>2, <2>3
<1>5. ASSUME running' # 0 PROVE running' \in ForeignTurns(g)' \/ Announced(g, Len(wire) + 1)'
  <2>1. CASE TurnGoesOn(s)
    <3>1. running \in ForeignTurns(g) \/ Announced(g, Len(wire) + 1)
      BY <1>5, <2>1 DEF EndsAnnounced, TurnGoesOn
    <3>2. PICK k \in Nat : k = Len(wire') + 1 /\ Len(wire) + 1 <= k
      BY <1>2
    <3>3. Len(wire) + 1 \in 1 .. Len(wire) + 1
      BY <1>2
    <3>4. Announced(g, Len(wire) + 1) => Announced(g, k)'
      BY <1>3, <3>2, <3>3
    <3>5. Announced(g, k)' => Announced(g, Len(wire) + 1)'
      BY <3>2 DEF Announced
    <3> QED BY <2>1, <3>1, <3>4, <3>5 DEF TurnGoesOn
  <2>2. CASE TurnEnds(s)
    BY <1>5, <2>2 DEF TurnEnds
  <2>3. CASE TurnStarts(s)
    <3>1. PICK j \in DOMAIN s : s[j].kind = "started"
      BY <2>3 DEF TurnStarts
    <3>2. wire'[Len(wire) + j].kind = "started" /\ Len(wire) + j \in 1 .. (Len(wire') + 1) - 1
      BY <1>2, <3>1
    <3> QED BY <3>2 DEF Announced
  <2> QED BY <2>1, <2>2, <2>3 DEF Writes
<1> QED BY <1>4, <1>5 DEF EndsAnnounced

LEMMA OwnByServer ==
  ASSUME TypeInv, LabelInv, OwnInv, ServerStep
  PROVE  OwnInv'
<1>1. OutOfReach /\ OwnerMoves /\ \A g : ForeignTurns(g) \subseteq ForeignTurns(g)'
  BY ServerDoes
<1>2. PICK s : Writes(s)
  BY ServerDoes
<1>3. ASSUME NEW g \in Goals, ~state'[g].routing PROVE NotOpen(g)'
  <2>1. state'[g] = state[g] /\ ~state[g].routing /\ NotOpen(g)
    BY <1>1, <1>3 DEF OutOfReach, OwnInv
  <2>2. owner' # g
    <3>1. pc[g] # "set"
      BY <2>1 DEF LabelInv
    <3> QED BY <1>1, <2>1, <3>1, NobodyIsNoGoal DEF OwnerMoves, NotOpen
  <2>3. ASSUME NEW n \in DOMAIN startedBy' PROVE startedBy'[n] # g
    <3>1. startedBy \in Seq(Callers \cup {Nobody})
      BY StartedByTyped
    <3>2. CASE startedBy' = startedBy
      BY <2>1, <2>3, <3>2 DEF NotOpen
    <3>3. ASSUME NEW c \in Callers \cup {Nobody}, startedBy' = Append(startedBy, c), c \in Goals => c = owner
          PROVE  startedBy'[n] # g
      <4>1. c # g
        BY <2>1, <3>3 DEF NotOpen
      <4>2. startedBy'[n] = c \/ (n \in DOMAIN startedBy /\ startedBy'[n] = startedBy[n])
        BY <2>3, <3>1, <3>3
      <4> QED BY <2>1, <4>1, <4>2 DEF NotOpen
    <3> QED BY <1>2, <3>2, <3>3 DEF Writes, TurnGoesOn, TurnEnds, TurnStarts
  <2> QED BY <2>1, <2>2, <2>3 DEF NotOpen
<1>4. ASSUME NEW g \in Goals, (Live(g) /\ Observing(g) /\ Holding("completed"))'
      PROVE  state'[g].started # 0 \/ hand'[1].msg.n \in ForeignTurns(g)'
  <2>1. Live(g) /\ Observing(g) /\ Holding("completed") /\ state' = state /\ hand' = hand
    BY <1>1, <1>4 DEF OutOfReach, Live, Observing, Holding
  <2> QED BY <1>1, <2>1 DEF OwnInv
<1>5. ASSUME NEW g \in Goals, route' = g PROVE EndsAnnounced(g)'
  <2>1. EndsAnnounced(g)
    BY <1>1, <1>5 DEF OutOfReach, OwnInv
  <2> QED BY <1>1, <1>2, <2>1, EndsAnnouncedByServer
<1> QED BY <1>3, <1>4, <1>5 DEF OwnInv

LEMMA AnnouncedMovesUp ==
  ASSUME TypeInv, NEW g \in Goals, route = g, TakesLine, NEW i \in 1 .. Len(wire), Announced(g, i + 1)
  PROVE  Announced(g, i)'
<1>1. wire \in Seq(Lines) /\ wire # <<>> /\ wire' = Tail(wire) /\ UNCHANGED state /\ hand = <<>>
  BY DEF TypeInv, ServerType, TakesLine
<1>2. /\ Len(wire) \in Nat /\ Len(wire') = Len(wire) - 1 /\ Head(wire) = wire[1]
      /\ \A k \in 1 .. Len(wire') : wire'[k] = wire[k + 1]
  BY <1>1, TailOfLines
<1>3. CASE state[g].started # 0
  BY <1>1, <1>3 DEF Announced
<1>4. ASSUME NEW j \in 1 .. i, wire[j].kind = "started" PROVE Announced(g, i)'
  <2>1. CASE j = 1
    <3>1. Observing(g)' /\ Holding("started")'
      <4>1. Head(wire).kind = "started" /\ route # Nobody
        BY <1>2, <1>4, <2>1, NobodyIsNoGoal
      <4> QED BY <4>1 DEF TakesLine, Observing, Holding
    <3> QED BY <3>1 DEF Announced
  <2>2. CASE j # 1
    <3>1. j - 1 \in 1 .. Len(wire') /\ (j - 1) + 1 = j /\ j - 1 \in 1 .. i - 1
      BY <1>2, <2>2
    <3>2. wire'[j - 1] = wire[j]
      BY <1>2, <3>1
    <3> QED BY <1>4, <3>1, <3>2 DEF Announced
  <2> QED BY <2>1, <2>2
<1>5. state[g].started # 0 \/ \E j \in 1 .. i : wire[j].kind = "started"
  BY <1>1 DEF Announced, Observing
<1> QED BY <1>3, <1>4, <1>5

LEMMA EndsAnnouncedMoveUp ==
  ASSUME TypeInv, NEW g \in Goals, route = g, TakesLine, Untouched, EndsAnnounced(g)
  PROVE  EndsAnnounced(g)'
<1>1. wire \in Seq(Lines) /\ wire # <<>> /\ wire' = Tail(wire) /\ UNCHANGED <<startedBy, running>>
  BY DEF TypeInv, ServerType, TakesLine, Untouched
<1>2. /\ Len(wire) \in Nat /\ Len(wire) >= 1 /\ Len(wire') = Len(wire) - 1 /\ DOMAIN wire = 1 .. Len(wire)
      /\ DOMAIN wire' = 1 .. Len(wire') /\ \A k \in 1 .. Len(wire') : wire'[k] = wire[k + 1]
  BY <1>1, TailOfLines
<1>3. ForeignTurns(g)' = ForeignTurns(g)
  BY <1>1 DEF ForeignTurns
<1>4. ASSUME NEW i \in DOMAIN wire', wire'[i].kind = "completed"
      PROVE  wire'[i].n \in ForeignTurns(g)' \/ Announced(g, i)'
  <2>1. i + 1 \in DOMAIN wire /\ i \in 1 .. Len(wire) /\ wire'[i] = wire[i + 1]
    BY <1>2
  <2>2. wire[i + 1].n \in ForeignTurns(g) \/ Announced(g, i + 1)
    BY <1>4, <2>1 DEF EndsAnnounced
  <2> QED BY <1>3, <2>1, <2>2, AnnouncedMovesUp
<1>5. ASSUME running' # 0 PROVE running' \in ForeignTurns(g)' \/ Announced(g, Len(wire) + 1)'
  <2>1. running \in ForeignTurns(g) \/ Announced(g, Len(wire) + 1)
    BY <1>1, <1>5 DEF EndsAnnounced
  <2>2. PICK k \in 1 .. Len(wire) : k = Len(wire) /\ k = Len(wire') + 1
    BY <1>2
  <2>3. Announced(g, k + 1) => Announced(g, k)'
    BY <2>2, AnnouncedMovesUp
  <2>4. Announced(g, k)' => Announced(g, Len(wire) + 1)'
    BY <2>2 DEF Announced
  <2> QED BY <1>1, <1>3, <2>1, <2>2, <2>3, <2>4
<1> QED BY <1>4, <1>5 DEF EndsAnnounced

\* The reader is through with what it has in hand, and stdout is as before.
LEMMA EndsAnnouncedKept ==
  ASSUME TypeInv, NoiseInv, OwnInv, NEW g \in Goals, route = g, Untouched,
         Drops \/ Observes \/ Puts \/ LetsGo \/ Fails
  PROVE  EndsAnnounced(g)'
<1>1. UNCHANGED <<wire, running, startedBy>> /\ EndsAnnounced(g) /\ ForeignTurns(g)' = ForeignTurns(g)
  BY DEF Drops, Observes, Puts, LetsGo, Fails, Untouched, OwnInv, ForeignTurns
<1>2. ASSUME NEW i, Announced(g, i), \/ state'[g].started # 0
                                     \/ ~(Observing(g) /\ Holding("started")) /\ state[g].started = 0
      PROVE  Announced(g, i)'
  BY <1>1, <1>2 DEF Announced
<1>3. CASE state'[g].started # 0 \/ (~(Observing(g) /\ Holding("started")) /\ state[g].started = 0)
  BY <1>1, <1>2, <1>3 DEF EndsAnnounced
<1>4. ASSUME state'[g].started = 0, (Observing(g) /\ Holding("started")) \/ state[g].started # 0
      PROVE  ~state[g].routing
  <2>1. state[g].started = 0
    <3>1. CASE UNCHANGED state
      BY <1>4, <3>1
    <3>2. CASE Observes
      <4>1. CASE hand[1].to = g
        <5>1. state[g] \in States /\ hand[1].msg \in Notices /\ state'[g] = Observed(state[g], hand[1].msg)
          BY <3>2, <4>1 DEF TypeInv, ReaderType, Observes
        <5>2. SameView(Told(state[g], hand[1].msg), state'[g])
          BY <5>1, ObservedFields
        <5>3. state[g].started # 0 => state'[g].started = state[g].started
          BY <5>1, <5>2, ToldFields DEF SameView
        <5> QED BY <1>4, <5>3
      <4>2. CASE hand[1].to # g
        BY <1>4, <3>2, <4>2 DEF Observes
      <4> QED BY <4>1, <4>2
    <3>3. CASE Fails
      BY <1>4, <3>3, FailsKeepsView DEF SameView
    <3> QED BY <3>1, <3>2, <3>3 DEF Drops, Puts, LetsGo
  <2>2. Observing(g) /\ Holding("started")
    BY <1>4, <2>1
  <2>3. ~Observes
    <3> SUFFICES ASSUME Observes PROVE FALSE
      OBVIOUS
    <3>1. state[g] \in States /\ hand[1].msg \in Notices /\ state'[g] = Observed(state[g], hand[1].msg)
      BY <2>2 DEF TypeInv, ReaderType, Observes, Observing
    <3>2. SameView(Told(state[g], hand[1].msg), state'[g])
      BY <3>1, ObservedFields
    <3>3. state'[g].started = hand[1].msg.n
      BY <2>1, <2>2, <3>1, <3>2, ToldFields DEF SameView, Holding
    <3>4. hand[1].msg \in StartedLines
      BY <2>2, <3>1, KindsOfLines DEF Holding
    <3> QED BY <1>4, <3>3, <3>4, KindsOfLines
  <2> QED BY <2>2, <2>3 DEF Drops, Puts, LetsGo, Fails, Observing
<1>5. ASSUME ~state[g].routing PROVE EndsAnnounced(g)'
  <2>1. /\ \A i \in DOMAIN wire : wire[i].kind = "completed" => wire[i].n \in ForeignTurns(g)
        /\ running # 0 => running \in ForeignTurns(g)
    BY <1>5, AllForeign DEF OwnInv, NotOpen
  <2> QED BY <1>1, <2>1 DEF EndsAnnounced
<1> QED BY <1>3, <1>4, <1>5

LEMMA OwnByReader ==
  ASSUME TypeInv, NoiseInv, OwnInv, Reader
  PROVE  OwnInv'
<1>1. Untouched /\ (TakesLine \/ Drops \/ Observes \/ Puts \/ LetsGo \/ Quits \/ Fails)
  BY ReaderSteps
<1>2. ASSUME NEW g \in Goals, ~state'[g].routing PROVE NotOpen(g)'
  <2>1. state'[g].routing = state[g].routing /\ (~state[g].routing => state'[g].current = state[g].current)
    BY ReaderKeepsStarted
  <2>2. NotOpen(g)
    BY <1>2, <2>1 DEF OwnInv
  <2> QED BY <1>1, <1>2, <2>1, <2>2 DEF NotOpen, Untouched
<1>3. ASSUME NEW g \in Goals, (Live(g) /\ Observing(g) /\ Holding("completed"))'
      PROVE  state'[g].started # 0 \/ hand'[1].msg.n \in ForeignTurns(g)'
  <2>1. TakesLine
    BY <1>1, <1>3 DEF Observing, Drops, Observes, Puts, LetsGo, Quits, Fails
  <2>2. /\ hand = <<>> /\ route = g /\ wire # <<>> /\ UNCHANGED state
        /\ hand'[1].msg = Head(wire) /\ Head(wire).kind = "completed"
    BY <1>3, <2>1 DEF TakesLine, Observing, Holding
  <2>3. wire \in Seq(Lines)
    BY DEF TypeInv, ServerType
  <2>4. Head(wire) = wire[1] /\ 1 \in DOMAIN wire
    BY <2>2, <2>3, TailOfLines
  <2>5. Head(wire).n \in ForeignTurns(g) \/ Announced(g, 1)
    BY <2>2, <2>4 DEF OwnInv, EndsAnnounced
  <2>6. Announced(g, 1) => state[g].started # 0
    BY <2>2 DEF Announced, Observing
  <2>7. ForeignTurns(g)' = ForeignTurns(g)
    BY <1>1 DEF Untouched, ForeignTurns
  <2> QED BY <2>2, <2>5, <2>6, <2>7
<1>4. ASSUME NEW g \in Goals, route' = g PROVE EndsAnnounced(g)'
  <2>1. route = g /\ ~Quits
    BY <1>1, <1>4, NobodyIsNoGoal DEF TakesLine, Drops, Observes, Puts, LetsGo, Quits, Fails
  <2>2. EndsAnnounced(g)
    BY <2>1 DEF OwnInv
  <2> QED BY <1>1, <2>1, <2>2, EndsAnnouncedMoveUp, EndsAnnouncedKept
<1> QED BY <1>2, <1>3, <1>4 DEF OwnInv

LEMMA OwnByClient ==
  ASSUME TypeInv, LabelInv, NoiseInv, OwnInv, ClientStep
  PROVE  OwnInv'
<1>1. /\ \A h \in Goals : StaysStill(h) \/ Opens(h) \/ Takes(h) \/ Stops(h)
      /\ UNCHANGED <<wire, hand, running, startedBy, owner>>
      /\ route' \in {route, Nobody} \/ \E g \in Goals : route' = g /\ pc[g] = "read" /\ StaysStill(g)
  BY ClientSteps DEF LabelInv, Surroundings
<1>2. ASSUME NEW g \in Goals
      PROVE  /\ state'[g].started = state[g].started /\ (Live(g)' => Live(g))
             /\ ~state'[g].routing => ~state[g].routing /\ state'[g].current \in {0, state[g].current}
  <2>1. state[g] \in States
    BY DEF TypeInv, ReaderType
  <2>2. CASE StaysStill(g)
    BY <2>2 DEF StaysStill, Live
  <2>3. CASE Opens(g)
    BY <2>1, <2>3 DEF Opens, Live, Finished, States
  <2>4. CASE Takes(g)
    BY <2>1, <2>4 DEF Takes, Live, Finished, States
  <2>5. CASE Stops(g)
    BY <2>5 DEF Stops, Live
  <2> QED BY <1>1, <2>2, <2>3, <2>4, <2>5
<1>3. \A g : /\ ForeignTurns(g)' = ForeignTurns(g) /\ Observing(g)' = Observing(g)
             /\ \A k : Holding(k)' = Holding(k)
  BY <1>1 DEF ForeignTurns, Observing, Holding
<1>4. \A g \in Goals : ~state'[g].routing => NotOpen(g)'
  BY <1>1, <1>2 DEF OwnInv, NotOpen
<1>5. ASSUME NEW g \in Goals, (Live(g) /\ Observing(g) /\ Holding("completed"))'
      PROVE  state'[g].started # 0 \/ hand'[1].msg.n \in ForeignTurns(g)'
  <2>1. Live(g) /\ Observing(g) /\ Holding("completed")
    BY <1>2, <1>3, <1>5
  <2> QED BY <1>1, <1>2, <1>3, <2>1 DEF OwnInv
<1>6. ASSUME NEW g \in Goals, route' = g PROVE EndsAnnounced(g)'
  <2>1. EndsAnnounced(g)
    <3>1. CASE route = g
      BY <3>1 DEF OwnInv
    <3>2. CASE pc[g] = "read"
      <4>1. ~state[g].routing
        BY <3>2 DEF LabelInv, Beginning, NewState
      <4>2. /\ \A i \in DOMAIN wire : wire[i].kind = "completed" => wire[i].n \in ForeignTurns(g)
            /\ running # 0 => running \in ForeignTurns(g)
        BY <4>1, AllForeign DEF OwnInv, NotOpen
      <4> QED BY <4>2 DEF EndsAnnounced
    <3> QED BY <1>1, <1>6, <3>1, <3>2, NobodyIsNoGoal
  <2>2. \A i : Announced(g, i)' <=> Announced(g, i)
    BY <1>1, <1>2, <1>3 DEF Announced
  <2> QED BY <1>1, <1>3, <2>1, <2>2 DEF EndsAnnounced
<1> QED BY <1>4, <1>5, <1>6 DEF OwnInv

-----------------------------------------------------------------------------
(* The end of an operation. *)

LEMMA EndByServer ==
  ASSUME TypeInv, LabelInv, EndInv, FaithInv, ServerStep
  PROVE  EndInv' /\ FaithInv'
<1>1. OutOfReach /\ \A g : ForeignTurns(g) \subseteq ForeignTurns(g)'
  BY ServerDoes
<1>2. EndInv'
  BY <1>1 DEF EndInv, OutOfReach, Live, Observing, YieldedSoFar
<1>3. ASSUME NEW g \in Goals, Live(g)' PROVE Faithful(state'[g], cursor'[g], ForeignTurns(g)')
  <2>1. Faithful(state[g], cursor[g], ForeignTurns(g)) /\ state'[g] = state[g] /\ cursor'[g] = cursor[g]
    BY <1>1, <1>3 DEF OutOfReach, Live, FaithInv
  <2>2. SameView(state[g], state'[g]) /\ state'[g].queue = state[g].queue
    BY <2>1 DEF SameView
  <2>3. \A F : ForeignTurns(g) \subseteq F => Faithful(state[g], cursor[g], F)
    BY <2>1, <2>2, FaithfulSame
  <2> QED BY <1>1, <2>1, <2>3
<1> QED BY <1>2, <1>3 DEF FaithInv

-----------------------------------------------------------------------------
(* The reader's part of the end. *)

LEMMA FailureStaysQueued ==
  ASSUME NEW q \in Seq(Queued), NEW msg \in Queued,
         msg.kind = "failure" \/ \E k \in DOMAIN q : q[k].kind = "failure"
  PROVE  \E k \in DOMAIN Append(q, msg) : Append(q, msg)[k].kind = "failure"
<1>1. /\ Len(q) + 1 \in DOMAIN Append(q, msg) /\ Append(q, msg)[Len(q) + 1] = msg
  BY Appended
<1>2. ASSUME NEW k \in DOMAIN q PROVE k \in DOMAIN Append(q, msg) /\ Append(q, msg)[k] = q[k]
  OBVIOUS
<1> QED BY <1>1, <1>2

\* What the reader does to the state of a live goal.
LEMMA ReaderAppends ==
  ASSUME TypeInv, EndInv, Reader, NEW g \in Goals, Live(g), state'[g] # state[g]
  PROVE  \/ /\ route = g /\ Observes /\ Observing(g) /\ hand[1].msg \in Notices
            /\ state'[g] = Observed(state[g], hand[1].msg)
         \/ Fails /\ Failing(g) /\ state'[g] = Failed(state[g])
<1>1. CASE Observes
  <2>1. hand[1].to = g
    BY <1>1 DEF Observes
  <2> QED BY <1>1, <2>1 DEF Observes, Observing, EndInv
<1>2. CASE Fails
  BY <1>2 DEF Fails, Failing
<1>3. ~(TakesLine \/ Drops \/ Puts \/ LetsGo \/ Quits)
  BY DEF TakesLine, Drops, Puts, LetsGo, Quits
<1> QED BY <1>1, <1>2, <1>3, ReaderSteps

LEMMA EndByReader ==
  ASSUME TypeInv, EndInv, Reader
  PROVE  EndInv'
<1> DEFINE AtEnd == hand # <<>> /\ hand[1].at \in {"put", "unregister"}
<1>1. Untouched /\ (TakesLine \/ Drops \/ Observes \/ Puts \/ LetsGo \/ Quits \/ Fails)
  BY ReaderSteps
<1> SUFFICES ASSUME NEW g \in Goals, Live(g)
             PROVE  /\ Observing(g)' => route' = g
                    /\ state'[g].finished =>
                         Over(state'[g]) /\ (route' = g => AtEnd' /\ hand'[1].to = g)
                    /\ state'[g].failure => \E k \in DOMAIN state'[g].queue : state'[g].queue[k].kind = "failure"
                    /\ CursorGoesOn(cursor'[g])
                    /\ YieldedSoFar(g)'
  BY <1>1 DEF EndInv, Live, Untouched
<1>2. Observing(g)' => route' = g
  BY <1>1 DEF Observing, TakesLine, Drops, Observes, Puts, LetsGo, Quits, Fails
<1>3. CursorGoesOn(cursor'[g]) /\ YieldedSoFar(g)'
  BY <1>1 DEF Untouched, EndInv, YieldedSoFar
<1>5. CASE state'[g] = state[g]
  <2>1. state[g].failure => \E k \in DOMAIN state[g].queue : state[g].queue[k].kind = "failure"
    BY DEF EndInv
  <2>2. state[g].finished => Over(state[g]) /\ (route = g => AtEnd /\ hand[1].to = g)
    BY DEF EndInv
  <2>3. ASSUME state[g].finished, route' = g PROVE AtEnd' /\ hand'[1].to = g
    <3>1. route = g
      BY <1>1, <2>3, NobodyIsNoGoal DEF TakesLine, Drops, Observes, Puts, LetsGo, Quits, Fails
    <3>2. AtEnd /\ hand[1].to = g
      BY <2>2, <2>3, <3>1
    <3>3. Puts \/ LetsGo
      BY <1>1, <3>2 DEF TakesLine, Drops, Observes, Quits, Fails
    <3>4. ~LetsGo
      BY <2>3, <3>1, <3>2, NobodyIsNoGoal DEF LetsGo
    <3> QED BY <2>3, <3>2, <3>3, <3>4 DEF Puts
  <2> HIDE DEF AtEnd
  <2> QED BY <1>2, <1>3, <1>5, <2>1, <2>2, <2>3
<1>6. CASE state'[g] # state[g]
  <2>0. state[g] \in States /\ state[g].queue \in Seq(Queued)
    BY DEF TypeInv, ReaderType, States
  <2>1. route = g => ~state[g].finished
    <3>1. hand[1].at \in {"observe", "fail"}
      BY <1>6, ReaderAppends DEF Observing, Failing
    <3> QED BY <3>1 DEF EndInv
  <2>2. CASE /\ route = g /\ Observes /\ Observing(g) /\ hand[1].msg \in Notices
             /\ state'[g] = Observed(state[g], hand[1].msg)
    <3>1. /\ state'[g].failure = state[g].failure /\ state'[g].queue = Append(state[g].queue, hand[1].msg)
          /\ state'[g].finished = (state[g].finished \/ Over(state'[g]))
      BY <2>0, <2>2, ObservedFields
    <3>2. state'[g].finished => Over(state'[g]) /\ AtEnd' /\ hand'[1].to = g
      BY <2>1, <2>2, <3>1 DEF Observes, Observing
    <3>3. hand[1].msg \in Queued
      BY <2>2, KindsOfLines
    <3>4. state'[g].failure => \E k \in DOMAIN state'[g].queue : state'[g].queue[k].kind = "failure"
      <4>1. state[g].failure => \E k \in DOMAIN state[g].queue : state[g].queue[k].kind = "failure"
        BY DEF EndInv
      <4>2. state[g].failure => \E k \in DOMAIN Append(state[g].queue, hand[1].msg) :
                                 Append(state[g].queue, hand[1].msg)[k].kind = "failure"
        BY <2>0, <3>3, <4>1, FailureStaysQueued
      <4> QED BY <3>1, <4>2
    <3> HIDE DEF AtEnd
    <3> QED BY <1>2, <1>3, <3>2, <3>4
  <2>3. CASE Fails /\ Failing(g) /\ state'[g] = Failed(state[g])
    <3>1. /\ state'[g].finished = state[g].finished /\ SameView(state[g], state'[g])
          /\ state'[g].queue = Append(state[g].queue, [kind |-> "failure"])
      BY <2>0, <2>3, FailedFields
    <3>2. [kind |-> "failure"] \in Queued
      BY DEF Queued
    <3>3. \E k \in DOMAIN state'[g].queue : state'[g].queue[k].kind = "failure"
      BY <2>0, <3>1, <3>2, FailureStaysQueued
    <3>4. state[g].finished => Over(state'[g])
      BY <3>1 DEF EndInv, SameView, Over
    <3>5. route' = route
      BY <2>3 DEF Fails
    <3> HIDE DEF AtEnd
    <3> QED BY <1>2, <1>3, <2>1, <3>1, <3>3, <3>4, <3>5
  <2> QED BY <1>6, <2>2, <2>3, ReaderAppends
<1> QED BY <1>5, <1>6

LEMMA FaithByReader ==
  ASSUME TypeInv, CurrentInv, OwnInv, EndInv, FaithInv, Reader
  PROVE  FaithInv'
<1>1. UNCHANGED <<cursor, pc, startedBy>>
  BY ReaderSteps DEF Untouched
<1> SUFFICES ASSUME NEW g \in Goals, Live(g) PROVE Faithful(state'[g], cursor[g], ForeignTurns(g))
  BY <1>1 DEF FaithInv, Live, ForeignTurns
<1> DEFINE F == ForeignTurns(g)
<1>2. state[g] \in States /\ cursor[g] \in Cursors /\ Faithful(state[g], cursor[g], F)
  BY DEF TypeInv, ReaderType, ClientType, FaithInv
<1>3. CASE state'[g] = state[g]
  BY <1>2, <1>3
<1>4. CASE route = g /\ Observes /\ Observing(g) /\ hand[1].msg \in Notices
           /\ state'[g] = Observed(state[g], hand[1].msg)
  <2> DEFINE msg == hand[1].msg
             new == state'[g]
             told == Told(state[g], msg)
  <2>1. /\ new \in States /\ SameView(told, new) /\ new.queue = Append(state[g].queue, msg)
    BY <1>2, <1>4, ObservedFields
  <2>2. state[g].started \in {0, new.started}
    BY <1>2, <1>4, <2>1, ToldFields DEF SameView
  <2>3. msg.kind = "completed" => state[g].current \in {0, msg.n} /\ (state[g].started # 0 \/ msg.n \in F)
    BY <1>4 DEF CurrentInv, OwnInv, Observing, Holding
  <2>4. msg \in Notices /\ msg \in Queued
    BY <1>4, KindsOfLines
  <2> HIDE DEF F, msg, new
  <2>5. ASSUME NEW c \in Cursors, Agrees(state[g], c), Announces(c, state[g].started, F)
        PROVE  Agrees(new, Advanced(c, msg)) /\ Announces(Advanced(c, msg), new.started, F)
    <3>1. Agrees(told, Advanced(c, msg)) /\ Announces(Advanced(c, msg), told.started, F)
      BY <1>2, <2>3, <2>4, <2>5, BothMoveOn
    <3> HIDE DEF told
    <3> QED BY <2>1, <3>1 DEF Agrees, SameView
  <2>6. Faithful(new, cursor[g], F)
    BY <1>2, <2>1, <2>2, <2>4, <2>5, FaithfulAppend
  <2> QED BY <2>6 DEF new, F
<1>5. CASE state'[g] = Failed(state[g])
  <2> DEFINE msg == [kind |-> "failure"]
             new == state'[g]
  <2>1. new \in States /\ SameView(state[g], new) /\ new.queue = Append(state[g].queue, msg)
    BY <1>2, <1>5, FailedFields
  <2>2. msg \in Queued /\ \A c : Advanced(c, msg) = c
    BY DEF Queued, Advanced
  <2> HIDE DEF F, msg, new
  <2>3. \A c \in Cursors : Agrees(state[g], c) /\ Announces(c, state[g].started, F) =>
          Agrees(new, Advanced(c, msg)) /\ Announces(Advanced(c, msg), new.started, F)
    BY <2>1, <2>2 DEF Agrees, SameView
  <2>4. state[g].started \in {0, new.started}
    BY <2>1 DEF SameView
  <2>5. Faithful(new, cursor[g], F)
    BY <1>2, <2>1, <2>2, <2>3, <2>4, FaithfulAppend
  <2> QED BY <2>5 DEF new, F
<1> QED BY <1>3, <1>4, <1>5, ReaderAppends

-----------------------------------------------------------------------------
(* The consumer's. *)

\* A step of a client keeps the thread for a goal that goes on.
LEMMA RouteKept ==
  ASSUME TypeInv, LabelInv, ClientStep, NEW g \in Goals, route = g, Live(g)', ~state[g].finished
  PROVE  route' = g
<1>0. state[g] \in States
  BY DEF TypeInv, ReaderType
<1>1. CASE LeavesRoute
  BY <1>1 DEF LeavesRoute
<1>2. ASSUME NEW h \in Goals, Reserve(h) PROVE FALSE
  BY <1>2, NobodyIsNoGoal DEF Reserve
<1>3. ASSUME NEW h \in Goals, EndsOperation(h) PROVE route' = g
  <2>1. h # g => route' = g
    BY <1>3 DEF EndsOperation, Unregister
  <2>2. ~state'[g].finished
    <3>1. StaysStill(g) \/ Opens(g) \/ Takes(g) \/ Stops(g)
      BY ClientSteps DEF LabelInv
    <3>2. CASE StaysStill(g)
      BY <3>2 DEF StaysStill
    <3>3. CASE Opens(g)
      BY <1>0, <3>3 DEF Opens, States
    <3>4. CASE Takes(g)
      BY <1>0, <3>4 DEF Takes, States
    <3>5. CASE Stops(g)
      BY <3>5 DEF Stops, Live
    <3> QED BY <3>1, <3>2, <3>3, <3>4, <3>5
  <2> QED BY <1>3, <2>1, <2>2 DEF EndsOperation, Ends
<1> QED BY <1>1, <1>2, <1>3, ClientCases DEF TypeInv

\* What a consumer that goes on does to its state.
LEMMA OpensFields ==
  ASSUME TypeInv, NEW g \in Goals, Opens(g)
  PROVE  /\ state[g] \in States /\ SameView(state[g], state'[g])
         /\ state'[g].finished = state[g].finished /\ state'[g].failure = state[g].failure
         /\ state'[g].queue = state[g].queue
<1>1. state[g] \in States
  BY DEF TypeInv, ReaderType
<1> QED BY <1>1 DEF Opens, States, SameView

LEMMA TakesFields ==
  ASSUME TypeInv, NEW g \in Goals, Takes(g)
  PROVE  /\ state[g] \in States /\ state'[g] \in States /\ SameView(state[g], state'[g])
         /\ state'[g].finished = state[g].finished /\ state'[g].failure = state[g].failure
         /\ state[g].queue \in Seq(Queued) /\ state[g].queue # <<>> /\ state'[g].queue = Tail(state[g].queue)
<1>1. state[g] \in States
  BY DEF TypeInv, ReaderType
<1>2. state[g].queue \in Seq(Queued) /\ state[g].queue # <<>>
  BY <1>1 DEF Takes, States
<1>3. Tail(state[g].queue) \in Seq(Queued)
  BY <1>2
<1> QED BY <1>1, <1>2, <1>3 DEF Takes, States, SameView

LEMMA FailureStaysBehind ==
  ASSUME NEW q \in Seq(Queued), q # <<>>, Head(q).kind # "failure",
         \E k \in DOMAIN q : q[k].kind = "failure"
  PROVE  \E k \in DOMAIN Tail(q) : Tail(q)[k].kind = "failure"
<1>1. /\ Len(q) \in Nat /\ Len(Tail(q)) = Len(q) - 1 /\ Head(q) = q[1] /\ DOMAIN q = 1 .. Len(q)
      /\ DOMAIN Tail(q) = 1 .. Len(Tail(q)) /\ \A k \in 1 .. Len(Tail(q)) : Tail(q)[k] = q[k + 1]
  OBVIOUS
<1>2. PICK k \in 1 .. Len(q) : q[k].kind = "failure"
  BY <1>1
<1>3. k # 1
  BY <1>1, <1>2
<1>4. k - 1 \in 1 .. Len(Tail(q)) /\ (k - 1) + 1 = k
  BY <1>1, <1>3
<1>5. Tail(q)[k - 1] = q[k]
  BY <1>1, <1>4
<1> QED BY <1>1, <1>2, <1>4, <1>5

LEMMA EndByConsumer ==
  ASSUME TypeInv, EndInv, NEW g \in Goals, Takes(g)
  PROVE  /\ state'[g].failure => \E k \in DOMAIN state'[g].queue : state'[g].queue[k].kind = "failure"
         /\ CursorGoesOn(cursor'[g]) /\ YieldedSoFar(g)'
<1>1. /\ state[g].queue \in Seq(Queued) /\ state[g].queue # <<>> /\ state'[g].queue = Tail(state[g].queue)
      /\ state'[g].failure = state[g].failure
  BY TakesFields
<1>2. Live(g) /\ Msg(g) \in Notices /\ cursor[g] \in Cursors
  BY DEF Takes, Live, Finished, TypeInv, ClientType
<1>3. Msg(g).kind # "failure" /\ (Msg(g).kind = "started" => Msg(g).n # 0)
  BY <1>2, KindsOfLines
<1>4. state'[g].failure => \E k \in DOMAIN state'[g].queue : state'[g].queue[k].kind = "failure"
  <2>1. state[g].failure => \E k \in DOMAIN state[g].queue : state[g].queue[k].kind = "failure"
    BY <1>2 DEF EndInv
  <2>2. state[g].failure => \E k \in DOMAIN Tail(state[g].queue) : Tail(state[g].queue)[k].kind = "failure"
    BY <1>1, <1>3, <2>1, FailureStaysBehind DEF Msg
  <2> QED BY <1>1, <2>2
<1>5. CursorGoesOn(cursor'[g])
  BY DEF Takes, CursorGoesOn
<1>6. YieldedSoFar(g)'
  <2>1. cursor'[g].started = IF Msg(g).kind = "started" /\ cursor[g].started = 0 THEN Msg(g).n ELSE cursor[g].started
    <3>1. cursor'[g] = Advanced(cursor[g], Msg(g))
      BY DEF Takes
    <3>2. Advanced(cursor[g], Msg(g)).started =
            IF Msg(g).kind = "started" /\ cursor[g].started = 0 THEN Msg(g).n ELSE cursor[g].started
      BY <1>2, AdvancedFields
    <3> QED BY <3>1, <3>2
  <2>2. yielded[g] = IF cursor[g].started = 0 THEN <<>> ELSE <<<<"started", cursor[g].started>>>>
    BY <1>2 DEF EndInv, YieldedSoFar
  <2>3. yielded'[g] = IF cursor[g].started = 0 /\ Msg(g).kind = "started"
                      THEN Append(yielded[g], <<"started", Msg(g).n>>) ELSE yielded[g]
    BY DEF Takes
  <2>4. CASE cursor[g].started = 0 /\ Msg(g).kind = "started"
    <3>1. yielded'[g] = <<<<"started", Msg(g).n>>>>
      BY <2>2, <2>3, <2>4
    <3> QED BY <1>3, <2>1, <2>4, <3>1 DEF YieldedSoFar
  <2>5. CASE ~(cursor[g].started = 0 /\ Msg(g).kind = "started")
    BY <2>1, <2>2, <2>3, <2>5 DEF YieldedSoFar
  <2> QED BY <2>4, <2>5
<1> QED BY <1>4, <1>5, <1>6

LEMMA EndByClient ==
  ASSUME TypeInv, LabelInv, EndInv, ClientStep
  PROVE  EndInv'
<1>1. /\ \A h \in Goals : StaysStill(h) \/ Opens(h) \/ Takes(h) \/ Stops(h)
      /\ UNCHANGED hand
      /\ route' \in {route, Nobody} \/ \E g \in Goals : route' = g /\ pc[g] = "read" /\ StaysStill(g)
  BY ClientSteps DEF LabelInv, Surroundings
<1>2. ASSUME NEW g \in Goals, Live(g)'
      PROVE  /\ Live(g) /\ SameView(state[g], state'[g]) /\ state'[g].finished = state[g].finished
             /\ StaysStill(g) \/ Opens(g) \/ Takes(g)
  <2>1. CASE StaysStill(g)
    BY <1>2, <2>1 DEF StaysStill, Live, SameView
  <2>2. CASE Opens(g)
    BY <2>2, OpensFields DEF Opens, Live, Finished
  <2>3. CASE Takes(g)
    BY <2>3, TakesFields DEF Takes, Live, Finished
  <2>4. CASE Stops(g)
    BY <1>2, <2>4 DEF Stops, Live
  <2> QED BY <1>1, <2>1, <2>2, <2>3, <2>4
<1>3. ASSUME NEW g \in Goals, Live(g)', Observing(g)' PROVE route' = g
  <2>1. Observing(g) /\ Live(g) /\ route = g
    BY <1>1, <1>2, <1>3 DEF Observing, EndInv
  <2>2. ~state[g].finished
    BY <2>1 DEF EndInv, Observing
  <2> QED BY <1>3, <2>1, <2>2, RouteKept
<1>4. ASSUME NEW g \in Goals, Live(g)', state'[g].finished
      PROVE  Over(state'[g]) /\ (route' = g => hand' # <<>> /\ hand'[1].at \in {"put", "unregister"} /\ hand'[1].to = g)
  <2>1. /\ Live(g) /\ state[g].finished /\ Over(state[g])
        /\ route = g => hand # <<>> /\ hand[1].at \in {"put", "unregister"} /\ hand[1].to = g
    BY <1>2, <1>4 DEF EndInv
  <2>2. Over(state'[g])
    BY <1>2, <1>4, <2>1 DEF SameView, Over
  <2>3. pc[g] # "read"
    BY <2>1 DEF LabelInv, Beginning, NewState
  <2> QED BY <1>1, <2>1, <2>2, <2>3, NobodyIsNoGoal
<1>5. ASSUME NEW g \in Goals, Live(g)'
      PROVE  /\ state'[g].failure => \E k \in DOMAIN state'[g].queue : state'[g].queue[k].kind = "failure"
             /\ CursorGoesOn(cursor'[g]) /\ YieldedSoFar(g)'
  <2>1. Live(g)
    BY <1>2, <1>5
  <2>2. CASE StaysStill(g)
    BY <2>1, <2>2 DEF StaysStill, EndInv, YieldedSoFar
  <2>3. CASE Opens(g)
    <3>1. /\ state'[g].failure = state[g].failure /\ state'[g].queue = state[g].queue
          /\ cursor'[g] = cursor[g] /\ yielded'[g] = yielded[g]
      BY <2>3, OpensFields DEF Opens
    <3> QED BY <2>1, <3>1 DEF EndInv, YieldedSoFar
  <2>4. CASE Takes(g)
    BY <2>4, EndByConsumer
  <2> QED BY <1>2, <1>5, <2>2, <2>3, <2>4
<1> QED BY <1>3, <1>4, <1>5 DEF EndInv

LEMMA FaithByClient ==
  ASSUME TypeInv, LabelInv, FaithInv, ClientStep
  PROVE  FaithInv'
<1>1. (\A h \in Goals : StaysStill(h) \/ Opens(h) \/ Takes(h) \/ Stops(h)) /\ UNCHANGED startedBy
  BY ClientSteps DEF LabelInv, Surroundings
<1>2. ASSUME NEW g \in Goals, Live(g)' PROVE Faithful(state'[g], cursor'[g], ForeignTurns(g)')
  <2>0. ForeignTurns(g)' = ForeignTurns(g)
    BY <1>1 DEF ForeignTurns
  <2>1. CASE StaysStill(g)
    BY <1>2, <2>0, <2>1 DEF StaysStill, Live, FaithInv
  <2>2. CASE Opens(g)
    <3>1. SameView(state[g], state'[g]) /\ state'[g].queue = state[g].queue
      BY <2>2, OpensFields
    <3>2. Faithful(state[g], cursor[g], ForeignTurns(g)) /\ cursor'[g] = cursor[g]
      BY <2>2 DEF Opens, Live, Finished, FaithInv
    <3> QED BY <2>0, <3>1, <3>2, FaithfulSame
  <2>3. CASE Takes(g)
    <3>1. /\ state[g] \in States /\ state'[g] \in States /\ SameView(state[g], state'[g])
          /\ state[g].queue # <<>> /\ state'[g].queue = Tail(state[g].queue)
      BY <2>3, TakesFields
    <3>2. /\ Faithful(state[g], cursor[g], ForeignTurns(g)) /\ cursor[g] \in Cursors
          /\ cursor'[g] = Advanced(cursor[g], Head(state[g].queue))
      BY <2>3 DEF Takes, Live, Finished, FaithInv, Msg, TypeInv, ClientType
    <3> QED BY <2>0, <3>1, <3>2, FaithfulTail
  <2>4. CASE Stops(g)
    BY <1>2, <2>4 DEF Stops, Live
  <2> QED BY <1>1, <2>1, <2>2, <2>3, <2>4
<1> QED BY <1>2 DEF FaithInv

-----------------------------------------------------------------------------
(* The invariant and what it shows. *)

LEMMA InitFaithful ==
  ASSUME NEW F
  PROVE  Faithful(NewState, NewCursor, F)
<1> DEFINE h == [k \in 0 .. 0 |-> NewCursor]
<1>1. NewCursor \in Cursors
  BY Numbers DEF NewCursor, Cursors, Status
<1>2. h \in [0 .. 0 -> Cursors] /\ h[0] = NewCursor /\ \A k \in 0 .. 0 : h[k] = NewCursor
  BY <1>1
<1>3. NewState.queue = <<>> /\ Len(<<>>) = 0
  BY DEF NewState
<1> HIDE DEF h
<1>4. Path(h, NewCursor, <<>>)
  BY <1>2, <1>3 DEF Path
<1>5. Agrees(NewState, NewCursor) /\ Announces(NewCursor, NewState.started, F)
  BY DEF Agrees, Announces, NewState, NewCursor
<1> QED BY <1>2, <1>3, <1>4, <1>5 DEF Faithful

LEMMA InitStream == Init => StreamInv
<1> SUFFICES ASSUME Init PROVE StreamInv
  OBVIOUS
<1>1. /\ hand = <<>> /\ wire = <<>> /\ running = 0 /\ route = Nobody /\ startedBy = <<>> /\ owner = Nobody
      /\ DOMAIN wire = {} /\ DOMAIN startedBy = {}
  BY DEF Init
<1>2. \A g \in Goals : /\ state[g] = NewState /\ cursor[g] = NewCursor /\ yielded[g] = <<>> /\ pc[g] = "idle"
                       /\ DOMAIN yielded = Goals
  BY DEF Init, Callers
<1>3. \A g \in Goals : route # g /\ owner # g
  BY <1>1, NobodyIsNoGoal
<1>4. LabelInv
  BY <1>1, <1>2 DEF LabelInv, Init, Beginning, Failing
<1>5. LineInv /\ CurrentInv
  BY <1>1, <1>3 DEF LineInv, CurrentInv, Holding
<1>6. OwnInv
  BY <1>1, <1>2, <1>3 DEF OwnInv, NotOpen, Observing, NewState
<1>7. EndInv
  BY <1>1, <1>2 DEF EndInv, Observing, NewState, NewCursor, CursorGoesOn, YieldedSoFar
<1>8. FaithInv
  BY <1>2, InitFaithful DEF FaithInv
<1>9. TurnInv
  BY <1>2 DEF TurnInv, Live, Finished
<1> QED BY <1>4, <1>5, <1>6, <1>7, <1>8, <1>9 DEF StreamInv

LEMMA KeepsStream == TypeInv /\ RouteInv /\ NoiseInv /\ StreamInv /\ [Next]_vars => StreamInv'
<1> SUFFICES ASSUME TypeInv, RouteInv, NoiseInv, StreamInv, [Next]_vars PROVE StreamInv'
  OBVIOUS
<1> USE DEF StreamInv
<1>1. CASE ServerStep
  BY <1>1, LabelByServer, LineByServer, CurrentByServer, OwnByServer, EndByServer, TurnByServer
<1>2. CASE Reader
  BY <1>2, LabelByReader, LineByReader, OwnByReader, EndByReader, FaithByReader, TurnByReader
<1>3. CASE ClientStep
  BY <1>3, LabelByClient, LineByClient, OwnByClient, EndByClient, FaithByClient, TurnByClient
<1>4. CASE UNCHANGED vars
  <2>1. UNCHANGED <<wire, hand, running, startedBy, owner, route, state, cursor, pc, yielded>>
    BY <1>4 DEF vars, server, reader, clients
  <2>2. LabelInv' /\ LineInv'
    BY <2>1 DEF LabelInv, LineInv, Holding, Failing
  <2>3. CurrentInv'
    BY <2>1 DEF CurrentInv, Live, Observing, Holding
  <2>4. OwnInv'
    BY <2>1 DEF OwnInv, NotOpen, EndsAnnounced, Announced, ForeignTurns, Live, Observing, Holding
  <2>5. EndInv'
    BY <2>1 DEF EndInv, Live, Observing, YieldedSoFar
  <2>6. FaithInv'
    BY <2>1 DEF FaithInv, Live, ForeignTurns
  <2>7. TurnInv'
    BY <2>1 DEF TurnInv, Live, OneTurn, ForeignTurns
  <2> QED BY <2>2, <2>3, <2>4, <2>5, <2>6, <2>7
<1> QED BY <1>1, <1>2, <1>3, <1>4, NextCases DEF ServerStep

LEMMA StreamHolds == Spec => []TypeInv /\ []StreamInv
<1>1. Spec => []LockInv
  BY InitLock, KeepsLock, PTL DEF Spec
<1>2. Spec => []TypeInv
  BY InitTyped, KeepsTypes, PTL DEF Spec
<1>3. Spec => []RouteInv
  BY <1>2, InitRoute, KeepsRoute, PTL DEF Spec
<1>4. Spec => []NoiseInv
  BY <1>1, <1>2, InitNoise, KeepsNoise, PTL DEF Spec
<1>5. Spec => []StreamInv
  BY <1>2, <1>3, <1>4, InitStream, KeepsStream, PTL DEF Spec
<1> QED BY <1>2, <1>5, PTL

LEMMA StreamNotStranded == TypeInv /\ StreamInv => ConsumerNotStranded
<1> SUFFICES ASSUME TypeInv, StreamInv, NEW g \in Goals, pc[g] = "streaming", state[g].queue = <<>>
             PROVE  ~state[g].finished /\ ~state[g].failure
  BY DEF ConsumerNotStranded
<1>1. Live(g) /\ state[g] \in States /\ DOMAIN state[g].queue = {}
  BY DEF Live, Finished, TypeInv, ReaderType
<1>2. Agrees(state[g], cursor[g])
  BY <1>1, FaithfulNow DEF StreamInv, FaithInv
<1>3. ~state[g].failure
  BY <1>1 DEF StreamInv, EndInv
<1>4. state[g].finished => Over(state[g]) /\ CursorGoesOn(cursor[g])
  BY <1>1 DEF StreamInv, EndInv
<1>5. Over(state[g]) => ~CursorGoesOn(cursor[g])
  BY <1>2 DEF Agrees, Over, CursorGoesOn, GoalOver
<1> QED BY <1>3, <1>4, <1>5

\* For any number of goals, turns and faults: when a stream's consumer has taken all that was
\* queued and still waits, the reader has neither ended the operation nor failed, so that it
\* still routes to it.  What the reader knows of the goal is what the consumer will know having
\* taken the queue, since the turn that ends next is always the one both hold for current.
THEOREM ConsumerNotStrandedHolds == Spec => []ConsumerNotStranded
BY StreamHolds, StreamNotStranded, PTL

LEMMA NoneShown ==
  ASSUME NEW y, y = <<>>
  PROVE  [n \in DOMAIN y |-> y[n][1]] = <<>> /\ DOMAIN y = {}
OBVIOUS

LEMMA OneShown ==
  ASSUME NEW a, NEW y, y = <<a>>
  PROVE  [n \in DOMAIN y |-> y[n][1]] = <<a[1]>> /\ DOMAIN y = {1} /\ y[1] = a
<1>1. DOMAIN y = 1 .. 1 /\ y[1] = a /\ 1 .. 1 = {1}
  OBVIOUS
<1>2. [n \in DOMAIN y |-> y[n][1]] = [n \in 1 .. 1 |-> a[1]]
  BY <1>1
<1>3. <<a[1]>> = [n \in 1 .. 1 |-> a[1]]
  OBVIOUS
<1> QED BY <1>1, <1>2, <1>3

LEMMA TwoShown ==
  ASSUME NEW a, NEW b, NEW y, y = <<a, b>>
  PROVE  [n \in DOMAIN y |-> y[n][1]] = <<a[1], b[1]>> /\ DOMAIN y = {1, 2} /\ y[1] = a /\ y[2] = b
<1> DEFINE l == [n \in DOMAIN y |-> y[n][1]]
           t == <<a[1], b[1]>>
<1>1. DOMAIN y = 1 .. 2 /\ y[1] = a /\ y[2] = b /\ 1 .. 2 = {1, 2}
  OBVIOUS
<1>2. DOMAIN l = 1 .. 2 /\ l = [n \in 1 .. 2 |-> l[n]] /\ l[1] = a[1] /\ l[2] = b[1]
  BY <1>1
<1>3. DOMAIN t = 1 .. 2 /\ t = [n \in 1 .. 2 |-> t[n]] /\ t[1] = a[1] /\ t[2] = b[1]
  OBVIOUS
<1> HIDE DEF l, t
<1>4. \A n \in 1 .. 2 : l[n] = t[n]
  BY <1>2, <1>3
<1>5. l = t
  BY <1>2, <1>3, <1>4
<1> QED BY <1>1, <1>5 DEF l, t

LEMMA StreamShowsOneTurn == TypeInv /\ StreamInv => OneLogicalTurn
<1> SUFFICES ASSUME TypeInv, StreamInv, NEW g \in Goals
             PROVE  /\ \/ Lifecycle(g) \in {<<>>, <<"started">>, <<"started", "completed">>}
                       \/ Lifecycle(g) = <<"completed">> /\ startedBy[yielded[g][1][2]] /= g
                    /\ Lifecycle(g) /= <<>> /\ yielded[g][1][1] = "started" =>
                         yielded[g][1][2] = state[g].started
                    /\ pc[g] = "done" <=> \E n \in DOMAIN yielded[g] : yielded[g][n][1] = "completed"
  BY DEF OneLogicalTurn
<1> DEFINE n == state[g].started
           y == yielded[g]
<1>1. OneTurn(g)
  <2>1. CASE ~Live(g)
    BY <2>1 DEF StreamInv, TurnInv
  <2>2. CASE Live(g)
    <3>1. pc[g] # "done"
      BY <2>2 DEF Live, Finished
    <3>2. Announces(cursor[g], n, ForeignTurns(g))
      <4>1. Faithful(state[g], cursor[g], ForeignTurns(g)) /\ state[g] \in States
        BY <2>2 DEF StreamInv, FaithInv, TypeInv, ReaderType
      <4> QED BY <4>1, FaithfulFirst
    <3>3. YieldedSoFar(g)
      BY <2>2 DEF StreamInv, EndInv
    <3>4. CASE cursor[g].started = 0
      BY <3>1, <3>3, <3>4 DEF YieldedSoFar, OneTurn
    <3>5. CASE cursor[g].started # 0
      <4>1. n # 0 /\ yielded[g] = <<<<"started", n>>>>
        BY <3>2, <3>3, <3>5 DEF YieldedSoFar, Announces
      <4> QED BY <3>1, <4>1 DEF OneTurn
    <3> QED BY <3>4, <3>5
  <2> QED BY <2>1, <2>2
<1>2. CASE y = <<>> /\ pc[g] # "done"
  <2>1. Lifecycle(g) = <<>> /\ DOMAIN y = {}
    BY <1>2, NoneShown DEF Lifecycle
  <2> QED BY <1>2, <2>1
<1>3. CASE y = <<<<"started", n>>>> /\ pc[g] # "done"
  <2> DEFINE a == <<"started", n>>
  <2>1. a[1] = "started" /\ a[2] = n /\ y = <<a>>
    BY <1>3
  <2> HIDE DEF a, y, n
  <2>2. Lifecycle(g) = <<"started">> /\ DOMAIN y = {1} /\ y[1] = a
    BY <2>1, OneShown DEF Lifecycle, y
  <2> QED BY <1>3, <2>1, <2>2 DEF y, n
<1>4. ASSUME NEW m, y = <<<<"started", n>>, <<"completed", m>>>>, pc[g] = "done"
      PROVE  /\ Lifecycle(g) = <<"started", "completed">> /\ y[1][2] = n
             /\ \E k \in DOMAIN y : y[k][1] = "completed"
  <2> DEFINE a == <<"started", n>>
             b == <<"completed", m>>
  <2>1. a[1] = "started" /\ a[2] = n /\ b[1] = "completed" /\ y = <<a, b>>
    BY <1>4
  <2> HIDE DEF a, b, y, n
  <2>2. Lifecycle(g) = <<"started", "completed">> /\ DOMAIN y = {1, 2} /\ y[1] = a /\ y[2] = b
    BY <2>1, TwoShown DEF Lifecycle, y
  <2> QED BY <2>1, <2>2
<1>5. ASSUME NEW m \in ForeignTurns(g), y = <<<<"completed", m>>>>, pc[g] = "done"
      PROVE  /\ Lifecycle(g) = <<"completed">> /\ startedBy[y[1][2]] # g /\ y[1][1] = "completed"
             /\ \E k \in DOMAIN y : y[k][1] = "completed"
  <2> DEFINE a == <<"completed", m>>
  <2>1. a[1] = "completed" /\ a[2] = m /\ y = <<a>>
    BY <1>5
  <2> HIDE DEF a, y
  <2>2. Lifecycle(g) = <<"completed">> /\ DOMAIN y = {1} /\ y[1] = a
    BY <2>1, OneShown DEF Lifecycle, y
  <2> QED BY <2>1, <2>2 DEF ForeignTurns
<1>6. \/ y = <<>> /\ pc[g] # "done"
      \/ y = <<<<"started", n>>>> /\ pc[g] # "done"
      \/ pc[g] = "done" /\ \E m : y = <<<<"started", n>>, <<"completed", m>>>>
      \/ pc[g] = "done" /\ \E m \in ForeignTurns(g) : y = <<<<"completed", m>>>>
  BY <1>1 DEF OneTurn
<1> HIDE DEF y, n
<1>7. CASE pc[g] = "done" /\ \E m : y = <<<<"started", n>>, <<"completed", m>>>>
  BY <1>4, <1>7 DEF y, n
<1>8. CASE pc[g] = "done" /\ \E m \in ForeignTurns(g) : y = <<<<"completed", m>>>>
  BY <1>5, <1>8 DEF y
<1> QED BY <1>2, <1>3, <1>6, <1>7, <1>8

\* For any number of goals, turns and faults: however many physical turns ran, the consumer of a
\* stream is shown the start of the turn start_goal_operation waited for, once, and one
\* completion, with which the stream ends; without a start only the end of a turn that was not
\* the goal's own.
THEOREM OneLogicalTurnHolds == Spec => []OneLogicalTurn
BY StreamHolds, StreamShowsOneTurn, PTL

-----------------------------------------------------------------------------
(* Cancellation: what a caller has asked for. *)

IsAnswer(c, x) == x.kind = "answer" /\ x.of = c
AnswersTo(c) == {i \in DOMAIN wire : IsAnswer(c, wire[i])}

\* A caller has at most one request at the app-server, or one answer on stdout, or one in hand,
\* until the transport is gone.
AskInv ==
  ~failed => \A c \in Callers :
    /\ c \in asked \/ AnswersTo(c) # {} => pc[c] \in Waiting /\ answer[c] = <<>>
    /\ c \in asked => AnswersTo(c) = {}
    /\ \A i, j \in AnswersTo(c) : i = j

\* What the app-server writes to callers: nothing, or the answer to one request.
NotTo(c, s) == \A j \in DOMAIN s : ~IsAnswer(c, s[j])
OnlyTo(c, s) ==
  /\ s \in Seq(Lines)
  /\ \A i, j \in DOMAIN s : IsAnswer(c, s[i]) /\ IsAnswer(c, s[j]) => i = j
  /\ \A d \in Callers : d # c => NotTo(d, s)
AnswersCaller(c) == c \in asked /\ asked' = asked \ {c} /\ pc[c] \in Waiting /\ \E s : OnlyTo(c, s) /\ wire' = wire \o s
AnswersNobody == asked' = asked /\ \E s \in Seq(Lines) : wire' = wire \o s /\ \A c : NotTo(c, s)

LEMMA NoticeIsNoAnswer ==
  ASSUME NEW x \in Lines, x.kind # "answer", asked' = asked, wire' = wire \o <<x>>
  PROVE  AnswersNobody
<1>1. <<x>> \in Seq(Lines) /\ DOMAIN <<x>> = {1} /\ <<x>>[1] = x
  OBVIOUS
<1>2. \A c : NotTo(c, <<x>>)
  BY <1>1 DEF NotTo, IsAnswer
<1> QED BY <1>1, <1>2 DEF AnswersNobody

LEMMA AnswerAlone ==
  ASSUME NEW c, NEW x \in Lines, x.kind = "answer", x.of = c
  PROVE  OnlyTo(c, <<x>>)
<1>1. <<x>> \in Seq(Lines) /\ DOMAIN <<x>> = {1} /\ <<x>>[1] = x
  OBVIOUS
<1>2. \A d : d # c => NotTo(d, <<x>>)
  BY <1>1 DEF NotTo, IsAnswer
<1> QED BY <1>1, <1>2 DEF OnlyTo

LEMMA AnswerAndNotice ==
  ASSUME NEW c, NEW x \in Lines, NEW y \in Lines,
         \/ x.kind = "answer" /\ x.of = c /\ y.kind # "answer"
         \/ y.kind = "answer" /\ y.of = c /\ x.kind # "answer"
  PROVE  OnlyTo(c, <<x, y>>) /\ OnlyTo(c, <<x>> \o <<y>>)
<1>1. <<x, y>> \in Seq(Lines) /\ DOMAIN <<x, y>> = {1, 2} /\ <<x, y>>[1] = x /\ <<x, y>>[2] = y
  OBVIOUS
<1>4. <<x>> \o <<y>> = <<x, y>>
  <2> DEFINE s == <<x>> \o <<y>>
  <2>1. <<x>> \in Seq(Lines) /\ <<y>> \in Seq(Lines)
    OBVIOUS
  <2>2. s \in Seq(Lines) /\ Len(s) = 2 /\ s[1] = x /\ s[2] = y
    BY <2>1
  <2> HIDE DEF s
  <2>3. s = <<x, y>>
    BY <2>2
  <2> QED BY <2>3 DEF s
<1>2. \A d : d # c => NotTo(d, <<x, y>>)
  BY <1>1 DEF NotTo, IsAnswer
<1>3. \A i, j \in DOMAIN <<x, y>> : IsAnswer(c, <<x, y>>[i]) /\ IsAnswer(c, <<x, y>>[j]) => i = j
  BY <1>1 DEF IsAnswer
<1> QED BY <1>1, <1>2, <1>3, <1>4 DEF OnlyTo

LEMMA LineKinds ==
  /\ \A c \in Callers, what \in {"ok", "busy", "invalid", "error", "exception"}, n \in Upto :
       Answer(c, what, n) \in Lines /\ Answer(c, what, n).kind = "answer" /\ Answer(c, what, n).of = c
  /\ \A n \in Turns : Started(n) \in Lines /\ Started(n).kind = "started"
  /\ \A n \in Turns, status \in {"completed", "failed", "interrupted"} :
       Ended(n, status) \in Lines /\ Ended(n, status).kind = "completed"
  /\ \A status \in Status \cup {"cleared"} : Goal(status) \in Lines /\ Goal(status).kind = "goal"
<1>1. \A c \in Callers, what \in {"ok", "busy", "invalid", "error", "exception"}, n \in Upto :
        Answer(c, what, n) \in Lines
  BY LinesTyped
<1>2. \A n \in Turns : Started(n) \in Lines
  BY LinesTyped
<1>3. \A n \in Turns, status \in {"completed", "failed", "interrupted"} : Ended(n, status) \in Lines
  BY LinesTyped
<1>4. \A status \in Status \cup {"cleared"} : Goal(status) \in Lines
  BY LinesTyped
<1> QED BY <1>1, <1>2, <1>3, <1>4 DEF Answer, Started, Ended, Goal

LEMMA AnswerLine ==
  ASSUME NEW c \in Callers, NEW what \in {"ok", "busy", "invalid", "error", "exception"}, NEW n \in Upto
  PROVE  OnlyTo(c, <<Answer(c, what, n)>>)
<1> DEFINE x == Answer(c, what, n)
<1>1. x \in Lines /\ x.kind = "answer" /\ x.of = c
  BY LineKinds
<1> HIDE DEF x
<1> QED BY <1>1, AnswerAlone DEF x

LEMMA ServeAnswers ==
  ASSUME TypeInv, NEW c \in Callers,
         Serve(c) \/ \E what \in {"invalid", "error"} : Refuse(c, what)
  PROVE  \E s : OnlyTo(c, s) /\ wire' = wire \o s
<1> USE Numbers
<1>1. CASE ServeRead(c)
  <2>1. PICK what \in {"ok", "busy"} : wire' = wire \o <<Answer(c, what, 0)>>
    BY <1>1 DEF ServeRead, Say
  <2> QED BY <2>1, AnswerLine
<1>2. ASSUME NEW what \in {"invalid", "error"}, Refuse(c, what) PROVE \E s : OnlyTo(c, s) /\ wire' = wire \o s
  <2>1. wire' = wire \o <<Answer(c, what, 0)>>
    BY <1>2 DEF Refuse, Say
  <2> QED BY <2>1, AnswerLine
<1>3. CASE ServeClear(c) \/ ServeSet(c) \/ ServePause(c)
  <2>1. PICK status \in {"cleared", "active", "paused"} :
          \/ wire' = wire \o (<<>> \o <<Answer(c, "ok", 0)>>)
          \/ wire' = wire \o (<<Goal(status)>> \o <<Answer(c, "ok", 0)>>)
          \/ wire' = wire \o <<Goal(status), Answer(c, "ok", 0)>>
    BY <1>3 DEF ServeClear, ServePause, ServeSet, Say
  <2>2. Goal(status) \in Lines /\ Goal(status).kind # "answer"
    BY LineKinds DEF Status
  <2> DEFINE x == Goal(status)
             y == Answer(c, "ok", 0)
  <2>3. x \in Lines /\ x.kind # "answer" /\ y \in Lines /\ y.kind = "answer" /\ y.of = c
    BY <2>2, LineKinds
  <2>4. \/ wire' = wire \o (<<>> \o <<y>>) \/ wire' = wire \o (<<x>> \o <<y>>) \/ wire' = wire \o <<x, y>>
    BY <2>1
  <2> HIDE DEF x, y
  <2>5. <<>> \o <<y>> = <<y>>
    OBVIOUS
  <2> QED BY <2>3, <2>4, <2>5, AnswerAlone, AnswerAndNotice
<1>4. CASE ServeTurn(c)
  <2>1. CASE running = 0 /\ Len(startedBy) < MaxTurns
    <3> DEFINE x == Answer(c, "ok", 0)
               y == Started(Len(startedBy) + 1)
    <3>1. wire' = wire \o <<x, y>>
      BY <1>4, <2>1 DEF ServeTurn, Say
    <3>2. Len(startedBy) + 1 \in Turns
      BY <2>1, StartedByTyped DEF TypeInv
    <3>3. x \in Lines /\ x.kind = "answer" /\ x.of = c /\ y \in Lines /\ y.kind # "answer"
      BY <3>2, LineKinds
    <3> HIDE DEF x, y
    <3> QED BY <3>1, <3>3, AnswerAndNotice
  <2>2. CASE ~(running = 0 /\ Len(startedBy) < MaxTurns)
    <3>1. wire' = wire \o <<Answer(c, "invalid", 0)>>
      BY <1>4, <2>2 DEF ServeTurn, Say
    <3> QED BY <3>1, AnswerLine
  <2> QED BY <2>1, <2>2
<1>5. CASE c \in Goals /\ ServeInterrupt(c)
  <2>1. target[c] \in Turns
    BY <1>5 DEF ServeInterrupt, Reply, TypeInv, ClientType
  <2>2. CASE running = target[c]
    <3> DEFINE x == Ended(running, "interrupted")
               y == Answer(c, "ok", 0)
    <3>1. wire' = wire \o <<x, y>>
      BY <1>5, <2>2 DEF ServeInterrupt, Say
    <3>2. x \in Lines /\ x.kind # "answer" /\ y \in Lines /\ y.kind = "answer" /\ y.of = c
      BY <2>1, <2>2, LineKinds
    <3> HIDE DEF x, y
    <3> QED BY <3>1, <3>2, AnswerAndNotice
  <2>3. CASE running # target[c]
    <3>1. wire' = wire \o <<Answer(c, "invalid", running)>>
      BY <1>5, <2>3 DEF ServeInterrupt, Say
    <3>2. running \in Upto
      BY StartedByTyped DEF TypeInv, ServerType
    <3> QED BY <3>1, <3>2, AnswerLine
  <2> QED BY <2>2, <2>3
<1> QED BY <1>1, <1>2, <1>3, <1>4, <1>5 DEF Serve

LEMMA ServerAnswers ==
  ASSUME TypeInv, AskInv, ServerStep, ~failed
  PROVE  AnswersNobody \/ \E c \in Callers : AnswersCaller(c)
<1> USE Numbers
<1>0. Len(startedBy) \in Nat /\ wire \in Seq(Lines)
  BY StartedByTyped DEF TypeInv, ServerType
<1>1. CASE StartTurn
  <2>1. asked' = asked /\ wire' = wire \o <<Started(Len(startedBy) + 1)>> /\ Len(startedBy) < MaxTurns
    BY <1>1 DEF StartTurn, Quietly, Say
  <2>2. Len(startedBy) + 1 \in Turns
    BY <1>0, <2>1
  <2> QED BY <2>1, <2>2, LineKinds, NoticeIsNoAnswer
<1>2. ASSUME NEW status \in {"completed", "failed"}, EndTurn(status) PROVE AnswersNobody
  <2>1. asked' = asked /\ wire' = wire \o <<Ended(running, status)>> /\ running # 0
    BY <1>2 DEF EndTurn, Quietly, Say
  <2>2. running \in Turns
    BY <2>1 DEF TypeInv, ServerType
  <2> QED BY <2>1, <2>2, LineKinds, NoticeIsNoAnswer
<1>3. CASE EndGoal
  <2>1. asked' = asked /\ wire' = wire \o <<Goal("complete")>>
    BY <1>3 DEF EndGoal, Quietly, Say
  <2> QED BY <2>1, LineKinds, NoticeIsNoAnswer DEF Status
<1>4. CASE Crash
  <2> DEFINE s == <<>>
  <2>1. asked' = asked /\ wire' = wire
    BY <1>4 DEF Crash, Quietly
  <2>2. s \in Seq(Lines) /\ wire \o s = wire /\ DOMAIN s = {}
    BY <1>0
  <2> HIDE DEF s
  <2> QED BY <2>1, <2>2 DEF AnswersNobody, NotTo
<1>5. ASSUME NEW c \in Callers, Serve(c) \/ \E what \in {"invalid", "error"} : Refuse(c, what)
      PROVE  AnswersCaller(c)
  <2>1. c \in asked /\ asked' = asked \ {c}
    BY <1>5 DEF Serve, ServeRead, ServeClear, ServeSet, ServePause, ServeTurn, ServeInterrupt, Refuse, Reply
  <2>2. pc[c] \in Waiting
    BY <2>1 DEF AskInv
  <2> QED BY <1>5, <2>1, <2>2, ServeAnswers DEF AnswersCaller
<1> QED BY <1>1, <1>2, <1>3, <1>4, <1>5 DEF ServerStep

\* Which lines are answers to a caller once more is written, and once one is taken.
LEMMA AnswersGrow ==
  ASSUME wire \in Seq(Lines), NEW s \in Seq(Lines), wire' = wire \o s, NEW c
  PROVE  /\ AnswersTo(c) \subseteq AnswersTo(c)'
         /\ \A i \in AnswersTo(c)' \ AnswersTo(c) :
              i - Len(wire) \in DOMAIN s /\ IsAnswer(c, s[i - Len(wire)])
         /\ NotTo(c, s) => AnswersTo(c)' = AnswersTo(c)
<1>1. /\ Len(wire) \in Nat /\ Len(s) \in Nat /\ Len(wire') = Len(wire) + Len(s)
      /\ DOMAIN wire = 1 .. Len(wire) /\ DOMAIN s = 1 .. Len(s) /\ DOMAIN wire' = 1 .. Len(wire')
      /\ \A j \in 1 .. Len(wire) : wire'[j] = wire[j]
      /\ \A j \in 1 .. Len(s) : wire'[Len(wire) + j] = s[j]
  BY LinesAdded
<1>2. AnswersTo(c) \subseteq AnswersTo(c)'
  BY <1>1 DEF AnswersTo
<1>3. ASSUME NEW i \in AnswersTo(c)', i \notin AnswersTo(c)
      PROVE  i - Len(wire) \in DOMAIN s /\ IsAnswer(c, s[i - Len(wire)])
  <2>1. i \in 1 .. Len(wire') /\ IsAnswer(c, wire'[i])
    BY <1>1, <1>3 DEF AnswersTo
  <2>2. i \notin 1 .. Len(wire)
    BY <1>1, <1>3, <2>1 DEF AnswersTo
  <2>3. i - Len(wire) \in 1 .. Len(s) /\ Len(wire) + (i - Len(wire)) = i
    BY <1>1, <2>1, <2>2
  <2>4. wire'[i] = s[i - Len(wire)]
    BY <1>1, <2>3
  <2> QED BY <1>1, <2>1, <2>3, <2>4
<1> QED BY <1>2, <1>3 DEF NotTo

LEMMA AnswersMoveUp ==
  ASSUME wire \in Seq(Lines), wire # <<>>, wire' = Tail(wire), NEW c
  PROVE  /\ \A i \in AnswersTo(c)' : i \in 1 .. Len(wire) /\ i + 1 \in AnswersTo(c) /\ wire'[i] = wire[i + 1]
         /\ IsAnswer(c, Head(wire)) => 1 \in AnswersTo(c) /\ wire[1] = Head(wire)
         /\ ~IsAnswer(c, Head(wire)) => 1 \notin AnswersTo(c)
<1>1. /\ Len(wire) \in Nat /\ Len(wire) >= 1 /\ Len(Tail(wire)) = Len(wire) - 1
      /\ \A k \in 1 .. Len(Tail(wire)) : Tail(wire)[k] = wire[k + 1]
      /\ Head(wire) = wire[1] /\ 1 \in DOMAIN wire /\ Tail(wire) \in Seq(Lines)
  BY TailOfLines
<1>2. DOMAIN wire' = 1 .. Len(wire') /\ DOMAIN wire = 1 .. Len(wire)
  BY <1>1
<1>3. ASSUME NEW i \in AnswersTo(c)'
      PROVE  i \in 1 .. Len(wire) /\ i + 1 \in AnswersTo(c) /\ wire'[i] = wire[i + 1]
  <2>1. i \in 1 .. Len(wire') /\ IsAnswer(c, wire'[i])
    BY <1>2, <1>3 DEF AnswersTo
  <2>2. wire'[i] = wire[i + 1] /\ i + 1 \in DOMAIN wire
    BY <1>1, <1>2, <2>1
  <2> QED BY <1>1, <2>1, <2>2 DEF AnswersTo
<1> QED BY <1>1, <1>3 DEF AnswersTo

\* What a client step is to the requests: it sends one, goes on without one, or raises.
Free(c) == pc[c] \notin Waiting \/ answer[c] # <<>>
Asks(c) == UNCHANGED wire /\ Free(c) /\ \E l \in Waiting : Send(c, l)
Rests(c) ==
  /\ UNCHANGED <<wire, asked, answer>>
  /\ pc' = pc \/ (Free(c) /\ \E l \in Labels : Goto(c, l))

LEMMA ClientAsks ==
  ASSUME ClientStep
  PROVE  \E c \in Callers : Asks(c) \/ Rests(c) \/ TransportError(c)
<1> USE DEF Callers, Free, server
<1>1. ASSUME NEW c \in Callers, EnterThread(c) \/ LeaveThread(c) PROVE Rests(c)
  BY <1>1 DEF EnterThread, LeaveThread, Leaves, clients, Rests, Waiting, Labels, Outside
<1>2. ASSUME NEW c \in Starters, StartOfTurn(c) PROVE Asks(c)
  BY <1>2 DEF StartOfTurn, Acquired, Asks, Waiting
<1>3. ASSUME NEW c \in Starters, TurnRefused(c) \/ AfterTurn(c) PROVE Rests(c)
  BY <1>3 DEF TurnRefused, AfterTurn, NoRequest, Answered, Rests, Waiting, Labels
<1>4. ASSUME NEW g \in Goals, StartOfGoal(g) \/ CancelStream(g) PROVE Asks(g)
  BY <1>4 DEF StartOfGoal, CancelStream, Streaming, Acquired, Asks, Waiting
<1>5. ASSUME NEW g \in Goals, Reserve(g) \/ Cleared(g) \/ Paused(g) \/ InterruptAgain(g) PROVE Asks(g)
  BY <1>5 DEF Reserve, Cleared, Paused, InterruptAgain, Answered, Asks, Waiting
<1>6. ASSUME NEW g \in Goals, StartFails(g) PROVE Asks(g)
  BY <1>6 DEF StartFails, Answered, Asks, Waiting
<1>7. ASSUME NEW g \in Goals, GoalRefused(g) \/ GoalSet(g) \/ TurnSeen(g) \/ Rejected(g) \/ Cancelled(g) \/ CloseStream(g)
      PROVE  Rests(g)
  BY <1>7 DEF GoalRefused, GoalSet, TurnSeen, Rejected, Cancelled, CloseStream, Streaming, Finish, NoRequest,
              Answered, Rests, Waiting, Labels, MustHold
<1>8. ASSUME NEW g \in Goals, Consume(g) PROVE Rests(g)
  <2>1. PICK k \in {"started", "completed", "goal", "failure"} : Took(g, k)
    BY <1>8 DEF Consume, TakeStarted, TakeCompleted, TakeGoal, TakeFailure
  <2>2. UNCHANGED <<asked, answer, wire>> /\ pc[g] = "streaming"
    BY <2>1 DEF Took, Streaming
  <2>3. pc' = pc \/ \E l \in {"done", "raised"} : Goto(g, l)
    BY <1>8 DEF Consume, TakeStarted, TakeCompleted, TakeGoal, TakeFailure, EndStream
  <2> QED BY <2>2, <2>3 DEF Rests, Waiting, Labels
<1> QED BY <1>1, <1>2, <1>3, <1>4, <1>5, <1>6, <1>7, <1>8 DEF ClientStep, GoalCall

LEMMA AskByServer ==
  ASSUME TypeInv, AskInv, ServerStep, ~failed
  PROVE  AskInv'
<1>0. wire \in Seq(Lines) /\ UNCHANGED <<pc, answer>>
  BY ServerSteps DEF ServerStep, TypeInv, ServerType, clients
<1>1. CASE AnswersNobody
  <2>1. PICK s \in Seq(Lines) : wire' = wire \o s /\ \A c : NotTo(c, s)
    BY <1>1 DEF AnswersNobody
  <2>2. \A c : AnswersTo(c)' = AnswersTo(c)
    BY <1>0, <2>1, AnswersGrow
  <2> QED BY <1>0, <1>1, <2>2 DEF AnswersNobody, AskInv
<1>2. ASSUME NEW c \in Callers, AnswersCaller(c) PROVE AskInv'
  <2>1. PICK s : OnlyTo(c, s) /\ wire' = wire \o s
    BY <1>2 DEF AnswersCaller
  <2>2. s \in Seq(Lines) /\ c \in asked /\ asked' = asked \ {c} /\ pc[c] \in Waiting
    BY <1>2, <2>1 DEF AnswersCaller, OnlyTo
  <2>3. ASSUME NEW d \in Callers, d # c
        PROVE  AnswersTo(d)' = AnswersTo(d) /\ (d \in asked' <=> d \in asked)
    BY <1>0, <2>1, <2>2, <2>3, AnswersGrow DEF OnlyTo
  <2>4. AnswersTo(c) = {} /\ answer[c] = <<>> /\ c \notin asked'
    BY <2>2 DEF AskInv
  <2>5. ASSUME NEW i \in AnswersTo(c)', NEW j \in AnswersTo(c)' PROVE i = j
    <3>1. /\ i - Len(wire) \in DOMAIN s /\ IsAnswer(c, s[i - Len(wire)])
          /\ j - Len(wire) \in DOMAIN s /\ IsAnswer(c, s[j - Len(wire)])
      BY <1>0, <2>1, <2>2, <2>4, AnswersGrow
    <3>2. i - Len(wire) = j - Len(wire)
      BY <2>1, <3>1 DEF OnlyTo
    <3>3. i \in Int /\ j \in Int /\ Len(wire) \in Int
      BY <1>0, <2>1, <2>2, LinesAdded DEF AnswersTo
    <3> QED BY <3>2, <3>3
  <2> QED BY <1>0, <2>2, <2>3, <2>4, <2>5 DEF AskInv
<1> QED BY <1>1, <1>2, ServerAnswers

LEMMA AskByReader ==
  ASSUME TypeInv, AskInv, Reader, ~failed
  PROVE  AskInv'
<1>0. wire \in Seq(Lines) /\ UNCHANGED <<pc, asked>>
  BY DEF TypeInv, ServerType, Reader, RouteAnswer, LookUpGoal, Observe, PutNotification, UnregisterFinished,
         FailAll, FailGoal, PutFailure, server, clients
<1>1. CASE Observe \/ PutNotification \/ UnregisterFinished \/ FailAll \/ FailGoal \/ PutFailure
  <2>1. UNCHANGED <<wire, answer>>
    BY <1>1 DEF Observe, PutNotification, UnregisterFinished, FailAll, FailGoal, PutFailure
  <2> QED BY <1>0, <2>1 DEF AskInv, AnswersTo
<1>2. CASE LookUpGoal
  <2>1. wire # <<>> /\ wire' = Tail(wire) /\ UNCHANGED answer
    BY <1>2 DEF LookUpGoal
  <2>2. ASSUME NEW c \in Callers, NEW i \in AnswersTo(c)', NEW j \in AnswersTo(c)' PROVE i = j /\ AnswersTo(c) # {}
    <3>1. i + 1 \in AnswersTo(c) /\ j + 1 \in AnswersTo(c) /\ i \in Int /\ j \in Int
      BY <1>0, <2>1, <2>2, AnswersMoveUp
    <3>2. i + 1 = j + 1
      BY <3>1 DEF AskInv
    <3> QED BY <3>1, <3>2
  <2> QED BY <1>0, <2>1, <2>2 DEF AskInv
<1>3. CASE RouteAnswer
  <2> DEFINE c == Head(wire).of
  <2>1. wire # <<>> /\ wire' = Tail(wire) /\ answer' = [answer EXCEPT ![c] = <<Head(wire)>>] /\ IsAnswer(c, Head(wire))
    BY <1>3 DEF RouteAnswer, IsAnswer
  <2>2. ASSUME NEW d \in Callers, NEW i \in AnswersTo(d)', NEW j \in AnswersTo(d)'
        PROVE  i = j /\ AnswersTo(d) # {} /\ d # c
    <3>1. i + 1 \in AnswersTo(d) /\ j + 1 \in AnswersTo(d) /\ i \in 1 .. Len(wire) /\ j \in 1 .. Len(wire)
      BY <1>0, <2>1, <2>2, AnswersMoveUp
    <3>2. i + 1 = j + 1
      BY <3>1 DEF AskInv
    <3>3. d = c => 1 \in AnswersTo(d)
      BY <1>0, <2>1, AnswersMoveUp
    <3>4. d = c => i + 1 = 1
      BY <3>1, <3>3 DEF AskInv
    <3> QED BY <3>1, <3>2, <3>4
  <2>3. 1 \in AnswersTo(c)
    BY <1>0, <2>1, AnswersMoveUp
  <2>4. ASSUME NEW d \in Callers PROVE d # c => answer'[d] = answer[d]
    BY <2>1 DEF TypeInv, ReaderType
  <2>5. c \in Callers => c \notin asked
    BY <2>3 DEF AskInv
  <2> HIDE DEF c
  <2> QED BY <1>0, <2>2, <2>4, <2>5 DEF AskInv
<1> QED BY <1>1, <1>2, <1>3 DEF Reader

LEMMA AskByClient ==
  ASSUME TypeInv, AskInv, ClientStep, ~failed
  PROVE  AskInv'
<1>1. PICK c \in Callers : Asks(c) \/ Rests(c) \/ TransportError(c)
  BY ClientAsks
<1>2. \A d : wire' = wire => AnswersTo(d)' = AnswersTo(d)
  BY DEF AnswersTo
<1>3. CASE Asks(c)
  <2>1. PICK l \in Waiting : Send(c, l)
    BY <1>3 DEF Asks
  <2>2. asked' = asked \cup {c} /\ pc'[c] = l /\ answer'[c] = <<>>
        /\ \A d \in Callers : d # c => pc'[d] = pc[d] /\ answer'[d] = answer[d]
    BY <2>1, SentOne
  <2>3. AnswersTo(c) = {}
    BY <1>3 DEF Asks, Free, AskInv
  <2> QED BY <1>2, <1>3, <2>2, <2>3 DEF Asks, AskInv
<1>4. CASE Rests(c)
  <2>1. CASE pc' = pc
    BY <1>2, <1>4, <2>1 DEF Rests, AskInv
  <2>2. CASE Free(c) /\ \E l \in Labels : Goto(c, l)
    <3>1. c \notin asked /\ AnswersTo(c) = {}
      BY <2>2 DEF Free, AskInv
    <3>2. \A d \in Callers : d # c => pc'[d] = pc[d]
      BY <2>2 DEF Goto, TypeInv, ClientType
    <3> QED BY <1>2, <1>4, <3>1, <3>2 DEF Rests, AskInv
  <2> QED BY <1>4, <2>1, <2>2 DEF Rests
<1>5. ~TransportError(c)
  BY DEF TransportError
<1> QED BY <1>1, <1>3, <1>4, <1>5

-----------------------------------------------------------------------------
(* Cancellation: what stops. *)

\* Something went wrong before the transport fails, and before a consumer is told so.
FaultInv ==
  /\ failed \/ crashed => faults # 0
  /\ \A g \in Goals : Failing(g) \/ (Live(g) /\ state[g].failure) => failed

HasGoal(g) == goal = "active" /\ owner = g
HasTurn(g) == running # 0 /\ startedBy[running] = g

\* Before the line at i is read the state of g hears of a turn to interrupt.
Heard(g, i) == state[g].completed # 0 \/ Announced(g, i)

Reported(g) ==
  /\ \A i \in AnswersTo(g) : Heard(g, i)
  /\ answer[g] # <<>> => state[g].completed # 0 \/ state[g].started # 0
Names(a) == a.what = "invalid" /\ a.n = running
Named(g) ==
  /\ running # target[g]
  /\ \A i \in AnswersTo(g) : Names(wire[i])
  /\ answer[g] # <<>> => Names(answer[g][1])

\* Once the goal is paused it starts no more turns; and one that still runs is known when the
\* answer to the pause is, named when the first interrupt missed it, and then interrupted.
StopsFor(g) ==
  /\ pc[g] \in {"interrupt", "interrupt again", "cancelled"} \/ (pc[g] = "pause" /\ g \notin asked) => ~HasGoal(g)
  /\ HasTurn(g) =>
       /\ pc[g] = "pause" => Reported(g)
       /\ pc[g] = "interrupt" /\ g \notin asked => Named(g)
       /\ pc[g] = "interrupt again" => g \in asked /\ running = target[g]
       /\ pc[g] # "cancelled"
StopInv == faults = 0 => \A g \in Goals : StopsFor(g)

CancelAt == {"pause", "interrupt", "interrupt again", "cancelled"}

LEMMA FaultsGrow ==
  ASSUME TypeInv, Next
  PROVE  faults' = faults \/ (faults' = faults + 1 /\ faults' # 0)
<1>0. faults \in Nat
  BY DEF TypeInv, ServerType
<1>1. ASSUME NEW c \in Callers, Serve(c) \/ \E what \in {"invalid", "error"} : Refuse(c, what)
      PROVE  faults' = faults \/ faults' = faults + 1
  BY <1>1 DEF Serve, ServeRead, ServeClear, ServeSet, ServePause, ServeTurn, ServeInterrupt, Refuse, Fault
<1>2. ASSUME StartTurn \/ EndGoal \/ Crash \/ \E status \in {"completed", "failed"} : EndTurn(status)
      PROVE  faults' = faults \/ faults' = faults + 1
  BY <1>2 DEF StartTurn, EndGoal, Crash, EndTurn, Fault
<1>3. Reader \/ ClientStep => faults' = faults \/ faults' = faults + 1
  BY ReaderReads, ClientReads DEF Reads, Fault
<1>4. faults' = faults \/ faults' = faults + 1
  BY <1>1, <1>2, <1>3, NextCases
<1> QED BY <1>0, <1>4

LEMMA KeepsFault ==
  ASSUME TypeInv, LabelInv, FaultInv, Next
  PROVE  FaultInv'
<1>0. faults' # 0 \/ faults' = faults
  BY FaultsGrow
<1>1. CASE ServerStep
  <2>1. UNCHANGED <<hand, failed, state, pc>>
    BY <1>1, ServerSteps DEF ServerStep, reader, clients
  <2>2. Crash \/ crashed' = crashed
    BY <1>1 DEF ServerStep, StartTurn, EndGoal, EndTurn, Serve, ServeRead, ServeClear, ServeSet, ServePause,
                ServeTurn, ServeInterrupt, Refuse, Reply
  <2>3. Crash => crashed' /\ faults' # 0
    <3>1. Crash => faults' = faults + 1 /\ crashed'
      BY DEF Crash, Fault
    <3>2. faults \in Nat
      BY DEF TypeInv, ServerType
    <3> QED BY <3>1, <3>2
  <2> QED BY <1>0, <2>1, <2>2, <2>3 DEF FaultInv, Live, Failing
<1>2. CASE Reader
  <2>1. UNCHANGED crashed /\ Untouched
    BY <1>2, ReaderReads, ReaderSteps DEF Reads
  <2>2. CASE FailAll
    <3>1. failed' /\ (crashed \/ faults' = faults + 1)
      BY <2>2 DEF FailAll, Fault
    <3>2. faults \in Nat
      BY DEF TypeInv, ServerType
    <3>3. faults' # 0
      BY <1>0, <3>1, <3>2 DEF FaultInv
    <3> QED BY <3>1, <3>3 DEF FaultInv
  <2>3. CASE FailGoal
    <3>1. Failing(hand[1].to) /\ hand[1].to \in Goals /\ UNCHANGED <<failed, faults>>
      BY <2>3, HandTyped DEF FailGoal, Failing, TypeInv, server
    <3> QED BY <2>1, <3>1 DEF FaultInv
  <2>4. CASE ~FailAll /\ ~FailGoal
    <3>1. UNCHANGED <<failed, faults>>
      BY <1>2, <2>4 DEF Reader, RouteAnswer, LookUpGoal, Observe, PutNotification, UnregisterFinished,
                        PutFailure, reader, server
    <3>2. \A g \in Goals : state'[g].failure = state[g].failure
      <4>1. CASE Observe
        BY <4>1, ObserveDoes DEF TypeInv
      <4>2. CASE ~Observe
        BY <1>2, <2>4, <4>2 DEF Reader, RouteAnswer, LookUpGoal, PutNotification, UnregisterFinished, PutFailure
      <4> QED BY <4>1, <4>2
    <3>3. ASSUME NEW g \in Goals, Failing(g)' PROVE Failing(g)
      <4>1. CASE Quits
        <5>1. hand = <<>> /\ hand' # <<>> /\ hand'[1].at = "fail"
          BY <3>3, <4>1 DEF Quits, Failing
        <5>2. LookUpGoal
          BY <1>2, <2>4, <5>1 DEF Reader, RouteAnswer, Observe, PutNotification, UnregisterFinished,
                                  PutFailure, reader
        <5> QED BY <5>1, <5>2 DEF LookUpGoal
      <4>2. CASE TakesLine \/ Drops \/ Observes \/ Puts \/ LetsGo \/ Fails
        BY <3>3, <4>2 DEF TakesLine, Drops, Observes, Puts, LetsGo, Fails, Failing
      <4> QED BY <1>2, <4>1, <4>2, ReaderSteps
    <3> QED BY <2>1, <3>1, <3>2, <3>3 DEF FaultInv, Live, Untouched
  <2> QED BY <2>2, <2>3, <2>4
<1>3. CASE ClientStep
  <2>1. UNCHANGED <<crashed, failed, hand>>
    BY <1>3, ClientReads, ClientCases DEF Reads, Frame, TypeInv
  <2>2. ASSUME NEW g \in Goals, Live(g)' PROVE Live(g) /\ state'[g].failure = state[g].failure
    <3>1. StaysStill(g) \/ Opens(g) \/ Takes(g) \/ Stops(g)
      BY <1>3, ClientSteps DEF LabelInv
    <3>2. CASE StaysStill(g)
      BY <2>2, <3>2 DEF StaysStill, Live
    <3>3. CASE Opens(g)
      BY <3>3, OpensFields DEF Opens, Live, Finished
    <3>4. CASE Takes(g)
      BY <3>4, TakesFields DEF Takes, Live, Finished
    <3>5. CASE Stops(g)
      BY <2>2, <3>5 DEF Stops, Live
    <3> QED BY <3>1, <3>2, <3>3, <3>4, <3>5
  <2> QED BY <1>0, <2>1, <2>2 DEF FaultInv, Failing
<1> QED BY <1>1, <1>2, <1>3, NextCases DEF ServerStep

\* An operation that goes on without a fault and without the route is one whose goal is over.
LEMMA EndedWithoutRoute ==
  ASSUME RouteInv, EndInv, FaultInv, faults = 0, NEW g \in Goals, Operating(g), route # g
  PROVE  state[g].completed # 0
<1>1. Live(g)
  BY DEF Operating, Live, Finished
<1>2. ~state[g].failure /\ ~Failing(g)
  BY <1>1 DEF FaultInv
<1>3. state[g].finished
  BY <1>2 DEF RouteInv, RouteFollowsOperation
<1> QED BY <1>1, <1>3 DEF EndInv, Over

-----------------------------------------------------------------------------
(* ... by the app-server. *)

\* A step that is not for g.
Aside(g) ==
  /\ g \in asked' <=> g \in asked
  /\ \E s \in Seq(Lines) : wire' = wire \o s /\ NotTo(g, s)
  /\ HasGoal(g)' => HasGoal(g)
  /\ HasTurn(g)' => HasGoal(g) \/ (HasTurn(g) /\ running' = running)

LEMMA LastStarted ==
  ASSUME TypeInv, NEW c \in Callers \cup {Nobody}
  PROVE  Append(startedBy, c)[Len(startedBy) + 1] = c
BY StartedByTyped

LEMMA ServerAside ==
  ASSUME TypeInv, LabelInv, AskInv, ServerStep, ~failed, NEW g \in Goals, pc[g] \in CancelAt
  PROVE  Aside(g) \/ ServePause(g) \/ ServeInterrupt(g) \/ faults' # 0
<1>0. faults \in Nat /\ owner \in Goals \cup {Nobody} /\ g \in Callers
  BY DEF TypeInv, ServerType, Callers
<1>1. ASSUME StartTurn \/ EndGoal \/ Crash \/ \E status \in {"completed", "failed"} : EndTurn(status)
      PROVE  Aside(g)
  <2>1. asked' = asked
    BY <1>1 DEF StartTurn, EndGoal, Crash, EndTurn, Quietly
  <2>2. AnswersNobody
    BY <2>1, ServerAnswers DEF AnswersCaller
  <2>3. HasGoal(g)' => HasGoal(g)
    BY <1>1 DEF StartTurn, EndGoal, Crash, EndTurn, HasGoal
  <2>4. HasTurn(g)' => HasGoal(g) \/ (HasTurn(g) /\ running' = running)
    <3>1. CASE StartTurn
      <4>1. startedBy' = Append(startedBy, owner) /\ running' = Len(startedBy) + 1 /\ goal = "active"
        BY <3>1 DEF StartTurn
      <4>2. startedBy'[running'] = owner
        BY <1>0, <4>1, LastStarted DEF Callers
      <4> QED BY <4>1, <4>2 DEF HasTurn, HasGoal
    <3>2. CASE EndGoal \/ Crash \/ \E status \in {"completed", "failed"} : EndTurn(status)
      BY <3>2 DEF EndGoal, Crash, EndTurn, HasTurn
    <3> QED BY <1>1, <3>1, <3>2
  <2> QED BY <2>1, <2>2, <2>3, <2>4 DEF Aside, AnswersNobody
<1>2. ASSUME NEW c \in Callers, c # g, Serve(c) \/ \E what \in {"invalid", "error"} : Refuse(c, what)
      PROVE  Aside(g)
  <2>1. asked' = asked \ {c}
    BY <1>2 DEF Serve, ServeRead, ServeClear, ServeSet, ServePause, ServeTurn, ServeInterrupt, Refuse, Reply
  <2>2. \E s \in Seq(Lines) : wire' = wire \o s /\ NotTo(g, s)
    BY <1>0, <1>2, ServeAnswers DEF OnlyTo
  <2>3. HasGoal(g)' => HasGoal(g)
    BY <1>2 DEF Serve, ServeRead, ServeClear, ServeSet, ServePause, ServeTurn, ServeInterrupt, Refuse, HasGoal
  <2>4. HasTurn(g)' => HasTurn(g) /\ running' = running
    <3>1. CASE ServeTurn(c)
      <4>1. CASE running = 0 /\ Len(startedBy) < MaxTurns
        <5>1. startedBy' = Append(startedBy, c) /\ running' = Len(startedBy) + 1
          BY <3>1, <4>1 DEF ServeTurn
        <5>2. startedBy'[running'] = c
          BY <5>1, LastStarted
        <5> QED BY <1>2, <5>2 DEF HasTurn
      <4>2. CASE ~(running = 0 /\ Len(startedBy) < MaxTurns)
        BY <3>1, <4>2 DEF ServeTurn, HasTurn
      <4> QED BY <4>1, <4>2
    <3>2. CASE c \in Goals /\ ServeInterrupt(c)
      <4>1. (running' = 0 \/ running' = running) /\ UNCHANGED startedBy
        BY <3>2 DEF ServeInterrupt
      <4> QED BY <4>1 DEF HasTurn
    <3>3. CASE ServeRead(c) \/ ServeClear(c) \/ ServeSet(c) \/ ServePause(c) \/ \E what \in {"invalid", "error"} : Refuse(c, what)
      BY <3>3 DEF ServeRead, ServeClear, ServeSet, ServePause, Refuse, HasTurn
    <3> QED BY <1>2, <3>1, <3>2, <3>3 DEF Serve
  <2> QED BY <1>2, <2>1, <2>2, <2>3, <2>4 DEF Aside
<1>3. Serve(g) => ServePause(g) \/ ServeInterrupt(g)
  BY DEF Serve, ServeRead, ServeClear, ServeSet, ServeTurn, Reply, CancelAt
<1>4. ASSUME NEW what \in {"invalid", "error"}, Refuse(g, what) PROVE faults' # 0
  BY <1>0, <1>4 DEF Refuse, Fault
<1> QED BY <1>1, <1>2, <1>3, <1>4 DEF ServerStep

LEMMA StopByOthers ==
  ASSUME TypeInv, AskInv, ServerStep, ~failed, NEW g \in Goals, OutOfReach, UNCHANGED <<answer, target>>,
         Aside(g), StopsFor(g)
  PROVE  StopsFor(g)'
<1>0. wire \in Seq(Lines) /\ Len(wire) \in Nat /\ DOMAIN wire = 1 .. Len(wire) /\ g \in Callers /\ pc' = pc /\ state' = state
  BY DEF TypeInv, ServerType, Callers, OutOfReach
<1>1. PICK s \in Seq(Lines) : wire' = wire \o s /\ NotTo(g, s)
  BY DEF Aside
<1>2. AnswersTo(g)' = AnswersTo(g)
  BY <1>0, <1>1, AnswersGrow
<1>3. (g \in asked' <=> g \in asked) /\ (HasGoal(g)' => HasGoal(g))
  BY DEF Aside
<1>4. ASSUME HasTurn(g)', ~HasTurn(g) \/ running' # running
      PROVE  /\ pc[g] = "pause" => Reported(g)'
             /\ pc[g] \notin {"interrupt", "interrupt again", "cancelled"}
  <2>1. HasGoal(g)
    BY <1>4 DEF Aside
  <2>2. pc[g] \notin {"interrupt", "interrupt again", "cancelled"} /\ (pc[g] = "pause" => g \in asked)
    BY <2>1 DEF StopsFor
  <2>3. g \in asked => AnswersTo(g) = {} /\ answer[g] = <<>>
    BY <1>0 DEF AskInv
  <2> QED BY <1>2, <2>2, <2>3 DEF Reported
<1>5. ASSUME HasTurn(g), running' = running
      PROVE  /\ pc[g] = "pause" => Reported(g)'
             /\ pc[g] = "interrupt" /\ g \notin asked => Named(g)'
             /\ pc[g] = "interrupt again" => g \in asked /\ running = target[g]
             /\ pc[g] # "cancelled"
  <2>1. ASSUME pc[g] = "pause" PROVE Reported(g)'
    <3>1. Reported(g)
      BY <1>5, <2>1 DEF StopsFor
    <3>2. ASSUME NEW i \in AnswersTo(g) PROVE Heard(g, i)'
      <4>1. Heard(g, i)
        BY <3>1 DEF Reported
      <4>2. i \in 1 .. Len(wire) + 1 /\ i \in Nat /\ i <= i
        BY <1>0 DEF AnswersTo
      <4>3. Announced(g, i) => Announced(g, i)'
        BY <1>1, <4>2, AnnouncedStays
      <4> QED BY <1>0, <4>1, <4>3 DEF Heard
    <3> QED BY <1>0, <1>2, <3>1, <3>2 DEF Reported
  <2>2. ASSUME pc[g] = "interrupt", g \notin asked PROVE Named(g)'
    <3>1. Named(g)
      BY <1>5, <2>2 DEF StopsFor
    <3>2. \A i \in AnswersTo(g) : wire'[i] = wire[i]
      <4>1. \A i \in 1 .. Len(wire) : wire'[i] = wire[i]
        BY <1>0, <1>1, LinesAdded
      <4> QED BY <1>0, <4>1 DEF AnswersTo
    <3> QED BY <1>2, <1>5, <3>1, <3>2 DEF Named, Names
  <2> QED BY <1>5, <2>1, <2>2 DEF StopsFor
<1>6. pc[g] \in {"interrupt", "interrupt again", "cancelled"} \/ (pc[g] = "pause" /\ g \notin asked) => ~HasGoal(g)
  BY DEF StopsFor
<1>7. HasTurn(g)' => \/ HasTurn(g) /\ running' = running
                     \/ ~HasTurn(g) \/ running' # running
  OBVIOUS
<1> QED BY <1>0, <1>3, <1>4, <1>5, <1>6, <1>7 DEF StopsFor

\* The answer to a pause comes after every line about a turn of the goal there will be.
LEMMA StopByPause ==
  ASSUME TypeInv, RouteInv, LabelInv, OwnInv, EndInv, FaultInv, AskInv, faults = 0, NEW g \in Goals,
         ServePause(g), OutOfReach, UNCHANGED answer
  PROVE  StopsFor(g)'
<1>0. wire \in Seq(Lines) /\ Len(wire) \in Nat /\ g \in Callers /\ pc' = pc /\ state' = state /\ pc[g] = "pause" /\ g \in asked
  BY DEF TypeInv, ServerType, Callers, OutOfReach, ServePause, Reply
<1>1. ~HasGoal(g)'
  BY DEF ServePause, HasGoal
<1>2. HasTurn(g)' => HasTurn(g)
  BY DEF ServePause, HasTurn
<1>3. ASSUME HasTurn(g) PROVE Heard(g, Len(wire) + 1)
  <2>1. CASE route = g
    <3>1. running # 0 /\ running \notin ForeignTurns(g)
      BY <1>3 DEF HasTurn, ForeignTurns
    <3> QED BY <2>1, <3>1 DEF OwnInv, EndsAnnounced, Heard
  <2>2. CASE route # g
    BY <1>0, <2>2, EndedWithoutRoute DEF Operating, Heard
  <2> QED BY <2>1, <2>2
<1>4. PICK s : OnlyTo(g, s) /\ wire' = wire \o s
  BY <1>0, ServeAnswers DEF Serve
<1>5. AnswersTo(g) = {} /\ answer'[g] = <<>>
  BY <1>0 DEF AskInv, FaultInv
<1>6. ASSUME HasTurn(g)', NEW i \in AnswersTo(g)' PROVE Heard(g, i)'
  <2>1. s \in Seq(Lines) /\ i \notin AnswersTo(g)
    BY <1>4, <1>5 DEF OnlyTo
  <2>2. i - Len(wire) \in DOMAIN s /\ i \in 1 .. Len(wire')
    <3>1. i - Len(wire) \in DOMAIN s
      BY <1>0, <1>4, <2>1, AnswersGrow
    <3>2. DOMAIN wire' = 1 .. Len(wire')
      BY <1>0, <1>4, <2>1, LinesAdded
    <3> QED BY <3>1, <3>2 DEF AnswersTo
  <2>3. i \in Nat /\ Len(wire) + 1 <= i /\ Len(wire) + 1 \in 1 .. Len(wire) + 1
    <3>1. DOMAIN s = 1 .. Len(s) /\ Len(s) \in Nat
      BY <2>1, LinesAdded
    <3> QED BY <1>0, <2>2, <3>1
  <2>4. Heard(g, Len(wire) + 1)
    BY <1>2, <1>3, <1>6
  <2>5. Announced(g, Len(wire) + 1) => Announced(g, i)'
    BY <1>4, <2>1, <2>3, AnnouncedStays
  <2> QED BY <1>0, <2>4, <2>5 DEF Heard
<1>7. HasTurn(g)' => Reported(g)'
  BY <1>5, <1>6 DEF Reported
<1> QED BY <1>0, <1>1, <1>7 DEF StopsFor

\* An interrupt that misses the turn of the goal answers with its name.
LEMMA StopByInterrupt ==
  ASSUME TypeInv, AskInv, ~failed, NEW g \in Goals, ServeInterrupt(g), OutOfReach,
         UNCHANGED <<answer, target>>, StopsFor(g)
  PROVE  StopsFor(g)'
<1>0. /\ wire \in Seq(Lines) /\ Len(wire) \in Nat /\ g \in Callers /\ pc' = pc /\ state' = state
      /\ pc[g] \in {"interrupt", "interrupt again"} /\ g \in asked /\ asked' = asked \ {g}
  <2>1. wire \in Seq(Lines) /\ Len(wire) \in Nat /\ g \in Callers
    BY DEF TypeInv, ServerType, Callers
  <2>2. pc' = pc /\ state' = state
    BY DEF OutOfReach
  <2>3. pc[g] \in {"interrupt", "interrupt again"} /\ g \in asked /\ asked' = asked \ {g}
    BY DEF ServeInterrupt, Reply
  <2> QED BY <2>1, <2>2, <2>3
<1>1. ~HasGoal(g) /\ (HasGoal(g)' <=> HasGoal(g))
  BY <1>0 DEF StopsFor, ServeInterrupt, HasGoal
<1>2. CASE running = target[g]
  <2>1. running' = 0
    BY <1>2 DEF ServeInterrupt
  <2> QED BY <1>0, <1>1, <2>1 DEF StopsFor, HasTurn
<1>3. CASE running # target[g]
  <2> DEFINE a == Answer(g, "invalid", running)
  <2>1. running' = running /\ startedBy' = startedBy /\ wire' = wire \o <<a>>
    BY <1>3 DEF ServeInterrupt, Say
  <2>2. HasTurn(g)' => HasTurn(g) /\ pc[g] # "interrupt again"
    BY <1>0, <1>3, <2>1 DEF HasTurn, StopsFor
  <2>3. running \in Upto
    BY Numbers DEF TypeInv, ServerType
  <2>4. a \in Lines /\ a.what = "invalid" /\ a.n = running
    BY <1>0, <2>3, LineKinds DEF Answer
  <2> HIDE DEF a
  <2>5. <<a>> \in Seq(Lines) /\ Len(<<a>>) = 1 /\ <<a>>[1] = a
    BY <2>4
  <2>6. AnswersTo(g) = {} /\ answer'[g] = <<>>
    BY <1>0 DEF AskInv
  <2>7. ASSUME NEW i \in AnswersTo(g)' PROVE Names(wire[i])'
    <3> DEFINE s == <<a>>
    <3>1. s \in Seq(Lines) /\ Len(s) = 1 /\ DOMAIN s = 1 .. Len(s) /\ s[1] = a /\ wire' = wire \o s
      BY <2>1, <2>5
    <3> HIDE DEF s
    <3>2. i - Len(wire) \in DOMAIN s
      BY <1>0, <2>6, <3>1, AnswersGrow
    <3>3. /\ Len(wire) \in Nat /\ DOMAIN wire' = 1 .. Len(wire')
          /\ Len(wire') = Len(wire) + Len(s) /\ Len(s) = 1
      <4>1. /\ Len(wire) \in Nat /\ Len(wire \o s) = Len(wire) + Len(s)
            /\ DOMAIN (wire \o s) = 1 .. Len(wire) + Len(s)
        BY <1>0, <3>1, LinesAdded
      <4> QED BY <3>1, <4>1
    <3>4. i = Len(wire) + 1
      <4>1. i \in 1 .. Len(wire')
        BY <3>3 DEF AnswersTo
      <4>2. i - Len(wire) \in 1 .. 1
        BY <3>1, <3>2
      <4> QED BY <3>3, <4>1, <4>2
    <3>5. 1 \in 1 .. Len(s)
      BY <3>1
    <3>6. wire'[Len(wire) + 1] = s[1]
      BY <1>0, <3>1, <3>5, LinesAdded
    <3> QED BY <2>1, <2>4, <3>1, <3>4, <3>6 DEF Names
  <2>8. Named(g)'
    BY <1>3, <2>1, <2>6, <2>7 DEF Named
  <2> QED BY <1>0, <1>1, <2>2, <2>8 DEF StopsFor
<1> QED BY <1>2, <1>3

LEMMA StopByServer ==
  ASSUME TypeInv, RouteInv, StreamInv, FaultInv, AskInv, StopInv, Next, ServerStep
  PROVE  StopInv'
<1> SUFFICES ASSUME faults' = 0, NEW g \in Goals PROVE StopsFor(g)'
  BY DEF StopInv
<1>1. faults = 0 /\ ~failed
  BY FaultsGrow DEF FaultInv
<1>2. OutOfReach /\ UNCHANGED <<answer, target>>
  BY ServerSteps DEF ServerStep, OutOfReach, reader, clients
<1>3. StopsFor(g)
  BY <1>1 DEF StopInv
<1>4. CASE pc[g] \notin CancelAt
  BY <1>2, <1>4 DEF OutOfReach, StopsFor, CancelAt
<1>5. CASE pc[g] \in CancelAt
  <2>1. Aside(g) \/ ServePause(g) \/ ServeInterrupt(g)
    BY <1>1, <1>5, ServerAside DEF StreamInv
  <2> QED BY <1>1, <1>2, <1>3, <2>1, StopByOthers, StopByPause, StopByInterrupt DEF StreamInv
<1> QED BY <1>4, <1>5

-----------------------------------------------------------------------------
(* ... by the reader. *)

LEMMA TurnNumbers == \A x \in StartedLines \cup EndedLines : x.n # 0
BY Numbers DEF StartedLines, EndedLines

\* What a state has heard of, it keeps.
LEMMA ReaderKeepsCompleted ==
  ASSUME TypeInv, Reader, NEW g \in Goals
  PROVE  /\ state[g].completed # 0 => state'[g].completed # 0
         /\ state[g].started # 0 => state'[g].started # 0
<1>0. state[g] \in States
  BY DEF TypeInv, ReaderType
<1>1. CASE TakesLine \/ Drops \/ Puts \/ LetsGo \/ Quits
  BY <1>1 DEF TakesLine, Drops, Puts, LetsGo, Quits
<1>2. CASE Observes /\ hand[1].to # g
  BY <1>2 DEF Observes
<1>3. CASE Observes /\ hand[1].to = g
  <2>1. hand[1].msg \in Notices /\ state'[g] = Observed(state[g], hand[1].msg)
    BY <1>3 DEF Observes
  <2>2. SameView(Told(state[g], hand[1].msg), state'[g])
    BY <1>0, <2>1, ObservedFields
  <2>3. LET new == Told(state[g], hand[1].msg) IN
        new.completed = IF hand[1].msg.kind = "completed" THEN hand[1].msg.n ELSE state[g].completed
    BY <1>0, <2>1, ToldFields
  <2>4. hand[1].msg.kind = "completed" => hand[1].msg.n # 0
    BY <2>1, TurnNumbers, KindsOfLines
  <2> QED BY <2>2, <2>3, <2>4, ReaderKeepsStarted DEF SameView
<1>4. CASE Fails
  BY <1>4, FailsKeepsView DEF SameView
<1> QED BY <1>1, <1>2, <1>3, <1>4, ReaderSteps

LEMMA HeardStays ==
  ASSUME TypeInv, OwnInv, Reader, UNCHANGED wire, NEW g \in Goals, HasTurn(g), NEW i, Heard(g, i)
  PROVE  Heard(g, i)'
<1>1. CASE state[g].completed # 0 \/ state[g].started # 0
  BY <1>1, ReaderKeepsCompleted DEF Heard, Announced
<1>2. CASE \E j \in 1 .. i - 1 : wire[j].kind = "started"
  BY <1>2 DEF Heard, Announced
<1>3. CASE Observing(g) /\ Holding("started")
  <2>1. state[g].routing
    <3>1. running \in DOMAIN startedBy /\ startedBy[running] = g
      BY StartedByTyped DEF HasTurn
    <3> QED BY <3>1 DEF OwnInv, NotOpen
  <2>2. ~(TakesLine \/ Drops \/ Puts \/ LetsGo \/ Quits \/ Fails)
    BY <1>3, <2>1 DEF TakesLine, Drops, Puts, LetsGo, Quits, Fails, Observing, Holding
  <2>3. hand[1].to = g /\ hand[1].msg \in Notices /\ state'[g] = Observed(state[g], hand[1].msg) /\ hand[1].msg.kind = "started"
    BY <1>3, <2>2, ReaderSteps DEF Observes, Observing, Holding
  <2>4. state[g] \in States
    BY DEF TypeInv, ReaderType
  <2>5. SameView(Told(state[g], hand[1].msg), state'[g])
    BY <2>3, <2>4, ObservedFields
  <2>6. LET new == Told(state[g], hand[1].msg) IN
        new.started = IF state[g].started = 0 THEN hand[1].msg.n ELSE state[g].started
    BY <2>3, <2>4, ToldFields
  <2>7. hand[1].msg.n # 0
    BY <2>3, TurnNumbers, KindsOfLines
  <2>8. state'[g].started # 0
    BY <2>5, <2>6, <2>7 DEF SameView
  <2> QED BY <2>8 DEF Heard, Announced
<1> QED BY <1>1, <1>2, <1>3 DEF Heard, Announced

LEMMA HeardMovesUp ==
  ASSUME TypeInv, RouteInv, EndInv, FaultInv, faults = 0, NEW g \in Goals, Operating(g), TakesLine,
         NEW i \in 1 .. Len(wire), Heard(g, i + 1)
  PROVE  Heard(g, i)'
<1>1. state' = state
  BY DEF TakesLine
<1>2. CASE state[g].completed # 0
  BY <1>1, <1>2 DEF Heard
<1>3. CASE route # g
  BY <1>1, <1>3, EndedWithoutRoute DEF Heard
<1>4. CASE route = g /\ Announced(g, i + 1)
  BY <1>4, AnnouncedMovesUp DEF Heard
<1> QED BY <1>2, <1>3, <1>4 DEF Heard

\* What is routed while nothing is in hand has been observed.
LEMMA HeardInTime ==
  ASSUME NEW g, hand = <<>>, Heard(g, 1)
  PROVE  state[g].completed # 0 \/ state[g].started # 0
BY DEF Heard, Announced, Observing

LEMMA StopByReader ==
  ASSUME TypeInv, RouteInv, StreamInv, FaultInv, AskInv, StopInv, Next, Reader
  PROVE  StopInv'
<1> SUFFICES ASSUME faults' = 0, NEW g \in Goals PROVE StopsFor(g)'
  BY DEF StopInv
<1>0. /\ UNCHANGED <<goal, owner, running, startedBy, crashed, faults, asked, pc, target>>
      /\ wire \in Seq(Lines) /\ g \in Callers /\ ~FailAll
  <2>1. faults \in Nat /\ wire \in Seq(Lines) /\ g \in Callers
    BY DEF TypeInv, ServerType, Callers
  <2>2. faults = 0 /\ faults' = faults /\ ~crashed
    BY FaultsGrow DEF FaultInv
  <2>3. ~FailAll
    BY <2>1, <2>2 DEF FailAll, Fault
  <2>4. UNCHANGED server /\ UNCHANGED <<pc, target>>
    BY <2>3 DEF Reader, RouteAnswer, LookUpGoal, Observe, PutNotification, UnregisterFinished, FailGoal,
                PutFailure, clients
  <2> QED BY <2>1, <2>3, <2>4 DEF server
<1>1. StopsFor(g)
  BY <1>0 DEF StopInv
<1>2. (HasGoal(g)' <=> HasGoal(g)) /\ (HasTurn(g)' <=> HasTurn(g))
  BY <1>0 DEF HasGoal, HasTurn
<1>3. ASSUME HasTurn(g), pc[g] = "pause", Reported(g) PROVE Reported(g)'
  <2>1. /\ state[g].completed # 0 => state'[g].completed # 0
        /\ state[g].started # 0 => state'[g].started # 0
    BY ReaderKeepsCompleted
  <2>2. CASE Observe \/ PutNotification \/ UnregisterFinished \/ FailGoal \/ PutFailure
    <3>1. UNCHANGED <<wire, answer>>
      BY <2>2 DEF Observe, PutNotification, UnregisterFinished, FailGoal, PutFailure
    <3>3. AnswersTo(g)' = AnswersTo(g)
      BY <3>1 DEF AnswersTo
    <3>4. \A i \in AnswersTo(g) : Heard(g, i)'
      BY <1>3, <3>1, HeardStays DEF Reported, StreamInv
    <3> QED BY <1>3, <2>1, <3>1, <3>3, <3>4 DEF Reported
  <2>4. CASE RouteAnswer \/ LookUpGoal
    <3>1. wire # <<>> /\ wire' = Tail(wire) /\ hand = <<>>
      BY <2>4 DEF RouteAnswer, LookUpGoal
    <3>2. TakesLine
      <4>1. Tail(wire) # wire
        BY <1>0, <3>1, TailOfLines
      <4> QED BY <3>1, <4>1, ReaderSteps DEF Drops, Observes, Puts, LetsGo, Quits, Fails
    <3>3. ASSUME NEW i \in AnswersTo(g)' PROVE Heard(g, i)'
      <4>1. i \in 1 .. Len(wire) /\ i + 1 \in AnswersTo(g)
        BY <1>0, <3>1, AnswersMoveUp
      <4>2. Heard(g, i + 1)
        BY <1>3, <4>1 DEF Reported
      <4> QED BY <1>0, <1>3, <3>2, <4>1, <4>2, HeardMovesUp DEF StreamInv, Operating
    <3>4. ASSUME answer'[g] # <<>> PROVE state[g].completed # 0 \/ state[g].started # 0
      <4>1. CASE answer'[g] = answer[g]
        BY <1>3, <3>4, <4>1 DEF Reported
      <4>2. CASE answer'[g] # answer[g]
        <5>1. RouteAnswer /\ answer' = [answer EXCEPT ![Head(wire).of] = <<Head(wire)>>]
          BY <2>4, <4>2 DEF LookUpGoal, RouteAnswer
        <5>2. IsAnswer(g, Head(wire))
          BY <1>0, <4>2, <5>1 DEF IsAnswer, RouteAnswer, TypeInv, ReaderType
        <5>3. Heard(g, 1)
          BY <1>0, <1>3, <3>1, <5>2, AnswersMoveUp DEF Reported
        <5> QED BY <3>1, <5>3, HeardInTime
      <4> QED BY <4>1, <4>2
    <3> QED BY <2>1, <3>3, <3>4 DEF Reported
  <2> QED BY <1>0, <2>2, <2>4 DEF Reader
<1>4. ASSUME HasTurn(g), pc[g] = "interrupt", Named(g) PROVE Named(g)'
  <2>1. CASE Observe \/ PutNotification \/ UnregisterFinished \/ FailGoal \/ PutFailure
    <3>1. UNCHANGED <<wire, answer>>
      BY <2>1 DEF Observe, PutNotification, UnregisterFinished, FailGoal, PutFailure
    <3>2. AnswersTo(g)' = AnswersTo(g)
      BY <3>1 DEF AnswersTo
    <3> QED BY <1>0, <1>4, <3>1, <3>2 DEF Named, Names
  <2>2. CASE RouteAnswer \/ LookUpGoal
    <3>1. wire # <<>> /\ wire' = Tail(wire)
      BY <2>2 DEF RouteAnswer, LookUpGoal
    <3>2. ASSUME NEW i \in AnswersTo(g)' PROVE Names(wire[i])'
      <4>1. i + 1 \in AnswersTo(g) /\ wire'[i] = wire[i + 1]
        BY <1>0, <3>1, AnswersMoveUp
      <4> QED BY <1>0, <1>4, <4>1 DEF Named, Names
    <3>3. ASSUME answer'[g] # <<>> PROVE Names(answer[g][1])'
      <4>1. CASE answer'[g] = answer[g]
        BY <1>0, <1>4, <3>3, <4>1 DEF Named, Names
      <4>2. CASE answer'[g] # answer[g]
        <5>1. RouteAnswer /\ answer' = [answer EXCEPT ![Head(wire).of] = <<Head(wire)>>]
          BY <2>2, <4>2 DEF LookUpGoal, RouteAnswer
        <5>2. IsAnswer(g, Head(wire)) /\ answer'[g] = <<Head(wire)>>
          BY <1>0, <4>2, <5>1 DEF IsAnswer, RouteAnswer, TypeInv, ReaderType
        <5>3. Names(Head(wire))
          BY <1>0, <1>4, <3>1, <5>2, AnswersMoveUp DEF Named
        <5>4. answer'[g][1] = Head(wire)
          BY <5>2
        <5> QED BY <1>0, <5>3, <5>4 DEF Names
      <4> QED BY <4>1, <4>2
    <3> QED BY <1>0, <1>4, <3>2, <3>3 DEF Named
  <2> QED BY <1>0, <2>1, <2>2 DEF Reader
<1> QED BY <1>0, <1>1, <1>2, <1>3, <1>4 DEF StopsFor

-----------------------------------------------------------------------------
(* ... by the callers. *)

\* A caller moves alone.
Same(d) ==
  /\ pc'[d] = pc[d] /\ answer'[d] = answer[d] /\ (d \in asked' <=> d \in asked)
  /\ d \in Goals => target'[d] = target[d]
Alone(c) == \A d \in Callers : d # c => Same(d)

LEMMA SendsAlone ==
  ASSUME TypeInv, NEW c \in Callers, NEW l, Send(c, l), \A d \in Goals : d # c => target'[d] = target[d]
  PROVE  Alone(c) /\ pc'[c] = l /\ c \in asked'
BY SentOne DEF Alone, Same

LEMMA GoesAlone ==
  ASSUME TypeInv, NEW c \in Callers, NEW l, Goto(c, l), UNCHANGED <<asked, answer, target>>
  PROVE  Alone(c) /\ pc'[c] = l
BY DEF Goto, TypeInv, ClientType, Alone, Same

\* The steps of a goal's caller that have to do with a cancellation.
Cancels(g) ==
  StartFails(g) \/ CancelStream(g) \/ Paused(g) \/ InterruptAgain(g) \/ Cancelled(g) \/ TransportError(g)

LEMMA OthersAlone ==
  ASSUME TypeInv, NEW c \in Callers,
         EnterThread(c) \/ TransportError(c) \/ (c \in Starters /\ (StartOfTurn(c) \/ TurnRefused(c) \/ AfterTurn(c)))
  PROVE  Alone(c) /\ (EnterThread(c) => pc'[c] = "acquire")
<1>1. CASE EnterThread(c)
  BY <1>1, GoesAlone DEF EnterThread, server
<1>2. CASE TransportError(c)
  <2>1. UNCHANGED <<pc, target>> /\ asked' = asked \ {c} /\ answer' = [answer EXCEPT ![c] = <<Answer(c, "exception", 0)>>]
    BY <1>2 DEF TransportError, clients
  <2>2. ~EnterThread(c)
    BY <1>2 DEF EnterThread, TransportError, Waiting
  <2>3. \A d \in Callers : d # c => answer'[d] = answer[d]
    BY <2>1 DEF TypeInv, ReaderType
  <2> QED BY <2>1, <2>2, <2>3 DEF Alone, Same
<1>3. CASE c \in Starters /\ StartOfTurn(c)
  <2>1. Send(c, "turn") /\ UNCHANGED target /\ pc[c] = "acquire"
    BY <1>3 DEF StartOfTurn, Acquired
  <2> QED BY <2>1, SendsAlone DEF EnterThread
<1>4. CASE c \in Starters /\ (TurnRefused(c) \/ AfterTurn(c))
  <2>1. PICK l \in {"raised", "started"} : Goto(c, l) /\ UNCHANGED <<asked, answer, target>>
    BY <1>4 DEF TurnRefused, AfterTurn, NoRequest, server
  <2>2. pc[c] # "idle"
    BY <1>4 DEF TurnRefused, AfterTurn, Answered
  <2> QED BY <2>1, <2>2, GoesAlone DEF EnterThread
<1> QED BY <1>1, <1>2, <1>3, <1>4

LEMMA GoalsAlone ==
  ASSUME TypeInv, NEW g \in Goals, GoalCall(g) \/ CloseStream(g) \/ CancelStream(g)
  PROVE  Alone(g) /\ (Cancels(g) \/ pc'[g] \notin CancelAt)
<1>0. g \in Callers
  BY DEF Callers
<1>1. CASE Cleared(g) \/ StartOfGoal(g) \/ Reserve(g) \/ StartFails(g) \/ CancelStream(g)
  <2>1. PICK l \in {"set", "read", "clear", "pause"} : Send(g, l) /\ UNCHANGED target /\ (l # "pause" \/ Cancels(g))
    BY <1>1 DEF Cleared, StartOfGoal, Reserve, StartFails, CancelStream, Cancels
  <2>2. Alone(g) /\ pc'[g] = l
    BY <1>0, <2>1, SendsAlone
  <2> QED BY <2>1, <2>2 DEF CancelAt
<1>2. CASE Paused(g) \/ InterruptAgain(g)
  <2>1. PICK l, n : Send(g, l) /\ target' = [target EXCEPT ![g] = n]
    BY <1>2 DEF Paused, InterruptAgain
  <2>2. \A d \in Goals : d # g => target'[d] = target[d]
    BY <2>1 DEF TypeInv, ClientType
  <2>3. Alone(g)
    BY <1>0, <2>1, <2>2, SendsAlone
  <2> QED BY <1>2, <2>3 DEF Cancels
<1>3. CASE GoalRefused(g) \/ GoalSet(g) \/ TurnSeen(g) \/ Rejected(g) \/ Cancelled(g) \/ CloseStream(g)
  <2>1. PICK l \in {"raised", "wait for start", "streaming", "cancelled", "closed"} :
          Goto(g, l) /\ UNCHANGED <<asked, answer, target>> /\ (l # "cancelled" \/ Cancels(g))
    BY <1>3 DEF GoalRefused, GoalSet, TurnSeen, Rejected, Cancelled, CloseStream, Finish, NoRequest, server, Cancels
  <2>2. Alone(g) /\ pc'[g] = l
    BY <1>0, <2>1, GoesAlone
  <2> QED BY <2>1, <2>2 DEF CancelAt
<1>4. CASE Consume(g)
  <2>1. PICK k \in {"started", "completed", "goal", "failure"} : Took(g, k)
    BY <1>4 DEF Consume, TakeStarted, TakeCompleted, TakeGoal, TakeFailure
  <2>2. UNCHANGED <<asked, answer, target>> /\ pc[g] = "streaming"
    BY <2>1 DEF Took, Streaming, server
  <2>3. pc' = pc \/ \E l \in {"done", "raised"} : Goto(g, l)
    BY <1>4 DEF Consume, TakeStarted, TakeCompleted, TakeGoal, TakeFailure, EndStream
  <2>4. CASE pc' = pc
    BY <2>2, <2>4 DEF Alone, Same, CancelAt
  <2>5. ASSUME NEW l \in {"done", "raised"}, Goto(g, l) PROVE Alone(g) /\ pc'[g] \notin CancelAt
    BY <1>0, <2>2, <2>5, GoesAlone DEF CancelAt
  <2> QED BY <2>3, <2>4, <2>5
<1>5. CASE TransportError(g)
  BY <1>0, <1>5, OthersAlone DEF Cancels
<1> QED BY <1>1, <1>2, <1>3, <1>4, <1>5 DEF GoalCall

LEMMA CancelCases ==
  ASSUME TypeInv, ClientStep, NEW g \in Goals
  PROVE  Same(g) \/ Cancels(g) \/ pc'[g] \notin CancelAt
<1>0. g \in Callers /\ g \notin Starters
  BY GoalAssumption DEF Callers
<1>1. ASSUME NEW c \in Callers, EnterThread(c) \/ TransportError(c)
      PROVE  Same(g) \/ Cancels(g) \/ pc'[g] \notin CancelAt
  BY <1>0, <1>1, OthersAlone DEF Alone, Cancels, CancelAt
<1>4. ASSUME NEW c \in Callers, LeaveThread(c) PROVE Same(g)
  BY <1>4 DEF LeaveThread, Leaves, server, clients, Same
<1>2. ASSUME NEW c \in Starters, StartOfTurn(c) \/ TurnRefused(c) \/ AfterTurn(c)
      PROVE  Same(g)
  <2>1. c \in Callers
    BY DEF Callers
  <2> QED BY <1>0, <1>2, <2>1, OthersAlone DEF Alone
<1>3. ASSUME NEW h \in Goals, GoalCall(h) \/ CloseStream(h) \/ CancelStream(h)
      PROVE  Same(g) \/ Cancels(g) \/ pc'[g] \notin CancelAt
  BY <1>0, <1>3, GoalsAlone DEF Alone
<1> QED BY <1>1, <1>2, <1>3, <1>4 DEF ClientStep

LEMMA StopByClient ==
  ASSUME TypeInv, StreamInv, FaultInv, AskInv, StopInv, Next, ClientStep
  PROVE  StopInv'
<1> SUFFICES ASSUME faults' = 0, NEW g \in Goals PROVE StopsFor(g)'
  BY DEF StopInv
<1>0. /\ UNCHANGED <<goal, owner, running, startedBy, crashed, faults>> /\ UNCHANGED <<wire, hand>> /\ g \in Callers
      /\ StaysStill(g) \/ Opens(g) \/ Takes(g) \/ Stops(g)
      /\ ~failed
  <2>1. faults' = faults /\ ~failed
    BY FaultsGrow DEF FaultInv
  <2> QED BY <2>1, ClientReads, ClientSteps DEF Reads, Callers, Surroundings, StreamInv, LabelInv
<1>1. StopsFor(g)
  BY <1>0 DEF StopInv
<1>2. /\ HasGoal(g)' <=> HasGoal(g)
      /\ HasTurn(g)' <=> HasTurn(g)
      /\ AnswersTo(g)' = AnswersTo(g)
  BY <1>0 DEF HasGoal, HasTurn, AnswersTo
<1>3. answer[g] # <<>> => g \notin asked
  BY <1>0 DEF AskInv
<1>4. CASE pc'[g] \notin CancelAt
  BY <1>4 DEF StopsFor, CancelAt
<1>5. CASE Same(g) /\ pc'[g] \in CancelAt
  <2>1. state'[g] = state[g]
    BY <1>0, <1>5 DEF Same, StaysStill, Opens, Takes, Stops, CancelAt, Live, Finished
  <2>2. \A i : Heard(g, i) => Heard(g, i)'
    BY <1>0, <2>1 DEF Heard, Announced, Observing, Holding
  <2>3. Reported(g) => Reported(g)'
    BY <1>2, <1>5, <2>1, <2>2 DEF Reported, Same
  <2>4. Named(g) => Named(g)'
    BY <1>0, <1>2, <1>5 DEF Named, Names, Same
  <2> QED BY <1>0, <1>1, <1>2, <1>5, <2>3, <2>4 DEF StopsFor, Same
<1>6. CASE StartFails(g) \/ CancelStream(g)
  <2>1. Send(g, "pause") /\ Free(g)
    BY <1>6 DEF StartFails, CancelStream, Streaming, Free, Waiting, Answered
  <2>2. pc'[g] = "pause" /\ g \in asked' /\ answer'[g] = <<>>
    BY <1>0, <2>1, SentOne
  <2>3. AnswersTo(g) = {}
    BY <1>0, <2>1 DEF Free, AskInv
  <2> QED BY <1>2, <2>2, <2>3 DEF StopsFor, Reported
<1>7. CASE Paused(g)
  <2>1. Send(g, "interrupt") /\ pc[g] = "pause" /\ answer[g] # <<>>
    BY <1>7 DEF Paused, Answered
  <2>2. pc'[g] = "interrupt" /\ g \in asked'
    BY <1>0, <2>1, SentOne
  <2>3. ~HasGoal(g)
    BY <1>1, <1>3, <2>1 DEF StopsFor
  <2> QED BY <1>2, <2>2, <2>3 DEF StopsFor
<1>8. CASE InterruptAgain(g)
  <2>1. Send(g, "interrupt again") /\ pc[g] = "interrupt" /\ answer[g] # <<>> /\ target' = [target EXCEPT ![g] = NextTurn(g)]
    BY <1>8 DEF InterruptAgain, Answered
  <2>2. pc'[g] = "interrupt again" /\ g \in asked' /\ target'[g] = NextTurn(g)
    BY <1>0, <2>1, SentOne DEF TypeInv, ClientType
  <2>3. HasTurn(g) => NextTurn(g) = running
    BY <1>1, <1>3, <2>1 DEF StopsFor, Named, Names, NextTurn, What, HasTurn
  <2> QED BY <1>0, <1>1, <1>2, <2>1, <2>2, <2>3 DEF StopsFor
<1>9. CASE Cancelled(g)
  <2>1. pc'[g] = "cancelled" /\ answer[g] # <<>>
    BY <1>0, <1>9, WentOn DEF Cancelled, Finish, Answered
  <2>2. pc[g] \in {"pause", "interrupt", "interrupt again"}
    BY <1>9 DEF Cancelled, Answered
  <2>3. ~HasGoal(g)
    BY <1>1, <1>3, <2>1, <2>2 DEF StopsFor
  <2>4. ASSUME HasTurn(g) PROVE FALSE
    <3>1. CASE pc[g] = "pause"
      <4>1. TurnForInterrupt(state[g]) = 0
        BY <1>9, <3>1 DEF Cancelled, Answered
      <4> QED BY <1>1, <2>1, <2>4, <3>1, <4>1 DEF StopsFor, Reported, TurnForInterrupt
    <3>2. CASE pc[g] = "interrupt"
      <4>1. NextTurn(g) \in {0, target[g]} \/ answer[g][1].n = 0
        BY <1>9, <3>2 DEF Cancelled, Answered
      <4>2. Named(g)
        BY <1>1, <1>3, <2>1, <2>4, <3>2 DEF StopsFor
      <4> QED BY <2>1, <2>4, <4>1, <4>2 DEF Named, Names, NextTurn, What, HasTurn
    <3>3. CASE pc[g] = "interrupt again"
      BY <1>1, <1>3, <2>1, <2>4, <3>3 DEF StopsFor
    <3> QED BY <2>2, <3>1, <3>2, <3>3
  <2> QED BY <1>2, <2>1, <2>3, <2>4 DEF StopsFor
<1>10. CASE TransportError(g)
  BY <1>0, <1>10 DEF TransportError, FaultInv
<1> QED BY <1>4, <1>5, <1>6, <1>7, <1>8, <1>9, <1>10, CancelCases DEF Cancels

-----------------------------------------------------------------------------
(* The invariant of a cancellation. *)

LEMMA InitCancel == Init => AskInv /\ FaultInv /\ StopInv
<1> SUFFICES ASSUME Init PROVE AskInv /\ FaultInv /\ StopInv
  OBVIOUS
<1>1. AskInv
  BY DEF Init, AskInv, AnswersTo
<1>2. FaultInv
  BY DEF Init, FaultInv, NewState, Failing
<1>3. StopInv
  BY DEF Init, StopInv, StopsFor, HasTurn, Callers
<1> QED BY <1>1, <1>2, <1>3

CancelInv == AskInv /\ FaultInv /\ StopInv

LEMMA FailedStays ==
  ASSUME TypeInv, Next, failed
  PROVE  failed'
<1>1. CASE ServerStep
  BY <1>1, ServerSteps DEF ServerStep, reader
<1>2. CASE Reader
  BY <1>2 DEF Reader, RouteAnswer, LookUpGoal, Observe, PutNotification, UnregisterFinished, FailAll, FailGoal,
              PutFailure, reader
<1>3. CASE ClientStep
  BY <1>3, ClientCases DEF Frame, TypeInv
<1> QED BY <1>1, <1>2, <1>3, NextCases DEF ServerStep

LEMMA KeepsCancel == TypeInv /\ RouteInv /\ StreamInv /\ CancelInv /\ [Next]_vars => CancelInv'
<1> SUFFICES ASSUME TypeInv, RouteInv, StreamInv, CancelInv, [Next]_vars PROVE CancelInv'
  OBVIOUS
<1> USE DEF CancelInv
<1>0. Next /\ failed => AskInv'
  BY FailedStays DEF AskInv
<1>1. CASE Next /\ ServerStep
  BY <1>0, <1>1, AskByServer, KeepsFault, StopByServer DEF StreamInv
<1>2. CASE Next /\ Reader
  BY <1>0, <1>2, AskByReader, KeepsFault, StopByReader DEF StreamInv
<1>3. CASE Next /\ ClientStep
  BY <1>0, <1>3, AskByClient, KeepsFault, StopByClient DEF StreamInv
<1>4. CASE UNCHANGED vars
  <2>1. UNCHANGED <<goal, owner, running, startedBy, asked, crashed, faults, wire, hand, failed, answer, state, pc, target>>
    BY <1>4 DEF vars, server, reader, clients
  <2>2. AskInv' /\ FaultInv'
    BY <2>1 DEF AskInv, AnswersTo, FaultInv, Live, Failing
  <2>3. StopInv'
    BY <2>1 DEF StopInv, StopsFor, HasGoal, HasTurn, Reported, Named, Names, Heard, Announced, Observing, Holding,
                AnswersTo
  <2> QED BY <2>2, <2>3
<1> QED BY <1>1, <1>2, <1>3, <1>4, NextCases DEF ServerStep

\* For any number of goals, other callers and turns: as long as the app-server refuses and fails
\* nothing, cancel_goal_operation returns with its goal not active and none of its turns running,
\* though turns start and end between its requests and the turn it interrupts may be stale.
THEOREM CancelStopsHolds == Spec => []CancelStops
<1>1. Spec => []RouteInv
  BY StreamHolds, InitRoute, KeepsRoute, PTL DEF Spec
<1>2. Spec => []CancelInv
  BY <1>1, StreamHolds, InitCancel, KeepsCancel, PTL DEF Spec, CancelInv
<1>3. CancelInv => CancelStops
  BY DEF CancelInv, StopInv, StopsFor, CancelStops, HasGoal, HasTurn
<1> QED BY <1>2, <1>3, PTL

=============================================================================
