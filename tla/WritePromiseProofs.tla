------------------------- MODULE WritePromiseProofs -------------------------
(***************************************************************************)
(* Proof that the write path of the Firestore SDK implements WriteQueue,   *)
(* for every set of users and documents and every bound: WriteMutations is *)
(* SetData, the backend applying a request is Apply, an answer is Leave, a *)
(* change of user SwitchTo and a death Restart; the rest is not to be seen.*)
(***************************************************************************)
EXTENDS WritePipelineProofs

-----------------------------------------------------------------------------
(* What the promise sees of the queues and the callbacks *)

WritesOf(q) == [j \in 1..Len(q) |-> q[j].write]
Pending(qs) == [u \in Users |-> WritesOf(qs[u])]
Waiting(cbs) == UNION {{c.write : c \in cbs[u]} : u \in Users}

\* The writes of a queue are a sequence of the same length.
LEMMA WritesOfFields ==
  ASSUME NEW q \in Seq(Batch)
  PROVE  /\ WritesOf(q) \in Seq(Writes)
         /\ Len(WritesOf(q)) = Len(q)
         /\ \A j \in 1..Len(q) : WritesOf(q)[j] = q[j].write
         /\ \A j \in 1..Len(q) : q[j] \in Batch /\ q[j].write \in Writes
  <1>1. Len(q) \in Nat /\ \A j \in 1..Len(q) : q[j] \in Batch
    BY ElementOfSeq, LenProperties
  <1>2. \A j \in 1..Len(q) : q[j].write \in Writes
    BY <1>1 DEF Batch
  <1> DEFINE n == Len(q)
             s == WritesOf(q)
  <1>3. s \in [1..n -> Writes] /\ n \in Nat
    BY <1>1, <1>2 DEF WritesOf
  <1>4. \A j \in 1..Len(q) : s[j] = q[j].write
    BY DEF WritesOf
  <1> HIDE DEF s, n
  <1>5. s \in Seq(Writes)
    BY <1>3, SeqDef
  <1>6. Len(s) = n
    BY <1>3, <1>5, LenProperties
  <1> QED BY <1>1, <1>2, <1>4, <1>5, <1>6 DEF s, n

\* Appending a batch appends its write.
LEMMA WritesOfAppend ==
  ASSUME NEW q \in Seq(Batch), NEW b \in Batch
  PROVE  WritesOf(Append(q, b)) = Append(WritesOf(q), b.write)
  <1> DEFINE qb == Append(q, b)
             s == WritesOf(qb)
             w == WritesOf(q)
             x == b.write
             t == Append(w, x)
  <1>1. /\ qb \in Seq(Batch) /\ Len(qb) = Len(q) + 1 /\ Len(q) \in Nat
        /\ \A i \in 1..Len(q) : qb[i] = q[i]
        /\ qb[Len(q) + 1] = b
    BY AppendProperties, LenProperties
  <1>2. x \in Writes
    BY DEF Batch
  <1> HIDE DEF qb
  <1>3. /\ s \in Seq(Writes) /\ Len(s) = Len(qb)
        /\ \A j \in 1..Len(qb) : s[j] = qb[j].write
    BY <1>1, WritesOfFields
  <1>4. /\ w \in Seq(Writes) /\ Len(w) = Len(q)
        /\ \A j \in 1..Len(q) : w[j] = q[j].write
    BY WritesOfFields
  <1> HIDE DEF s, w
  <1>5. x = b.write
    OBVIOUS
  <1> HIDE DEF x
  <1>6. /\ t \in Seq(Writes) /\ Len(t) = Len(w) + 1
        /\ \A i \in 1..Len(w) : t[i] = w[i]
        /\ t[Len(w) + 1] = x
    BY <1>2, <1>4, AppendProperties
  <1> HIDE DEF t
  <1>7. Len(s) = Len(t)
    BY <1>1, <1>3, <1>4, <1>6
  <1>8. ASSUME NEW i \in 1..Len(s) PROVE s[i] = t[i]
    <2>1. CASE i = Len(q) + 1
      BY <2>1, <1>1, <1>3, <1>4, <1>5, <1>6
    <2>2. CASE i # Len(q) + 1
      <3>1. i \in 1..Len(q) /\ i \in 1..Len(qb) /\ i \in 1..Len(w)
        BY <2>2, <1>1, <1>3, <1>4
      <3> QED BY <3>1, <1>1, <1>3, <1>4, <1>6
    <2> QED BY <2>1, <2>2
  <1>9. s = t
    BY <1>3, <1>6, <1>7, <1>8, SeqEqual
  <1> QED BY <1>9 DEF s, t, qb, w, x

\* Taking the oldest batch takes its write.
LEMMA WritesOfTail ==
  ASSUME NEW q \in Seq(Batch), q # <<>>
  PROVE  /\ WritesOf(q) # <<>>
         /\ Head(WritesOf(q)) = q[1].write
         /\ WritesOf(Tail(q)) = Tail(WritesOf(q))
  <1> DEFINE tl == Tail(q)
             s == WritesOf(tl)
             w == WritesOf(q)
             t == Tail(w)
  <1>1. /\ Len(q) \in Nat \ {0} /\ tl \in Seq(Batch)
        /\ Len(tl) = Len(q) - 1
        /\ \A i \in 1..Len(tl) : tl[i] = q[i + 1]
    BY HeadTailProperties, LenZero
  <1> HIDE DEF tl
  <1>2. /\ s \in Seq(Writes) /\ Len(s) = Len(tl)
        /\ \A j \in 1..Len(tl) : s[j] = tl[j].write
    BY <1>1, WritesOfFields
  <1>3. /\ w \in Seq(Writes) /\ Len(w) = Len(q)
        /\ \A j \in 1..Len(q) : w[j] = q[j].write
    BY WritesOfFields
  <1> HIDE DEF s, w
  <1>4. w # <<>>
    BY <1>1, <1>3, LenZero
  <1>5. /\ t \in Seq(Writes) /\ Len(t) = Len(w) - 1
        /\ \A i \in 1..Len(t) : t[i] = w[i + 1]
    BY <1>3, <1>4, HeadTailProperties
  <1> HIDE DEF t
  <1>6. Len(s) = Len(t)
    BY <1>1, <1>2, <1>3, <1>5
  <1>7. ASSUME NEW i \in 1..Len(s) PROVE s[i] = t[i]
    <2>1. i \in 1..Len(tl) /\ i \in 1..Len(t) /\ i + 1 \in 1..Len(q)
      BY <1>1, <1>2, <1>6
    <2> QED BY <2>1, <1>1, <1>2, <1>3, <1>5
  <1>8. s = t
    BY <1>2, <1>5, <1>6, <1>7, SeqEqual
  <1>9. Head(w) = w[1] /\ w[1] = q[1].write
    BY <1>1, <1>3, <1>4
  <1> QED BY <1>4, <1>8, <1>9 DEF s, t, tl, w

-----------------------------------------------------------------------------
(* The steps of the promise *)

\* Waiting has the writes of the batches that have a callback.
LEMMA WaitingHas ==
  ASSUME NEW w
  PROVE  w \in Waiting(callbacks) <=>
           \E u \in Users : \E c \in callbacks[u] : c.write = w
  BY DEF Waiting

\* WriteMutations is SetData of a write nobody has heard of.
LEMMA WriteIsSetData ==
  ASSUME Inv, WriteMutations
  PROVE  \E w \in Writes : Promise!SetData(w)
  <1> DEFINE b == [id |-> nextId, write |-> written + 1]
             q == queue[current]
             w == written + 1
             ps == Pending(queue)
             ws == Waiting(callbacks)
  <1>1. /\ current \in Users /\ queue \in [Users -> Seq(Batch)]
        /\ q \in Seq(Batch) /\ Ascending(q)
        /\ written \in Nat /\ launchedAt \in Nat /\ launchedAt <= written
        /\ nextId \in Nat \ {0}
        /\ callbacks \in [Users -> SUBSET Batch]
        /\ \A u \in Users : callbacks[u] = Mine(queue[u], launchedAt)
    BY Facts
  <1>2. /\ written < MaxWrites
        /\ queue' = [queue EXCEPT ![current] = Append(@, b)]
        /\ callbacks' = [callbacks EXCEPT ![current] =
             IF \E c \in @ : c.id = nextId THEN @ ELSE @ \cup {b}]
    BY DEF WriteMutations
  <1>3. UNCHANGED <<current, docs, applied, answer>>
    BY DEF WriteMutations
  <1>4. w \in Writes /\ b \in Batch /\ b.id = nextId /\ b.write = w
    BY <1>1, <1>2, PipelineAssumption DEF Batch, Writes
  <1> HIDE DEF b
  <1>5. \A u \in Users : \A c \in callbacks[u] :
          \E j \in 1..Len(queue[u]) : c = queue[u][j]
    BY <1>1 DEF Mine
  <1>6. \A u \in Users : \A j \in 1..Len(queue[u]) :
          /\ queue[u][j].write <= written
          /\ queue[u][j].write \in Nat /\ queue[u][j].id \in Nat
    <2>1. ASSUME NEW u \in Users, NEW j \in 1..Len(queue[u])
          PROVE  queue[u][j].write \in Nat /\ queue[u][j].id \in Nat
      <3>1. queue[u] \in Seq(Batch)
        BY <1>1
      <3>2. queue[u][j] \in Batch
        BY <3>1, ElementOfSeq
      <3> QED BY <3>2, PipelineAssumption DEF Batch, Writes
    <2> QED BY <2>1 DEF Inv, Stored, QueuesFine
  <1>7. ~\E c \in callbacks[current] : c.id = nextId
    <2>1. \A j \in 1..Len(q) : q[j].id < nextId /\ q[j].id \in Nat
      BY <1>1, <1>6 DEF Inv, Stored, NextIdFree
    <2>2. ASSUME NEW c \in callbacks[current] PROVE c.id # nextId
      <3>1. PICK j \in 1..Len(q) : c = q[j]
        BY <1>1, <1>5
      <3>2. q[j].id < nextId /\ q[j].id \in Nat
        BY <2>1
      <3> QED BY <3>1, <3>2, <1>1
    <2> QED BY <2>2
  <1>8. /\ callbacks'[current] = callbacks[current] \cup {b}
        /\ \A u \in Users : u # current => callbacks'[u] = callbacks[u]
    BY <1>1, <1>2, <1>7
  <1>9. w \notin ws
    <2>1. ASSUME NEW u \in Users, NEW c \in callbacks[u], c.write = w
          PROVE  FALSE
      <3>1. PICK j \in 1..Len(queue[u]) : c = queue[u][j]
        BY <1>5
      <3>2. queue[u][j].write <= written /\ queue[u][j].write \in Nat
        BY <1>6
      <3> QED BY <3>1, <3>2, <2>1, <1>1
    <2> QED BY <2>1, WaitingHas
  <1>10. answer[w] = "none"
    BY <1>1, <1>4 DEF Inv, Stored, AnswersPast
  <1>11. Pending(queue') = [ps EXCEPT ![current] = Append(@, w)]
    <2>1. \A u \in Users : WritesOf(queue'[u]) =
            IF u = current THEN Append(WritesOf(queue[u]), w)
            ELSE WritesOf(queue[u])
      <3>1. queue'[current] = Append(queue[current], b)
            /\ \A u \in Users : u # current => queue'[u] = queue[u]
        BY <1>1, <1>2
      <3>2. WritesOf(Append(q, b)) = Append(WritesOf(q), b.write)
        BY <1>1, <1>4, WritesOfAppend
      <3> QED BY <3>1, <3>2, <1>4
    <2> HIDE DEF w
    <2> QED BY <2>1, <1>1 DEF Pending
  <1>12. Waiting(callbacks') = ws \cup {w}
    <2>1. ASSUME NEW x
          PROVE  x \in Waiting(callbacks') <=> x \in ws \cup {w}
      <3>1. x \in Waiting(callbacks') <=>
              \E u \in Users : \E c \in callbacks'[u] : c.write = x
        BY DEF Waiting
      <3>2. x \in ws <=> \E u \in Users : \E c \in callbacks[u] : c.write = x
        BY WaitingHas
      <3> HIDE DEF ws, w
      <3>3. (\E u \in Users : \E c \in callbacks'[u] : c.write = x)
              <=> x = w \/ \E u \in Users :
                             \E c \in callbacks[u] : c.write = x
        <4>1. ASSUME NEW u \in Users, NEW c \in callbacks'[u], c.write = x
              PROVE  x = w \/ \E v \in Users :
                                \E d \in callbacks[v] : d.write = x
          <5>1. c \in callbacks[u] \/ c = b
            BY <4>1, <1>1, <1>8
          <5> QED BY <5>1, <4>1, <1>4
        <4>2. ASSUME x = w \/ \E v \in Users :
                                \E d \in callbacks[v] : d.write = x
              PROVE  \E u \in Users : \E c \in callbacks'[u] : c.write = x
          <5>1. CASE x = w
            <6>1. b \in callbacks'[current] /\ b.write = x
              BY <5>1, <1>4, <1>8
            <6> QED BY <6>1, <1>1
          <5>2. CASE \E v \in Users : \E d \in callbacks[v] : d.write = x
            <6>1. PICK v \in Users : \E d \in callbacks[v] : d.write = x
              BY <5>2
            <6>2. callbacks[v] \subseteq callbacks'[v]
              BY <1>8
            <6> QED BY <6>1, <6>2
          <5> QED BY <5>1, <5>2, <4>2
        <4> QED BY <4>1, <4>2
      <3> QED BY <3>1, <3>2, <3>3
    <2> QED BY <2>1
  <1>13. PICK x \in Writes : x = w
    BY <1>4
  <1>14. Promise!SetData(x)
    <2> HIDE DEF w
    <2> QED BY <1>3, <1>9, <1>10, <1>11, <1>12, <1>13
            DEF Promise!SetData, Pending, Waiting, WritesOf
  <1> QED BY <1>14

\* The backend taking a write off the wire is Apply of the first write that
\* is not answered on this stream.
LEMMA ServeIsApply ==
  ASSUME Inv, ServeWrite
  PROVE  \E j \in 1..Len(Pending(queue)[current]) : Promise!Apply(j)
  <1> DEFINE q == queue[current]
             r == net.replies
             p == net.pipeline
             k == Len(r) + 1
             b == Head(net.wire)
             s == WritesOf(q)
  <1>1. /\ net \in Net /\ StreamFine(net) /\ Front(p, q)
        /\ q \in Seq(Batch) /\ current \in Users
    BY Facts
  <1>2. /\ net.wire # <<>> /\ b # Hello
        /\ docs' = [docs EXCEPT ![Target[b.write]] = b.write]
        /\ applied' = applied \cup {b.write}
        /\ UNCHANGED <<queue, current, callbacks, answer>>
    BY DEF ServeWrite
  <1>3. /\ net.handshake /\ k \in 1..Len(p) /\ b = p[k]
        /\ \A i \in 1..Len(r) : r[i] = p[i]
    BY <1>1, <1>2, WireHead
  <1>4. Len(r) \in Nat /\ Len(p) \in Nat /\ Len(q) \in Nat
    BY <1>1, NetFields, LenProperties
  <1>5. \A i \in 1..Len(r) : r[i].write \in applied
    BY <1>3 DEF Inv, Delivered, RepliesApplied
  <1>6. Pending(queue)[current] = s
    BY <1>1 DEF Pending
  <1> HIDE DEF r, p, q, b
  <1>7. /\ Len(s) = Len(q) /\ \A j \in 1..Len(q) : s[j] = q[j].write
    BY <1>1, WritesOfFields
  <1> HIDE DEF s
  <1>8. k \in 1..Len(s) /\ s[k] = b.write
    <2>1. Len(p) <= Len(q) /\ q[k] = p[k]
      BY <1>1, <1>3 DEF Front
    <2>2. k \in 1..Len(q)
      BY <2>1, <1>3, <1>4
    <2> QED BY <2>1, <2>2, <1>3, <1>7
  <1>9. \A i \in 1..(k - 1) : s[i] \in applied
    <2>1. ASSUME NEW i \in 1..(k - 1) PROVE s[i] \in applied
      <3>1. i \in 1..Len(r) /\ i \in 1..Len(p)
        BY <1>3, <1>4
      <3>2. Len(p) <= Len(q) /\ p[i] = q[i]
        BY <3>1, <1>1 DEF Front
      <3>3. i \in 1..Len(q)
        BY <3>1, <3>2, <1>4
      <3> QED BY <3>1, <3>2, <3>3, <1>3, <1>5, <1>7
    <2> QED BY <2>1
  <1> HIDE DEF k
  <1>10. Promise!Apply(k)
    <2>1. /\ k \in 1..Len(Pending(queue)[current])
          /\ \A i \in 1..(k - 1) : Pending(queue)[current][i] \in applied
          /\ Pending(queue)[current][k] = b.write
      BY <1>6, <1>8, <1>9
    <2>2. Pending(queue') = Pending(queue) /\ current' = current
          /\ Waiting(callbacks') = Waiting(callbacks) /\ answer' = answer
      BY <1>2
    <2> QED BY <2>1, <2>2, <1>2
            DEF Promise!Apply, Pending, Waiting, WritesOf
  <1> QED BY <1>6, <1>8, <1>10

\* Leave, of these queues and callers, to those.
LeaveOf(ps, ws, nps, nws, result) ==
  /\ ps[current] # <<>>
  /\ result = "ok" => Head(ps[current]) \in applied
  /\ answer' = [answer EXCEPT ![Head(ps[current])] =
                  IF Head(ps[current]) \in ws THEN result ELSE @]
  /\ nws = ws \ {Head(ps[current])}
  /\ nps = [ps EXCEPT ![current] = Tail(@)]
  /\ UNCHANGED <<current, docs, applied>>

\* An answer, or a refusal, is Leave of the oldest write of the open queue.
LEMMA AnswerIsLeave ==
  ASSUME Inv, net.pipeline # <<>>, NEW result \in {"ok", "failed"},
         NotifyUser(Head(net.pipeline).id, result),
         queue' = [queue EXCEPT
                     ![current] = Without(@, Head(net.pipeline).id)],
         UNCHANGED <<current, nextId, written, launchedAt, docs, applied>>,
         result = "ok" => Head(net.pipeline).write \in applied
  PROVE  Promise!Leave(result)
  <1> DEFINE q == queue[current]
             b == Head(net.pipeline)
             w == b.write
             ps == Pending(queue)
             ws == Waiting(callbacks)
             called == {c \in callbacks[current] : c.id = b.id}
             nq == queue'
  <1>1. /\ current \in Users /\ queue \in [Users -> Seq(Batch)]
        /\ q \in Seq(Batch) /\ Ascending(q) /\ launchedAt \in Nat
        /\ callbacks \in [Users -> SUBSET Batch]
        /\ \A u \in Users : callbacks[u] = Mine(queue[u], launchedAt)
    BY Facts
  <1>2. /\ q # <<>> /\ b = q[1] /\ b \in Batch
        /\ nq = [queue EXCEPT ![current] = Tail(@)]
    BY FrontAnswered
  <1>3. /\ answer' = [x \in Writes |->
                        IF \E c \in called : c.write = x THEN result
                        ELSE answer[x]]
        /\ callbacks' = [callbacks EXCEPT ![current] = @ \ called]
    BY DEF NotifyUser
  <1>4. w \in Writes
    BY <1>2 DEF Batch
  <1>5. \A c \in callbacks[current] : c.id = b.id => c = b
    <2>1. 1 \in 1..Len(q) /\ \A c \in Mine(q, launchedAt) :
                               c.id = q[1].id => c = q[1]
      BY <1>1, <1>2, QueueAnswered
    <2> QED BY <2>1, <1>1, <1>2
  <1>6. \A u \in Users : \A c \in callbacks[u] :
          c.write = w => u = current /\ c = b
    <2>1. ASSUME NEW u \in Users, NEW c \in callbacks[u], c.write = w
          PROVE  u = current /\ c = b
      <3>1. PICK j \in 1..Len(queue[u]) : c = queue[u][j]
        BY <1>1 DEF Mine
      <3>2. 1 \in 1..Len(q)
        BY <1>1, <1>2, QueueAnswered
      <3>3. u = current /\ j = 1
        BY <3>1, <3>2, <2>1, <1>1, <1>2 DEF Inv, Stored, QueuesFine
      <3> QED BY <3>1, <3>3, <1>2
    <2> QED BY <2>1
  <1>7. called = {c \in {b} : c \in callbacks[current]}
    BY <1>5
  <1>8. w \in ws <=> b \in callbacks[current]
    <2>1. w \in ws <=> \E u \in Users : \E c \in callbacks[u] : c.write = w
      BY WaitingHas
    <2> HIDE DEF ws, b
    <2> QED BY <2>1, <1>1, <1>6
  <1>9. answer' = [answer EXCEPT ![w] = IF w \in ws THEN result ELSE @]
    <2>1. \A x \in Writes : (\E c \in called : c.write = x)
            <=> x = w /\ w \in ws
      BY <1>7, <1>8
    <2>2. answer \in [Writes -> {"none", "ok", "failed"}]
      BY DEF Inv, TypeOK
    <2> HIDE DEF ws, called, w
    <2> QED BY <2>1, <2>2, <1>3, <1>4
  <1>10. ps[current] = WritesOf(q)
    BY <1>1 DEF Pending
  <1>11. /\ WritesOf(q) # <<>> /\ Head(WritesOf(q)) = w
         /\ WritesOf(Tail(q)) = Tail(WritesOf(q))
    <2>1. Head(WritesOf(q)) = q[1].write
      BY <1>1, <1>2, WritesOfTail
    <2> QED BY <2>1, <1>1, <1>2, WritesOfTail
  <1>12. Pending(nq) = [ps EXCEPT ![current] = Tail(@)]
    <2>1. \A u \in Users : WritesOf(nq[u]) =
            IF u = current THEN Tail(WritesOf(queue[u]))
            ELSE WritesOf(queue[u])
      <3>1. nq[current] = Tail(queue[current])
            /\ \A u \in Users : u # current => nq[u] = queue[u]
        BY <1>1, <1>2
      <3> HIDE DEF nq
      <3> QED BY <3>1, <1>11
    <2> HIDE DEF nq
    <2> QED BY <2>1, <1>1 DEF Pending
  <1>13. Waiting(callbacks') = ws \ {w}
    <2>1. callbacks'[current] = callbacks[current] \ called
          /\ \A u \in Users : u # current => callbacks'[u] = callbacks[u]
      BY <1>1, <1>3
    <2>2. \A u \in Users : \A c :
            c \in callbacks'[u] <=> c \in callbacks[u] /\ c.write # w
      <3>1. ASSUME NEW u \in Users, NEW c
            PROVE  c \in callbacks'[u] <=> c \in callbacks[u] /\ c.write # w
        <4>1. CASE u = current
          BY <4>1, <2>1, <1>5, <1>6
        <4>2. CASE u # current
          BY <4>2, <2>1, <1>6
        <4> QED BY <4>1, <4>2
      <3> QED BY <3>1
    <2>3. ASSUME NEW x
          PROVE  x \in Waiting(callbacks') <=> x \in ws /\ x # w
      <3>1. x \in Waiting(callbacks') <=>
              \E u \in Users : \E c \in callbacks'[u] : c.write = x
        BY DEF Waiting
      <3>2. x \in ws <=> \E u \in Users : \E c \in callbacks[u] : c.write = x
        BY WaitingHas
      <3> HIDE DEF ws, w
      <3> QED BY <3>1, <3>2, <2>2
    <2> QED BY <2>3
  <1>14. /\ ps[current] # <<>> /\ Head(ps[current]) = w
         /\ result = "ok" => w \in applied
    BY <1>2, <1>10, <1>11
  <1>15. UNCHANGED <<current, docs, applied>>
    OBVIOUS
  <1>16. LeaveOf(ps, ws, Pending(nq), Waiting(callbacks'), result)
    <2> HIDE DEF w, ps, ws, nq, called, b, q
    <2> QED BY <1>9, <1>12, <1>13, <1>14, <1>15 DEF LeaveOf
  <1> QED BY <1>16, Zenon
          DEF LeaveOf, Promise!Leave, Pending, Waiting, WritesOf

\* The callers of a process that died hear nothing more.
LEMMA CrashIsRestart ==
  ASSUME Inv, Crash
  PROVE  \E u \in Users : Promise!Restart(u)
  <1>1. authUser \in Users
    BY Facts
  <1>2. /\ current' = authUser /\ callbacks' = [u \in Users |-> {}]
        /\ UNCHANGED <<queue, docs, applied, answer>>
    BY DEF Crash
  <1>3. Waiting(callbacks') = {}
    BY <1>2 DEF Waiting
  <1>4. Pending(queue') = Pending(queue)
    BY <1>2
  <1>5. PICK u \in Users : u = authUser
    BY <1>1
  <1>6. Promise!Restart(u)
    BY <1>2, <1>3, <1>4, <1>5
       DEF Promise!Restart, Pending, Waiting, WritesOf
  <1> QED BY <1>6

\* A change of user is SwitchTo.
LEMMA CredentialIsSwitch ==
  ASSUME Inv, HandleCredentialChange
  PROVE  \E u \in Users : Promise!SwitchTo(u)
  <1>1. Inv'
    BY HandleCredentialChangeKept
  <1>2. current' \in Users
    BY <1>1 DEF Inv, TypeOK
  <1>3. UNCHANGED <<queue, docs, applied, callbacks, answer>>
    BY DEF HandleCredentialChange, history
  <1>4. PICK u \in Users : u = current'
    BY <1>2
  <1>5. Promise!SwitchTo(u)
    BY <1>3, <1>4 DEF Promise!SwitchTo
  <1> QED BY <1>5

\* Every other step is none of the promise.
LEMMA OthersUnseen ==
  ASSUME [Next]_vars
  PROVE  \/ UNCHANGED <<queue, current, docs, applied, callbacks, answer>>
         \/ WriteMutations
         \/ ServeWrite
         \/ MutationReply
         \/ StreamRefused
         \/ HandleCredentialChange
         \/ Crash
  BY DEF Next, vars, history, UpdateCurrentUser, TokenStep, ReadCurrentUser,
         DeliverToken, RunMain, WorkerStep, ResumeStartWithCredentials,
         Reply, HandshakeReply, StreamBreaks, StreamEnds, BackoffElapsed,
         IdleTimeout, ConnectivityChanged, Serve, ServeHandshake, RefuseWrite

\* Every step is one of the promise, or none of it.
LEMMA StepKeepsPromise ==
  ASSUME Inv, [Next]_vars
  PROVE  [Promise!Next]_(Promise!vars)
  <1>1. CASE UNCHANGED <<queue, current, docs, applied, callbacks, answer>>
    BY <1>1 DEF Promise!vars
  <1>2. CASE WriteMutations
    BY <1>2, WriteIsSetData DEF Promise!Next
  <1>3. CASE ServeWrite
    <2>1. PICK j \in 1..Len(Pending(queue)[current]) : Promise!Apply(j)
      BY <1>3, ServeIsApply
    <2> QED BY <2>1 DEF Promise!Next, Pending, WritesOf
  <1>4. CASE MutationReply
    <2>1. /\ net.replies # <<>> /\ net.handshake
          /\ NotifyUser(Head(net.pipeline).id, "ok")
          /\ queue' = [queue EXCEPT
                         ![current] = Without(@, Head(net.pipeline).id)]
          /\ UNCHANGED <<current, nextId, written, launchedAt, docs, applied>>
      BY <1>4 DEF MutationReply
    <2>2. net \in Net /\ StreamFine(net)
      BY Facts
    <2>3. net.pipeline # <<>> /\ Head(net.replies) = Head(net.pipeline)
      BY <2>1, <2>2, RepliesHead
    <2>4. Head(net.pipeline).write \in applied
      <3>1. 1 \in 1..Len(net.replies)
        BY <2>1, <2>2, NetFields, LenZero
      <3>2. net.replies[1].write \in applied
        BY <3>1, <2>1 DEF Inv, Delivered, RepliesApplied
      <3>3. Head(net.replies) = net.replies[1]
        BY <2>1, <2>2, NetFields
      <3> QED BY <3>2, <3>3, <2>3
    <2>5. "ok" \in {"ok", "failed"}
      OBVIOUS
    <2>6. Promise!Leave("ok")
      BY <2>1, <2>3, <2>4, <2>5, AnswerIsLeave
    <2> QED BY <2>5, <2>6 DEF Promise!Next
  <1>5. CASE StreamRefused
    <2>1. /\ net.pipeline # <<>>
          /\ NotifyUser(Head(net.pipeline).id, "failed")
          /\ queue' = [queue EXCEPT
                         ![current] = Without(@, Head(net.pipeline).id)]
          /\ UNCHANGED <<current, nextId, written, launchedAt, docs, applied>>
      BY <1>5 DEF StreamRefused
    <2>2. "failed" \in {"ok", "failed"} /\ "failed" # "ok"
      OBVIOUS
    <2>3. Promise!Leave("failed")
      BY <2>1, <2>2, AnswerIsLeave
    <2> QED BY <2>2, <2>3 DEF Promise!Next
  <1>6. CASE HandleCredentialChange
    BY <1>6, CredentialIsSwitch DEF Promise!Next
  <1>7. CASE Crash
    BY <1>7, CrashIsRestart DEF Promise!Next
  <1> QED BY <1>1, <1>2, <1>3, <1>4, <1>5, <1>6, <1>7, OthersUnseen

\* The phone starts as the promise does.
LEMMA InitKeepsPromise ==
  ASSUME Init
  PROVE  Promise!Init
  <1>1. \A u \in Users : queue[u] = <<>> /\ callbacks[u] = {}
    BY DEF Init
  <1>2. WritesOf(<<>>) = <<>>
    <2> DEFINE e == <<>>
    <2>1. e \in Seq(Batch) /\ Len(e) = 0
      BY EmptySeq
    <2> HIDE DEF e
    <2>2. WritesOf(e) \in Seq(Writes) /\ Len(WritesOf(e)) = 0
      BY <2>1, WritesOfFields
    <2>3. WritesOf(e) = <<>>
      BY <2>2, LenZero
    <2> QED BY <2>3 DEF e
  <1>3. Pending(queue) = [u \in Users |-> <<>>]
    BY <1>1, <1>2 DEF Pending
  <1>4. Waiting(callbacks) = {}
    BY <1>1 DEF Waiting
  <1>5. /\ current \in Users /\ docs = [k \in Docs |-> None]
        /\ applied = {} /\ answer = [w \in Writes |-> "none"]
    BY DEF Init
  <1> QED BY <1>3, <1>4, <1>5
          DEF Promise!Init, Pending, Waiting, WritesOf

\* The SDK keeps its promise: whatever streams, tokens, sign-ins and restarts
\* do, the app sees queues whose writes reach the backend in order and leave
\* oldest first, an await that resumes only then, and never with success for
\* a write that was not applied.
THEOREM PromiseKept == Spec => KeepsPromise
  <1>1. Init => Promise!Init
    BY InitKeepsPromise
  <1>2. Inv /\ [Next]_vars => [Promise!Next]_(Promise!vars)
    BY StepKeepsPromise
  <1> QED BY <1>1, <1>2, InvHolds, PTL DEF Spec, KeepsPromise, Promise!Spec
=============================================================================
