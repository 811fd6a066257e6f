------------------------- MODULE WritePipelineProofs ------------------------
(***************************************************************************)
(* Proofs about the write path of the Firestore SDK, for every set of      *)
(* users and documents and every bound: its types, SentAsOwner,            *)
(* AnswersInStep, HardAsserts, CallbacksMatch and LastAckedKept.           *)
(***************************************************************************)
EXTENDS WritePipeline, FiniteSetTheorems, SequenceTheorems,
        WellFoundedInduction, TLAPS

-----------------------------------------------------------------------------
(* The inductive invariant *)

\* The ids of a mutation queue ascend.
Ascending(q) == \A i, j \in 1..Len(q) : i < j => q[i].id < q[j].id

\* p is the front part of q.
Front(p, q) ==
  /\ Len(p) <= Len(q)
  /\ \A i \in 1..Len(p) : p[i] = q[i]

\* Batch ids ascend in every queue and, like the writes, were all given out by
\* WriteMutations; a write is in one queue, once.
QueuesFine(q, n) ==
  /\ \A u \in Users :
       /\ Ascending(q[u])
       /\ \A j \in 1..Len(q[u]) : q[u][j].id <= n /\ q[u][j].write <= n
  /\ \A u, v \in Users : \A i \in 1..Len(q[u]), j \in 1..Len(q[v]) :
       q[u][i].write = q[v][j].write => u = v /\ i = j

\* The next id is larger than those of the open queue.
NextIdFree(q, next, n) ==
  /\ next <= n + 1
  /\ \A j \in 1..Len(q) : q[j].id < next

\* What holds of a WriteStream and its pipeline between two operations.
StreamFine(n) ==
  /\ n.as # None <=> IsOpen(n)
  /\ n.handshake => IsOpen(n)
  /\ n.idle => IsOpen(n) /\ n.pipeline = <<>>
  /\ (IsStarted(n) /\ ~n.handshake) => n.pipeline # <<>>
  /\ ~IsOpen(n) => n.wire = <<>> /\ n.replies = <<>> /\ ~n.refused
  /\ IsOpen(n) =>
       n.replies \o n.wire = IF n.handshake THEN n.pipeline ELSE <<Hello>>

\* A request of the stream that is starting now.
Asked(n) == {r \in n.asks : r.closes = n.closes}
InMain(m, n) == {j \in 1..Len(m) : m[j].kind = "token"
                                   /\ m[j].closes = n.closes}
InWorker(w, n) == {j \in 1..Len(w) : w[j].kind = "token"
                                     /\ w[j].closes = n.closes}

\* At most one request for a token is about the stream there is, and then
\* that stream is starting.
OneRequest(m, w, n, t) ==
  /\ \A r \in n.asks : r.closes <= n.closes /\ r.tokens <= t
  /\ \A j \in 1..Len(m) : m[j].kind = "token" =>
       m[j].closes <= n.closes /\ m[j].tokens <= t
  /\ \A j \in 1..Len(w) : w[j].kind = "token" => w[j].closes <= n.closes
  /\ \A r, s \in Asked(n) : r = s
  /\ \A i, j \in InMain(m, n) : i = j
  /\ \A i, j \in InWorker(w, n) : i = j
  /\ Asked(n) # {} => InMain(m, n) = {} /\ InWorker(w, n) = {}
  /\ InMain(m, n) # {} => InWorker(w, n) = {}
  /\ (Asked(n) # {} \/ InMain(m, n) # {} \/ InWorker(w, n) # {})
       => n.state = "Starting"

\* The news of a user that is on its way, in the main queue up to position k
\* and in the worker queue up to position k.
NewsInMain(m, k) == \E i \in 1..Len(m) : i < k /\ m[i].kind = "notify"
NewsInWorker(w, k) ==
  \E i \in 1..Len(w) : i < k /\ w[i].kind = "credential"
NewsIn(m, w) ==
  NewsInMain(m, Len(m) + 1) \/ NewsInWorker(w, Len(w) + 1)

\* Firestore's user is that of FirebaseAuth, or will be: the last news on its
\* way tells of it.
Told(m, w, cur, auth) ==
  /\ cur = auth \/ NewsIn(m, w)
  /\ \A j \in 1..Len(m) :
       (/\ m[j].kind = "notify"
        /\ \A i \in 1..Len(m) : j < i => m[i].kind # "notify")
       => m[j].user = auth
  /\ \A j \in 1..Len(w) :
       (/\ w[j].kind = "credential"
        /\ \A i \in 1..Len(w) : j < i => w[i].kind # "credential"
        /\ ~NewsInMain(m, Len(m) + 1))
       => w[j].user = auth

\* A token that can still open the stream is the current user's, or comes
\* behind news of another user.
TokensOwned(m, w, n, t, cur) ==
  /\ n.as \in {None, cur}
  /\ \A r \in n.asks :
       (r.closes = n.closes /\ r.tokens = t)
         => r.user \in {None, cur} \/ NewsIn(m, w)
  /\ \A j \in 1..Len(m) :
       (/\ m[j].kind = "token"
        /\ m[j].closes = n.closes /\ m[j].tokens = t)
       => \/ m[j].user \in {None, cur}
          \/ NewsInMain(m, j)
          \/ NewsInWorker(w, Len(w) + 1)
  /\ \A j \in 1..Len(w) :
       (w[j].kind = "token" /\ w[j].closes = n.closes)
         => w[j].user \in {None, cur} \/ NewsInWorker(w, j)

\* What is answered was applied, and the last answer about a document tells
\* what the document holds.
RepliesApplied(n, a, d) ==
  n.handshake =>
    \A j \in 1..Len(n.replies) :
      /\ n.replies[j].write \in a
      /\ (\A i \in 1..Len(n.replies) : j < i =>
            Target[n.replies[i].write] # Target[n.replies[j].write])
         => d[Target[n.replies[j].write]] = n.replies[j].write

\* Nobody has heard of a write that was not made yet.
AnswersPast(a, n) == \A w \in Writes : a[w] # "none" => w <= n

\* The batches of a queue that this process wrote.
Mine(q, launched) ==
  {q[j] : j \in {i \in 1..Len(q) : q[i].write > launched}}

\* The parts of the invariant: LevelDB and SyncEngine, the stream, the token
\* requests, and the backend.
Stored ==
  /\ launchedAt <= written
  /\ QueuesFine(queue, written)
  /\ NextIdFree(queue[current], nextId, written)
  /\ CallbacksMatch
  /\ AnswersPast(answer, written)

Streaming ==
  /\ StreamFine(net)
  /\ Front(net.pipeline, queue[current])

Tracked ==
  /\ OneRequest(main, worker, net, tokens)
  /\ Told(main, worker, current, authUser)
  /\ TokensOwned(main, worker, net, tokens, current)

Delivered ==
  /\ RepliesApplied(net, applied, docs)
  /\ LastAckedKept

Inv == TypeOK /\ Stored /\ Streaming /\ Tracked /\ Delivered

-----------------------------------------------------------------------------
(* Sequences *)

\* A sequence is empty when its length is zero.
LEMMA LenZero ==
  ASSUME NEW S, NEW s \in Seq(S)
  PROVE  Len(s) \in Nat /\ (s = <<>> <=> Len(s) = 0)
  BY EmptySeq, LenProperties

\* A front part is the subsequence AnswersInStep speaks of.
LEMMA FrontIsSubSeq ==
  ASSUME NEW S, NEW p \in Seq(S), NEW q \in Seq(S), Front(p, q)
  PROVE  p = SubSeq(q, 1, Len(p))
  <1>1. Len(p) \in Nat /\ Len(q) \in Nat /\ Len(p) <= Len(q)
        /\ \A i \in 1..Len(p) : p[i] = q[i] /\ q[i] \in S
    BY LenProperties, ElementOfSeq DEF Front
  <1> DEFINE s == SubSeq(q, 1, Len(p))
  <1>2. /\ s \in Seq(S)
        /\ Len(s) = IF 1 <= Len(p) THEN Len(p) - 1 + 1 ELSE 0
        /\ \A i \in 1..(Len(p) - 1 + 1) : s[i] = q[1 + i - 1]
    BY <1>1, SubSeqProperties
  <1> HIDE DEF s
  <1>3. Len(s) = Len(p) /\ \A i \in 1..Len(p) : p[i] = s[i]
    BY <1>1, <1>2
  <1>4. p = s
    BY <1>2, <1>3, SeqEqual
  <1> QED BY <1>4 DEF s

\* The front part of a queue stays one when something is appended.
LEMMA FrontOfAppend ==
  ASSUME NEW S, NEW p \in Seq(S), NEW q \in Seq(S), NEW e \in S, Front(p, q)
  PROVE  Front(p, Append(q, e))
  BY AppendProperties, LenProperties DEF Front

\* A front part and its queue lose the same head.
LEMMA FrontOfTail ==
  ASSUME NEW S, NEW p \in Seq(S), NEW q \in Seq(S), Front(p, q), p # <<>>
  PROVE  /\ q # <<>>
         /\ Head(p) = q[1]
         /\ Front(Tail(p), Tail(q))
  <1>1. Len(p) \in Nat /\ Len(q) \in Nat /\ Len(p) > 0 /\ Len(q) > 0
    BY LenZero, LenProperties DEF Front
  <1>2. q # <<>>
    BY <1>1, LenZero
  <1>3. /\ Len(Tail(p)) = Len(p) - 1 /\ Len(Tail(q)) = Len(q) - 1
        /\ \A i \in 1..Len(Tail(p)) : Tail(p)[i] = p[i + 1]
        /\ \A i \in 1..Len(Tail(q)) : Tail(q)[i] = q[i + 1]
    BY <1>2, HeadTailProperties
  <1>4. Head(p) = p[1]
    BY <1>1
  <1>5. p[1] = q[1]
    BY <1>1 DEF Front
  <1>6. Len(Tail(p)) <= Len(Tail(q))
    BY <1>1, <1>3 DEF Front
  <1>7. ASSUME NEW i \in 1..Len(Tail(p))
        PROVE  Tail(p)[i] = Tail(q)[i]
    <2>1. i \in 1..Len(Tail(q)) /\ i + 1 \in 1..Len(p)
      BY <1>1, <1>3, <1>6
    <2> QED BY <2>1, <1>3 DEF Front
  <1> QED BY <1>2, <1>4, <1>5, <1>6, <1>7 DEF Front

\* Taking the head of the first of two sequences takes that of both.
LEMMA TailOfConcat ==
  ASSUME NEW S, NEW s \in Seq(S), NEW t \in Seq(S), s # <<>>
  PROVE  /\ s \o t # <<>>
         /\ Head(s \o t) = Head(s)
         /\ Tail(s) \o t = Tail(s \o t)
  <1>1. /\ s \o t \in Seq(S)
        /\ Len(s \o t) = Len(s) + Len(t)
        /\ \A i \in 1..(Len(s) + Len(t)) : (s \o t)[i] =
             IF i <= Len(s) THEN s[i] ELSE t[i - Len(s)]
    BY ConcatProperties
  <1>2. Len(s) \in Nat /\ Len(t) \in Nat /\ Len(s) > 0
    BY LenZero, LenProperties
  <1>3. s \o t # <<>>
    BY <1>1, <1>2, LenZero
  <1>4. /\ Tail(s) \in Seq(S) /\ Len(Tail(s)) = Len(s) - 1
        /\ \A i \in 1..Len(Tail(s)) : Tail(s)[i] = s[i + 1]
    BY HeadTailProperties
  <1> DEFINE st == s \o t
  <1>5. /\ Tail(st) \in Seq(S) /\ Len(Tail(st)) = Len(st) - 1
        /\ \A i \in 1..Len(Tail(st)) : Tail(st)[i] = st[i + 1]
    BY <1>1, <1>3, HeadTailProperties
  <1>6. /\ Tail(s) \o t \in Seq(S)
        /\ Len(Tail(s) \o t) = Len(Tail(s)) + Len(t)
        /\ \A i \in 1..(Len(Tail(s)) + Len(t)) : (Tail(s) \o t)[i] =
             IF i <= Len(Tail(s)) THEN Tail(s)[i] ELSE t[i - Len(Tail(s))]
    BY <1>4, ConcatProperties
  <1>7. Len(Tail(s) \o t) = Len(Tail(st))
    BY <1>1, <1>2, <1>4, <1>5, <1>6
  <1>8. ASSUME NEW i \in 1..Len(Tail(s) \o t)
        PROVE  (Tail(s) \o t)[i] = Tail(st)[i]
    <2>1. Tail(st)[i] = st[i + 1] /\ i + 1 \in 1..(Len(s) + Len(t))
      BY <1>1, <1>2, <1>5, <1>7
    <2>2. st[i + 1] = IF i + 1 <= Len(s) THEN s[i + 1]
                      ELSE t[i + 1 - Len(s)]
      BY <1>1, <2>1
    <2> HIDE DEF st
    <2>3. CASE i <= Len(Tail(s))
      <3>1. (Tail(s) \o t)[i] = Tail(s)[i]
        BY <2>3, <1>6
      <3>2. i \in 1..Len(Tail(s)) /\ i + 1 <= Len(s)
        BY <2>3, <1>2, <1>4
      <3> QED BY <3>1, <3>2, <2>1, <2>2, <1>4
    <2>4. CASE ~(i <= Len(Tail(s)))
      <3>1. (Tail(s) \o t)[i] = t[i - Len(Tail(s))]
        BY <2>4, <1>6
      <3>2. i - Len(Tail(s)) = i + 1 - Len(s) /\ ~(i + 1 <= Len(s))
        BY <2>4, <1>2, <1>4
      <3> QED BY <3>1, <3>2, <2>1, <2>2
    <2> QED BY <2>3, <2>4
  <1>9. Tail(s) \o t = Tail(st)
    BY <1>5, <1>6, <1>7, <1>8, SeqEqual
  <1>10. Head(s \o t) = (s \o t)[1] /\ Head(s) = s[1]
    BY <1>1, <1>2, <1>3
  <1> QED BY <1>1, <1>2, <1>3, <1>9, <1>10

\* An element may change sides.
LEMMA MoveAcross ==
  ASSUME NEW S, NEW s \in Seq(S), NEW t \in Seq(S), t # <<>>
  PROVE  Append(s, Head(t)) \o Tail(t) = s \o t
  <1>1. Head(t) \in S /\ Tail(t) \in Seq(S)
    BY HeadTailProperties
  <1>2. Append(s, Head(t)) = s \o <<Head(t)>> /\ <<Head(t)>> \in Seq(S)
    BY <1>1, AppendIsConcat
  <1>3. (s \o <<Head(t)>>) \o Tail(t) = s \o (<<Head(t)>> \o Tail(t))
    BY <1>1, <1>2, ConcatAssociative
  <1>4. <<Head(t)>> \o Tail(t) = t
    BY <1>1
  <1> QED BY <1>2, <1>3, <1>4

-----------------------------------------------------------------------------
(* Mutation queues *)

\* In a queue with a front part p, the batches up to the last id of p are
\* those of p.
LEMMA UpToLast ==
  ASSUME NEW p \in Seq(Batch), NEW q \in Seq(Batch), Ascending(q),
         Front(p, q)
  PROVE  LET id == IF p = <<>> THEN 0 ELSE p[Len(p)].id
         IN  Cardinality({j \in 1..Len(q) : q[j].id <= id}) = Len(p)
  <1> DEFINE id == IF p = <<>> THEN 0 ELSE p[Len(p)].id
             up == {j \in 1..Len(q) : q[j].id <= id}
  <1>1. /\ Len(p) \in Nat /\ Len(q) \in Nat
        /\ p = <<>> <=> Len(p) = 0
    BY LenZero
  <1>2. \A j \in 1..Len(q) : q[j].id \in Nat \ {0}
    <2>1. \A j \in 1..Len(q) : q[j] \in Batch
      BY ElementOfSeq
    <2> QED BY <2>1 DEF Batch
  <1>3. Len(p) <= Len(q) /\ \A i \in 1..Len(p) : p[i] = q[i]
    BY DEF Front
  <1>4. up = 1..Len(p)
    <2>1. CASE p = <<>>
      <3>1. id = 0
        BY <2>1
      <3>2. \A j \in 1..Len(q) : ~(q[j].id <= 0)
        BY <1>2
      <3>3. 1..Len(p) = {}
        BY <2>1, <1>1
      <3> QED BY <3>1, <3>2, <3>3
    <2>2. CASE p # <<>>
      <3>1. Len(p) \in 1..Len(p) /\ Len(p) \in 1..Len(q)
        BY <2>2, <1>1, <1>3
      <3>2. id = q[Len(p)].id /\ id \in Nat
        BY <2>2, <3>1, <1>2, <1>3
      <3> HIDE DEF id
      <3>3. ASSUME NEW j \in 1..Len(q)
            PROVE  q[j].id <= id <=> j <= Len(p)
        <4>1. CASE j < Len(p)
          BY <4>1, <3>1, <3>2, <1>1, <1>2 DEF Ascending
        <4>2. CASE j = Len(p)
          BY <4>2, <3>2, <1>1, <1>2
        <4>3. CASE Len(p) < j
          BY <4>3, <3>1, <3>2, <1>1, <1>2 DEF Ascending
        <4> QED BY <4>1, <4>2, <4>3, <1>1
      <3> QED BY <3>3, <1>1, <1>3
    <2> QED BY <2>1, <2>2
  <1>5. Cardinality(1..Len(p)) = Len(p)
    <2> DEFINE n == Len(p)
    <2>1. 1 \in Int /\ n \in Int
      BY <1>1
    <2> HIDE DEF n
    <2>2. Cardinality(1..n) = IF 1 > n THEN 0 ELSE n - 1 + 1
      BY <2>1, FS_Interval
    <2> QED BY <2>2, <1>1 DEF n
  <1> QED BY <1>4, <1>5

\* FillWritePipeline extends the front part of the queue to a longer one.
LEMMA NextBatchesFront ==
  ASSUME NEW p \in Seq(Batch), NEW q \in Seq(Batch), Ascending(q),
         Front(p, q)
  PROVE  /\ NextBatches(p, q) \in Seq(Batch)
         /\ p \o NextBatches(p, q) \in Seq(Batch)
         /\ Front(p \o NextBatches(p, q), q)
  <1> DEFINE id == IF p = <<>> THEN 0 ELSE p[Len(p)].id
             more == SubSeq(q, Len(p) + 1, Len(q))
             room == MaxPendingWrites - Len(p)
             k == IF Len(more) <= room THEN Len(more) ELSE room
             added == SubSeq(more, 1, k)
  <1>1. Len(p) \in Nat /\ Len(q) \in Nat /\ Len(p) <= Len(q)
        /\ \A i \in 1..Len(p) : p[i] = q[i]
    BY LenProperties DEF Front
  <1>2. \A j \in 1..Len(q) : q[j] \in Batch
    BY ElementOfSeq
  <1>3. BatchesAfter(q, id) = more
    BY UpToLast DEF BatchesAfter
  <1>4. NextBatches(p, q) = added
    BY <1>3 DEF NextBatches
  <1>5. /\ more \in Seq(Batch)
        /\ Len(more) = IF Len(p) + 1 <= Len(q) THEN Len(q) - (Len(p) + 1) + 1
                       ELSE 0
        /\ \A i \in 1..(Len(q) - (Len(p) + 1) + 1) :
             more[i] = q[Len(p) + 1 + i - 1]
    <2>1. \A i \in (Len(p) + 1)..Len(q) : q[i] \in Batch
      BY <1>1, <1>2
    <2>2. Len(p) + 1 \in Int /\ Len(q) \in Int
      BY <1>1
    <2> QED BY <2>1, <2>2, SubSeqProperties
  <1> HIDE DEF more
  <1>6. /\ Len(more) = Len(q) - Len(p) /\ Len(more) \in Nat
        /\ \A i \in 1..Len(more) : more[i] = q[Len(p) + i]
    BY <1>1, <1>5
  <1>7. k \in Int /\ k <= Len(more)
    BY <1>1, <1>6, PipelineAssumption
  <1> HIDE DEF k
  <1>8. /\ added \in Seq(Batch)
        /\ Len(added) = IF 1 <= k THEN k - 1 + 1 ELSE 0
        /\ \A i \in 1..(k - 1 + 1) : added[i] = more[1 + i - 1]
    <2>1. \A i \in 1..Len(more) : more[i] \in Batch
      BY <1>5, ElementOfSeq
    <2>2. \A i \in 1..k : i \in 1..Len(more)
      BY <1>6, <1>7
    <2>3. \A i \in 1..k : more[i] \in Batch
      BY <2>1, <2>2
    <2> QED BY <2>3, <1>7, SubSeqProperties
  <1> HIDE DEF added
  <1>9. /\ Len(added) \in Nat /\ Len(added) <= Len(more)
        /\ \A i \in 1..Len(added) : added[i] = q[Len(p) + i]
    BY <1>6, <1>7, <1>8
  <1>10. /\ p \o added \in Seq(Batch)
         /\ Len(p \o added) = Len(p) + Len(added)
         /\ \A i \in 1..(Len(p) + Len(added)) : (p \o added)[i] =
              IF i <= Len(p) THEN p[i] ELSE added[i - Len(p)]
    BY <1>8, ConcatProperties
  <1>11. Front(p \o added, q)
    <2>1. Len(p \o added) <= Len(q)
      BY <1>1, <1>6, <1>9, <1>10
    <2>2. ASSUME NEW i \in 1..Len(p \o added)
          PROVE  (p \o added)[i] = q[i]
      <3>1. CASE i <= Len(p)
        BY <3>1, <1>1, <1>9, <1>10
      <3>2. CASE ~(i <= Len(p))
        <4>1. i - Len(p) \in 1..Len(added) /\ Len(p) + (i - Len(p)) = i
          BY <3>2, <1>1, <1>9, <1>10
        <4>2. (p \o added)[i] = added[i - Len(p)]
          BY <3>2, <1>1, <1>9, <1>10
        <4> QED BY <4>1, <4>2, <1>9
      <3> QED BY <3>1, <3>2
    <2> QED BY <2>1, <2>2 DEF Front
  <1> QED BY <1>4, <1>8, <1>10, <1>11

\* RemoveMutationBatch of the oldest batch leaves the rest.
LEMMA WithoutOldest ==
  ASSUME NEW q \in Seq(Batch), Ascending(q), q # <<>>
  PROVE  Without(q, q[1].id) = Tail(q)
  <1>1. Len(q) \in Nat /\ Len(q) > 0
    BY LenZero
  <1>2. 1 \in 1..Len(q)
    BY <1>1
  <1>3. \A j \in 1..Len(q) : q[j].id \in Nat
    <2>1. \A j \in 1..Len(q) : q[j] \in Batch
      BY ElementOfSeq
    <2> QED BY <2>1 DEF Batch
  <1>4. \A i \in 1..Len(q) : q[i].id = q[1].id => i = 1
    BY <1>1, <1>2, <1>3 DEF Ascending
  <1> DEFINE j == CHOOSE i \in 1..Len(q) : q[i].id = q[1].id
  <1>5. j = 1
    BY <1>2, <1>4
  <1> HIDE DEF j
  <1>6. Without(q, q[1].id) = SubSeq(q, 1, j - 1) \o SubSeq(q, j + 1, Len(q))
    BY DEF Without, j
  <1>7. SubSeq(q, 1, j - 1) = <<>>
    BY <1>5, SubSeqEmpty
  <1>8. SubSeq(q, j + 1, Len(q)) = Tail(q)
    BY <1>5, TailIsSubSeq
  <1>9. Tail(q) \in Seq(Batch)
    BY HeadTailProperties
  <1> QED BY <1>6, <1>7, <1>8, <1>9, ConcatEmptySeq

\* A set of naturals has a least element.
LEMMA LeastOf ==
  ASSUME NEW T \in SUBSET Nat, T # {}
  PROVE  \E x \in T : \A y \in T : x <= y
  <1>1. PICK x \in T : \A y \in T : ~(<<y, x>> \in OpToRel(<, Nat))
    BY NatLessThanWellFounded, WFMin, Zenon
  <1>2. \A y \in T : ~(y < x)
    BY <1>1 DEF OpToRel
  <1> QED BY <1>2

\* A bounded set of naturals has a largest one.
LEMMA LargestOf ==
  ASSUME NEW T \in SUBSET Nat, T # {}, NEW n \in Nat, \A x \in T : x <= n
  PROVE  \E x \in T : \A y \in T : y <= x
  <1> DEFINE above == {m \in Nat : \A x \in T : x <= m}
  <1>1. n \in above
    OBVIOUS
  <1>2. PICK m \in above : \A y \in above : m <= y
    BY <1>1, LeastOf
  <1>3. m \in T
    <2> SUFFICES ASSUME m \notin T PROVE FALSE
      OBVIOUS
    <2>1. \A x \in T : x < m
      BY <1>2
    <2>2. PICK x : x \in T
      OBVIOUS
    <2>3. m \in Nat \ {0}
      BY <2>1, <2>2, <1>2
    <2>4. m - 1 \in above
      BY <2>1, <2>3
    <2> QED BY <2>3, <2>4, <1>2
  <1> QED BY <1>2, <1>3

\* The next batch id that is loaded is larger than any id of any queue.
LEMMA LoadedIdFree ==
  ASSUME NEW q \in [Users -> Seq(Batch)], NEW n \in Nat,
         QueuesFine(q, n)
  PROVE  /\ LoadNextBatchIdFromDb(q) \in Nat \ {0}
         /\ \A u \in Users :
              NextIdFree(q[u], LoadNextBatchIdFromDb(q), n)
  <1> DEFINE ids == {0} \cup
               UNION {{q[u][j].id : j \in 1..Len(q[u])} : u \in Users}
             top == CHOOSE i \in ids : \A k \in ids : k <= i
  <1>1. \A u \in Users : \A j \in 1..Len(q[u]) :
          q[u][j].id \in Nat /\ q[u][j].id <= n
    <2>1. ASSUME NEW u \in Users, NEW j \in 1..Len(q[u])
          PROVE  q[u][j] \in Batch
      BY ElementOfSeq
    <2> QED BY <2>1 DEF Batch, QueuesFine
  <1>2. ids \in SUBSET Nat /\ ids # {} /\ \A x \in ids : x <= n
    BY <1>1
  <1>3. \A u \in Users : \A j \in 1..Len(q[u]) : q[u][j].id \in ids
    OBVIOUS
  <1> HIDE DEF ids
  <1>4. \E x \in ids : \A y \in ids : y <= x
    BY <1>2, LargestOf
  <1>5. top \in ids /\ \A y \in ids : y <= top
    BY <1>4
  <1> HIDE DEF top
  <1>6. LoadNextBatchIdFromDb(q) = top + 1
    BY DEF LoadNextBatchIdFromDb, top, ids
  <1>7. top \in Nat /\ top <= n
    BY <1>2, <1>5
  <1>8. ASSUME NEW u \in Users, NEW j \in 1..Len(q[u])
        PROVE  q[u][j].id < top + 1
    BY <1>1, <1>3, <1>5, <1>7
  <1> QED BY <1>6, <1>7, <1>8 DEF NextIdFree

-----------------------------------------------------------------------------
(* The operations of RemoteStore and Stream on a Net *)

\* The fields of a Net have their types.
LEMMA NetFields ==
  ASSUME NEW n \in Net
  PROVE  /\ n.pipeline \in Seq(Batch)
         /\ n.state \in {"Initial", "Starting", "Open", "Error", "Backoff"}
         /\ n.handshake \in BOOLEAN /\ n.idle \in BOOLEAN
         /\ n.closes \in Nat
         /\ n.asks \in SUBSET TokenRequest
         /\ n.as \in Users \cup {None}
         /\ n.wire \in Seq(Batch \cup {Hello})
         /\ n.replies \in Seq(Batch \cup {Hello})
         /\ n.refused \in BOOLEAN
  BY DEF Net

\* The request that a stream with this close_count_ makes.
Request(closes) == [closes |-> closes, tokens |-> tokens, user |-> None]

\* Stream::Start makes a request, unless there is a backoff to wait for.
LEMMA StartFields ==
  ASSUME NEW n \in Net, tokens \in Nat
  PROVE  /\ Start(n) \in Net
         /\ Start(n).pipeline = n.pipeline
         /\ Start(n).handshake = n.handshake
         /\ Start(n).idle = n.idle
         /\ Start(n).closes = n.closes
         /\ Start(n).as = n.as
         /\ Start(n).wire = n.wire
         /\ Start(n).replies = n.replies
         /\ Start(n).refused = n.refused
         /\ n.state = "Error" =>
              Start(n).state = "Backoff" /\ Start(n).asks = n.asks
         /\ n.state # "Error" =>
              /\ Start(n).state = "Starting"
              /\ Start(n).asks = n.asks \cup {Request(n.closes)}
  <1>1. Request(n.closes) \in TokenRequest
    BY DEF Request, TokenRequest, Net
  <1> QED BY <1>1 DEF Start, Net, Request

\* The fields that Stream::Write sets.
Rewired(n, w, b) == [n EXCEPT !.wire = w, !.idle = b]
LEMMA WireFields ==
  ASSUME NEW n \in Net, NEW w \in Seq(Batch \cup {Hello}), NEW b \in BOOLEAN
  PROVE  /\ Rewired(n, w, b) \in Net
         /\ Rewired(n, w, b).pipeline = n.pipeline
         /\ Rewired(n, w, b).state = n.state
         /\ Rewired(n, w, b).handshake = n.handshake
         /\ Rewired(n, w, b).idle => b
         /\ Rewired(n, w, b).closes = n.closes
         /\ Rewired(n, w, b).asks = n.asks
         /\ Rewired(n, w, b).as = n.as
         /\ Rewired(n, w, b).wire = w
         /\ Rewired(n, w, b).replies = n.replies
         /\ Rewired(n, w, b).refused = n.refused
  BY DEF Net, Rewired

\* Stream::Write
LEMMA WriteFields ==
  ASSUME NEW n \in Net, NEW added \in Seq(Batch)
  PROVE  /\ Write(n, added) \in Net
         /\ Write(n, added).pipeline = n.pipeline
         /\ Write(n, added).state = n.state
         /\ Write(n, added).handshake = n.handshake
         /\ Write(n, added).closes = n.closes
         /\ Write(n, added).asks = n.asks
         /\ Write(n, added).as = n.as
         /\ Write(n, added).wire = n.wire \o added
         /\ Write(n, added).replies = n.replies
         /\ Write(n, added).refused = n.refused
         /\ Write(n, added).idle => n.idle /\ added = <<>>
  <1> USE NetFields
  <1>1. added \in Seq(Batch \cup {Hello})
    BY SeqMonotonic
  <1>2. n.wire \o added \in Seq(Batch \cup {Hello})
    BY <1>1, ConcatProperties
  <1>3. CASE added = <<>>
    <2>1. Write(n, added) = n
      BY <1>3 DEF Write
    <2>2. n.wire \o added = n.wire
      BY <1>3, ConcatEmptySeq
    <2> QED BY <2>1, <2>2, <1>3
  <1>4. CASE added # <<>>
    <2> DEFINE w == n.wire \o added
               m == Rewired(n, w, FALSE)
    <2>1. Write(n, added) = m
      BY <1>4 DEF Write, Rewired
    <2>2. FALSE \in BOOLEAN /\ w \in Seq(Batch \cup {Hello})
      BY <1>2
    <2> HIDE DEF w
    <2>3. /\ m \in Net
          /\ m.pipeline = n.pipeline /\ m.state = n.state
          /\ m.handshake = n.handshake /\ (m.idle => FALSE)
          /\ m.closes = n.closes /\ m.asks = n.asks /\ m.as = n.as
          /\ m.wire = w /\ m.replies = n.replies
          /\ m.refused = n.refused
      BY <2>2, WireFields, Zenon
    <2> HIDE DEF m
    <2> QED BY <2>1, <2>3 DEF w
  <1> QED BY <1>3, <1>4

\* AddToWritePipeline
LEMMA AddFields ==
  ASSUME NEW n \in Net, NEW added \in Seq(Batch)
  PROVE  LET m == AddToWritePipeline(n, added) IN
         /\ m \in Net
         /\ m.pipeline = n.pipeline \o added
         /\ m.state = n.state
         /\ m.handshake = n.handshake
         /\ m.closes = n.closes
         /\ m.asks = n.asks
         /\ m.as = n.as
         /\ m.replies = n.replies
         /\ m.refused = n.refused
         /\ m.wire = IF IsOpen(n) /\ n.handshake THEN n.wire \o added
                     ELSE n.wire
         /\ m.idle => n.idle
         /\ (IsOpen(n) /\ n.handshake /\ added # <<>>) => ~m.idle
  <1> DEFINE p == [n EXCEPT !.pipeline = @ \o added]
  <1>1. n.pipeline \o added \in Seq(Batch)
    BY NetFields, ConcatProperties
  <1>2. added \in Seq(Batch \cup {Hello})
    BY SeqMonotonic
  <1>3. n.wire \o added \in Seq(Batch \cup {Hello})
    BY <1>2, NetFields, ConcatProperties
  <1>4. /\ p \in Net /\ p.pipeline = n.pipeline \o added
        /\ p.state = n.state /\ p.handshake = n.handshake
        /\ p.closes = n.closes /\ p.asks = n.asks /\ p.as = n.as
        /\ p.replies = n.replies /\ p.refused = n.refused
        /\ p.wire = n.wire /\ p.idle = n.idle
    BY <1>1 DEF Net
  <1> HIDE DEF p
  <1>5. AddToWritePipeline(n, added) =
          IF IsOpen(p) /\ p.handshake THEN Write(p, added) ELSE p
    BY DEF AddToWritePipeline, p
  <1>6. CASE ~(IsOpen(n) /\ n.handshake)
    BY <1>4, <1>5, <1>6 DEF IsOpen
  <1>7. CASE IsOpen(n) /\ n.handshake
    <2> DEFINE m == Write(p, added)
    <2>1. AddToWritePipeline(n, added) = m
      BY <1>4, <1>5, <1>7 DEF IsOpen
    <2>2. p \in Net
      BY <1>4
    <2>3. /\ m \in Net /\ m.pipeline = p.pipeline /\ m.state = p.state
          /\ m.handshake = p.handshake /\ m.closes = p.closes
          /\ m.asks = p.asks /\ m.as = p.as /\ m.wire = p.wire \o added
          /\ m.replies = p.replies /\ m.refused = p.refused
          /\ m.idle => p.idle /\ added = <<>>
      BY <2>2, WriteFields, Zenon
    <2> HIDE DEF m
    <2> QED BY <2>1, <2>3, <1>4, <1>7
  <1> QED BY <1>6, <1>7

\* The idleness timer is set or stopped.
Idling(n, b) == [n EXCEPT !.idle = b]
LEMMA IdleFields ==
  ASSUME NEW n \in Net, NEW b \in BOOLEAN
  PROVE  /\ Idling(n, b) \in Net
         /\ Idling(n, b).pipeline = n.pipeline
         /\ Idling(n, b).state = n.state
         /\ Idling(n, b).handshake = n.handshake
         /\ Idling(n, b).idle => b
         /\ Idling(n, b).closes = n.closes
         /\ Idling(n, b).asks = n.asks
         /\ Idling(n, b).as = n.as
         /\ Idling(n, b).wire = n.wire
         /\ Idling(n, b).replies = n.replies
         /\ Idling(n, b).refused = n.refused
  BY DEF Net, Idling

\* StartIfNeeded: what has not begun begins if there is something to send.
LEMMA StartIfNeededFields ==
  ASSUME NEW n \in Net, tokens \in Nat
  PROVE  LET m == StartIfNeeded(n) IN
         /\ m \in Net
         /\ m.pipeline = n.pipeline
         /\ m.handshake = n.handshake
         /\ m.idle = n.idle
         /\ m.closes = n.closes
         /\ m.as = n.as
         /\ m.wire = n.wire
         /\ m.replies = n.replies
         /\ m.refused = n.refused
         /\ (IsStarted(n) \/ n.pipeline = <<>>) =>
              m.state = n.state /\ m.asks = n.asks
         /\ (n.state = "Error" /\ n.pipeline # <<>>) =>
              m.state = "Backoff" /\ m.asks = n.asks
         /\ (n.state = "Initial" /\ n.pipeline # <<>>) =>
              /\ m.state = "Starting"
              /\ m.asks = n.asks \cup {Request(n.closes)}
  <1>1. CASE IsStarted(n) \/ n.pipeline = <<>>
    <2>1. StartIfNeeded(n) = n
      BY <1>1 DEF StartIfNeeded, ShouldStartWriteStream
    <2>2. IsStarted(n) => n.state # "Error" /\ n.state # "Initial"
      BY DEF IsStarted
    <2> QED BY <2>1, <2>2, <1>1
  <1>2. CASE ~(IsStarted(n) \/ n.pipeline = <<>>)
    <2>1. StartIfNeeded(n) = Start(n)
      BY <1>2 DEF StartIfNeeded, ShouldStartWriteStream
    <2> QED BY <2>1, <1>2, StartFields
  <1> QED BY <1>1, <1>2

\* FillWritePipeline
LEMMA FillFields ==
  ASSUME NEW n \in Net, NEW q \in Seq(Batch), Ascending(q),
         Front(n.pipeline, q), tokens \in Nat
  PROVE  LET m == FillWritePipeline(n, q)
             added == NextBatches(n.pipeline, q)
         IN
         /\ m \in Net
         /\ Front(m.pipeline, q)
         /\ added \in Seq(Batch)
         /\ m.pipeline = n.pipeline \o added
         /\ m.handshake = n.handshake
         /\ m.closes = n.closes
         /\ m.as = n.as
         /\ m.wire = IF IsOpen(n) /\ n.handshake THEN n.wire \o added
                     ELSE n.wire
         /\ m.replies = n.replies
         /\ m.refused = n.refused
         /\ m.idle =>
              \/ n.idle /\ ~(IsOpen(n) /\ n.handshake /\ added # <<>>)
              \/ IsOpen(n) /\ m.pipeline = <<>>
         /\ (IsStarted(n) \/ m.pipeline = <<>>) =>
              m.state = n.state /\ m.asks = n.asks
         /\ (n.state = "Error" /\ m.pipeline # <<>>) =>
              m.state = "Backoff" /\ m.asks = n.asks
         /\ (n.state = "Initial" /\ m.pipeline # <<>>) =>
              /\ m.state = "Starting"
              /\ m.asks = n.asks \cup {Request(n.closes)}
  <1> DEFINE added == NextBatches(n.pipeline, q)
             m == AddToWritePipeline(n, added)
             b == m.idle \/ (m.pipeline = <<>> /\ IsOpen(m))
             i == Idling(m, b)
             f == StartIfNeeded(i)
  <1>1. FillWritePipeline(n, q) = f
    BY DEF FillWritePipeline, Idling
  <1>2. added \in Seq(Batch) /\ Front(n.pipeline \o added, q)
    BY NetFields, NextBatchesFront
  <1> HIDE DEF added
  <1>3. /\ m \in Net /\ m.pipeline = n.pipeline \o added
        /\ m.state = n.state /\ m.handshake = n.handshake
        /\ m.closes = n.closes /\ m.asks = n.asks /\ m.as = n.as
        /\ m.replies = n.replies /\ m.refused = n.refused
        /\ m.wire = IF IsOpen(n) /\ n.handshake THEN n.wire \o added
                    ELSE n.wire
        /\ m.idle => n.idle
        /\ (IsOpen(n) /\ n.handshake /\ added # <<>>) => ~m.idle
    BY <1>2, AddFields
  <1> HIDE DEF m
  <1>4. b \in BOOLEAN /\ m \in Net
    BY <1>3
  <1>5. b => m.idle \/ (m.pipeline = <<>> /\ IsOpen(m))
    OBVIOUS
  <1> HIDE DEF b
  <1>6. /\ i \in Net /\ i.pipeline = m.pipeline /\ i.state = m.state
        /\ i.handshake = m.handshake /\ (i.idle => b)
        /\ i.closes = m.closes /\ i.asks = m.asks /\ i.as = m.as
        /\ i.wire = m.wire /\ i.replies = m.replies
        /\ i.refused = m.refused
    BY <1>4, IdleFields, Zenon
  <1> HIDE DEF i
  <1>7. i \in Net
    BY <1>6
  <1>8. /\ f \in Net /\ f.pipeline = i.pipeline
        /\ f.handshake = i.handshake /\ f.idle = i.idle
        /\ f.closes = i.closes /\ f.as = i.as /\ f.wire = i.wire
        /\ f.replies = i.replies /\ f.refused = i.refused
        /\ (IsStarted(i) \/ i.pipeline = <<>>) =>
             f.state = i.state /\ f.asks = i.asks
        /\ (i.state = "Error" /\ i.pipeline # <<>>) =>
             f.state = "Backoff" /\ f.asks = i.asks
        /\ (i.state = "Initial" /\ i.pipeline # <<>>) =>
             /\ f.state = "Starting"
             /\ f.asks = i.asks \cup {Request(i.closes)}
    BY <1>7, StartIfNeededFields
  <1> HIDE DEF f
  <1>9. IsOpen(m) <=> IsOpen(n)
    BY <1>3 DEF IsOpen
  <1>10. IsStarted(i) <=> IsStarted(n)
    BY <1>3, <1>6 DEF IsStarted
  <1>11. f.pipeline = n.pipeline \o added
    BY <1>3, <1>6, <1>8
  <1>12. f.idle => \/ n.idle /\ ~(IsOpen(n) /\ n.handshake /\ added # <<>>)
                   \/ IsOpen(n) /\ f.pipeline = <<>>
    BY <1>3, <1>5, <1>6, <1>8, <1>9
  <1>13. /\ f.handshake = n.handshake /\ f.closes = n.closes
         /\ f.as = n.as /\ f.replies = n.replies
         /\ f.refused = n.refused
         /\ f.wire = IF IsOpen(n) /\ n.handshake THEN n.wire \o added
                     ELSE n.wire
    BY <1>3, <1>6, <1>8
  <1>14. /\ (IsStarted(n) \/ f.pipeline = <<>>) =>
              f.state = n.state /\ f.asks = n.asks
         /\ (n.state = "Error" /\ f.pipeline # <<>>) =>
              f.state = "Backoff" /\ f.asks = n.asks
         /\ (n.state = "Initial" /\ f.pipeline # <<>>) =>
              /\ f.state = "Starting"
              /\ f.asks = n.asks \cup {Request(n.closes)}
    BY <1>3, <1>6, <1>8, <1>10
  <1>15. f \in Net /\ Front(f.pipeline, q)
    BY <1>2, <1>8, <1>11
  <1> QED BY <1>1, <1>2, <1>11, <1>12, <1>13, <1>14, <1>15 DEF added

\* handshake_complete_ is set.
Shaken(n, b) == [n EXCEPT !.handshake = b]
LEMMA ShakenFields ==
  ASSUME NEW n \in Net, NEW b \in BOOLEAN
  PROVE  /\ Shaken(n, b) \in Net
         /\ Shaken(n, b).pipeline = n.pipeline
         /\ Shaken(n, b).state = n.state
         /\ Shaken(n, b).handshake = b
         /\ Shaken(n, b).idle = n.idle
         /\ Shaken(n, b).closes = n.closes
         /\ Shaken(n, b).asks = n.asks
         /\ Shaken(n, b).as = n.as
         /\ Shaken(n, b).wire = n.wire
         /\ Shaken(n, b).replies = n.replies
         /\ Shaken(n, b).refused = n.refused
  BY DEF Net, Shaken

\* handshake_complete_ is reset.
LEMMA UnshakenFields ==
  ASSUME NEW n \in Net
  PROVE  LET m == [n EXCEPT !.handshake = FALSE] IN
         /\ m \in Net
         /\ m.pipeline = n.pipeline
         /\ m.state = n.state
         /\ ~m.handshake
         /\ m.idle = n.idle
         /\ m.closes = n.closes
         /\ m.asks = n.asks
         /\ m.as = n.as
         /\ m.wire = n.wire
         /\ m.replies = n.replies
         /\ m.refused = n.refused
  <1> DEFINE m == Shaken(n, FALSE)
  <1>1. FALSE \in BOOLEAN
    OBVIOUS
  <1>2. /\ m \in Net /\ m.pipeline = n.pipeline /\ m.state = n.state
        /\ m.handshake = FALSE /\ m.idle = n.idle /\ m.closes = n.closes
        /\ m.asks = n.asks /\ m.as = n.as /\ m.wire = n.wire
        /\ m.replies = n.replies /\ m.refused = n.refused
    BY <1>1, ShakenFields, Zenon
  <1>3. m = [n EXCEPT !.handshake = FALSE]
    BY DEF Shaken
  <1> HIDE DEF m
  <1> QED BY <1>2, <1>3, Zenon

\* Stream::Close
Closed(n, s, i, r) ==
  [n EXCEPT !.state = s, !.closes = @ + 1, !.idle = i, !.as = None,
            !.wire = <<>>, !.replies = <<>>, !.refused = r]
LEMMA ClosedFields ==
  ASSUME NEW n \in Net, NEW s \in {"Initial", "Error"}, NEW i \in BOOLEAN,
         NEW r \in BOOLEAN
  PROVE  /\ Closed(n, s, i, r) \in Net
         /\ Closed(n, s, i, r).pipeline = n.pipeline
         /\ Closed(n, s, i, r).state = s
         /\ Closed(n, s, i, r).handshake = n.handshake
         /\ Closed(n, s, i, r).idle = i
         /\ Closed(n, s, i, r).closes = n.closes + 1
         /\ Closed(n, s, i, r).asks = n.asks
         /\ Closed(n, s, i, r).as = None
         /\ Closed(n, s, i, r).wire = <<>>
         /\ Closed(n, s, i, r).replies = <<>>
         /\ Closed(n, s, i, r).refused = r
  <1>1. n.closes + 1 \in Nat
    BY NetFields
  <1>2. <<>> \in Seq(Batch \cup {Hello})
    BY EmptySeq
  <1> QED BY <1>1, <1>2 DEF Net, Closed

\* Stream::Close leaves nothing of the stream but its number.
LEMMA CloseFields ==
  ASSUME NEW n \in Net, NEW s \in {"Initial", "Error"}
  PROVE  LET m == Close(n, s) IN
         /\ m \in Net
         /\ m.pipeline = n.pipeline
         /\ m.state = s
         /\ m.handshake = n.handshake
         /\ ~m.idle
         /\ m.closes = n.closes + 1
         /\ m.asks = n.asks
         /\ m.as = None
         /\ m.wire = <<>>
         /\ m.replies = <<>>
         /\ ~m.refused
  <1> DEFINE m == Closed(n, s, FALSE, FALSE)
  <1>1. FALSE \in BOOLEAN
    OBVIOUS
  <1>2. /\ m \in Net /\ m.pipeline = n.pipeline /\ m.state = s
        /\ m.handshake = n.handshake /\ m.idle = FALSE
        /\ m.closes = n.closes + 1 /\ m.asks = n.asks /\ m.as = None
        /\ m.wire = <<>> /\ m.replies = <<>> /\ m.refused = FALSE
    BY <1>1, ClosedFields, Zenon
  <1>3. m = Close(n, s)
    BY DEF Close, Closed
  <1> HIDE DEF m
  <1> QED BY <1>2, <1>3, Zenon

\* How an operation may move a Net n to m: the stream keeps its user or has
\* none, and only a stream that was not starting, or is another one now, asks
\* for a token.
Moved(n, m) ==
  /\ m.as \in {None, n.as}
  /\ n.closes <= m.closes
  /\ \/ /\ m.asks = n.asks
        /\ (m.closes = n.closes /\ n.state = "Starting")
             => m.state = "Starting"
     \/ /\ m.asks = n.asks \cup {Request(m.closes)}
        /\ m.state = "Starting"
        /\ n.closes < m.closes \/ n.state # "Starting"

\* The old stream is gone.
Gone(n, m) ==
  /\ m.as = None
  /\ n.closes < m.closes \/ n.state # "Starting"

\* The answers to come are the same, or none.
SameReplies(n, m) == m.handshake => n.handshake /\ m.replies = n.replies

\* FillWritePipeline leaves a stream as it should be.
LEMMA FillFine ==
  ASSUME NEW n \in Net, NEW q \in Seq(Batch), Ascending(q),
         Front(n.pipeline, q), tokens \in Nat, StreamFine(n)
  PROVE  LET m == FillWritePipeline(n, q) IN
         m \in Net /\ StreamFine(m) /\ Front(m.pipeline, q) /\ Moved(n, m)
         /\ SameReplies(n, m) /\ m.closes = n.closes /\ m.as = n.as
  <1> DEFINE m == FillWritePipeline(n, q)
             added == NextBatches(n.pipeline, q)
  <1>1. /\ m \in Net /\ Front(m.pipeline, q) /\ added \in Seq(Batch)
        /\ m.pipeline = n.pipeline \o added
        /\ m.handshake = n.handshake /\ m.closes = n.closes
        /\ m.as = n.as
        /\ m.wire = IF IsOpen(n) /\ n.handshake THEN n.wire \o added
                    ELSE n.wire
        /\ m.replies = n.replies /\ m.refused = n.refused
        /\ m.idle =>
             \/ n.idle /\ ~(IsOpen(n) /\ n.handshake /\ added # <<>>)
             \/ IsOpen(n) /\ m.pipeline = <<>>
        /\ (IsStarted(n) \/ m.pipeline = <<>>) =>
             m.state = n.state /\ m.asks = n.asks
        /\ (n.state = "Error" /\ m.pipeline # <<>>) =>
             m.state = "Backoff" /\ m.asks = n.asks
        /\ (n.state = "Initial" /\ m.pipeline # <<>>) =>
             /\ m.state = "Starting"
             /\ m.asks = n.asks \cup {Request(n.closes)}
    BY FillFields
  <1> HIDE DEF m, added
  <1>2. n.state \in {"Initial", "Starting", "Open", "Error", "Backoff"}
        /\ n.closes \in Nat /\ n.pipeline \in Seq(Batch)
        /\ n.wire \in Seq(Batch \cup {Hello})
        /\ n.replies \in Seq(Batch \cup {Hello})
    BY NetFields
  <1>3. /\ n.as # None <=> IsOpen(n)
        /\ n.handshake => IsOpen(n)
        /\ n.idle => IsOpen(n) /\ n.pipeline = <<>>
        /\ (IsStarted(n) /\ ~n.handshake) => n.pipeline # <<>>
        /\ ~IsOpen(n) => n.wire = <<>> /\ n.replies = <<>> /\ ~n.refused
        /\ IsOpen(n) =>
             n.replies \o n.wire = IF n.handshake THEN n.pipeline
                                   ELSE <<Hello>>
    BY DEF StreamFine
  <1>4. IsOpen(m) <=> IsOpen(n)
    BY <1>1, <1>2 DEF IsOpen, IsStarted
  <1>5. n.pipeline # <<>> => m.pipeline # <<>>
    BY <1>1, <1>2, ConcatEqualIffEmpty
  <1>6. m.idle => IsOpen(m) /\ m.pipeline = <<>>
    <2>1. ASSUME n.idle, ~(IsOpen(n) /\ n.handshake /\ added # <<>>)
          PROVE  IsOpen(n) /\ m.pipeline = <<>>
      <3>1. IsOpen(n) /\ n.pipeline = <<>>
        BY <2>1, <1>3
      <3>2. added = <<>>
        BY <2>1, <3>1, <1>3 DEF IsOpen, IsStarted
      <3>3. n.pipeline \o added = n.pipeline
        BY <3>2, <1>2, ConcatEmptySeq
      <3> QED BY <3>1, <3>3, <1>1
    <2> QED BY <2>1, <1>1, <1>4
  <1>7. (IsStarted(m) /\ ~m.handshake) => m.pipeline # <<>>
    <2>1. CASE IsStarted(n)
      BY <2>1, <1>1, <1>3, <1>5
    <2>2. CASE ~IsStarted(n)
      BY <2>2, <1>1 DEF IsStarted
    <2> QED BY <2>1, <2>2
  <1>8. IsOpen(m) =>
          m.replies \o m.wire = IF m.handshake THEN m.pipeline
                                ELSE <<Hello>>
    <2>1. CASE IsOpen(n) /\ n.handshake
      <3>1. added \in Seq(Batch \cup {Hello})
        BY <1>1, SeqMonotonic
      <3> DEFINE r == n.replies
                 w == n.wire
                 S == Batch \cup {Hello}
      <3>2. r \in Seq(S) /\ w \in Seq(S) /\ added \in Seq(S)
        BY <3>1, <1>2
      <3> HIDE DEF r, w, S
      <3>3. (r \o w) \o added = r \o (w \o added)
        BY <3>2, ConcatAssociative
      <3>4. (n.replies \o n.wire) \o added = n.replies \o (n.wire \o added)
        BY <3>3 DEF r, w
      <3> QED BY <3>4, <2>1, <1>1, <1>3
    <2>2. CASE ~(IsOpen(n) /\ n.handshake)
      BY <2>2, <1>1, <1>3, <1>4
    <2> QED BY <2>1, <2>2
  <1>9. StreamFine(m)
    BY <1>1, <1>3, <1>4, <1>6, <1>7, <1>8 DEF StreamFine
  <1>10. Moved(n, m)
    BY <1>1, <1>2 DEF Moved, IsStarted
  <1>11. SameReplies(n, m)
    BY <1>1 DEF SameReplies
  <1> QED BY <1>1, <1>9, <1>10, <1>11 DEF m

\* Stream::Stop leaves a stream that can be started again.
LEMMA StopFine ==
  ASSUME NEW n \in Net, StreamFine(n)
  PROVE  LET m == Stop(n) IN
         /\ m \in Net /\ StreamFine(m)
         /\ m.pipeline = n.pipeline /\ m.asks = n.asks
         /\ ~m.handshake /\ ~IsStarted(m)
         /\ n.closes <= m.closes
         /\ IsStarted(n) => n.closes < m.closes
  <1>1. n.closes \in Nat
    BY NetFields
  <1>2. CASE IsStarted(n)
    <2> DEFINE c == Close(n, "Initial")
               m == [c EXCEPT !.handshake = FALSE]
    <2>1. Stop(n) = m
      BY <1>2 DEF Stop
    <2>2. /\ c \in Net /\ c.pipeline = n.pipeline
          /\ c.state = "Initial" /\ ~c.idle
          /\ c.closes = n.closes + 1 /\ c.asks = n.asks
          /\ c.as = None /\ c.wire = <<>>
          /\ c.replies = <<>> /\ ~c.refused
      BY CloseFields
    <2> HIDE DEF c
    <2>3. /\ m \in Net /\ m.pipeline = c.pipeline /\ m.state = c.state
          /\ ~m.handshake /\ m.idle = c.idle /\ m.closes = c.closes
          /\ m.asks = c.asks /\ m.as = c.as /\ m.wire = c.wire
          /\ m.replies = c.replies /\ m.refused = c.refused
      BY <2>2, UnshakenFields
    <2> HIDE DEF m
    <2>4. ~IsStarted(m) /\ ~IsOpen(m)
      BY <2>2, <2>3 DEF IsStarted, IsOpen
    <2>5. StreamFine(m)
      BY <2>2, <2>3, <2>4 DEF StreamFine
    <2> QED BY <2>1, <2>2, <2>3, <2>4, <2>5, <1>1
  <1>3. CASE ~IsStarted(n)
    <2>1. Stop(n) = n
      BY <1>3 DEF Stop
    <2>2. ~n.handshake
      BY <1>3 DEF StreamFine, IsStarted, IsOpen
    <2> QED BY <2>1, <2>2, <1>1, <1>3
  <1> QED BY <1>2, <1>3

\* The pipeline and the state are set.
Emptied(n, p) == [n EXCEPT !.pipeline = p, !.state = "Initial"]
LEMMA PipelineFields ==
  ASSUME NEW n \in Net, NEW p \in Seq(Batch)
  PROVE  /\ Emptied(n, p) \in Net
         /\ Emptied(n, p).pipeline = p
         /\ Emptied(n, p).state = "Initial"
         /\ Emptied(n, p).handshake = n.handshake
         /\ Emptied(n, p).idle = n.idle
         /\ Emptied(n, p).closes = n.closes
         /\ Emptied(n, p).asks = n.asks
         /\ Emptied(n, p).as = n.as
         /\ Emptied(n, p).wire = n.wire
         /\ Emptied(n, p).replies = n.replies
         /\ Emptied(n, p).refused = n.refused
  BY DEF Net, Emptied

\* RestartNetwork begins anew with the front of queue q.
LEMMA RestartFine ==
  ASSUME NEW n \in Net, NEW q \in Seq(Batch), Ascending(q), tokens \in Nat,
         StreamFine(n)
  PROVE  LET m == RestartNetwork(n, q) IN
         /\ m \in Net /\ StreamFine(m) /\ Front(m.pipeline, q)
         /\ Moved(n, m) /\ Gone(n, m) /\ ~m.handshake
  <1> DEFINE s == Stop(n)
             r == Emptied(s, <<>>)
             m == FillWritePipeline(r, q)
  <1>1. RestartNetwork(n, q) = m
    BY DEF RestartNetwork, Emptied
  <1>2. /\ s \in Net /\ StreamFine(s) /\ s.asks = n.asks
        /\ ~s.handshake /\ ~IsStarted(s) /\ n.closes <= s.closes
        /\ IsStarted(n) => n.closes < s.closes
    BY StopFine
  <1> HIDE DEF s
  <1>3. <<>> \in Seq(Batch) /\ s \in Net
    BY <1>2, EmptySeq
  <1>4. /\ r \in Net /\ r.pipeline = <<>> /\ r.state = "Initial"
        /\ r.handshake = s.handshake /\ r.idle = s.idle
        /\ r.closes = s.closes /\ r.asks = s.asks /\ r.as = s.as
        /\ r.wire = s.wire /\ r.replies = s.replies
        /\ r.refused = s.refused
    BY <1>3, PipelineFields
  <1> HIDE DEF r
  <1>5. StreamFine(r)
    <2>1. ~IsOpen(s) /\ ~IsOpen(r) /\ ~IsStarted(r)
      BY <1>2, <1>4 DEF IsOpen, IsStarted
    <2> QED BY <2>1, <1>2, <1>4 DEF StreamFine
  <1>6. Front(r.pipeline, q)
    <2>1. Len(<<>>) = 0 /\ Len(q) \in Nat
      BY LenProperties
    <2> QED BY <2>1, <1>4 DEF Front
  <1>7. r \in Net
    BY <1>4
  <1>8. /\ m \in Net /\ StreamFine(m) /\ Front(m.pipeline, q) /\ Moved(r, m)
        /\ SameReplies(r, m) /\ m.closes = r.closes /\ m.as = r.as
    BY <1>5, <1>6, <1>7, FillFine
  <1> HIDE DEF m
  <1>9. r.as = None
    BY <1>4, <1>5 DEF StreamFine, IsOpen
  <1>10. n.closes \in Nat /\ s.closes \in Nat
    BY <1>2, NetFields
  <1>11. Gone(n, m)
    <2>1. n.state = "Starting" => IsStarted(n)
      BY DEF IsStarted
    <2> QED BY <2>1, <1>2, <1>4, <1>8, <1>9 DEF Gone
  <1>12. Moved(n, m)
    BY <1>2, <1>4, <1>8, <1>9, <1>10, <1>11 DEF Moved, Gone
  <1>13. ~m.handshake
    BY <1>2, <1>4, <1>8 DEF SameReplies
  <1> QED BY <1>1, <1>8, <1>11, <1>12, <1>13

\* OnWriteStreamClose after a temporary error keeps the pipeline.
LEMMA RetryFine ==
  ASSUME NEW n \in Net, tokens \in Nat
  PROVE  LET m == RetryAfter(n) IN
         /\ m \in Net /\ StreamFine(m) /\ m.pipeline = n.pipeline
         /\ Moved(n, m) /\ Gone(n, m) /\ ~m.handshake
         /\ n.closes < m.closes
  <1> DEFINE c == Close(n, "Error")
             s == StartIfNeeded(c)
             m == [s EXCEPT !.handshake = FALSE]
  <1>1. RetryAfter(n) = m
    BY DEF RetryAfter
  <1>2. /\ c \in Net /\ c.pipeline = n.pipeline
        /\ c.state = "Error" /\ ~c.idle
        /\ c.closes = n.closes + 1 /\ c.asks = n.asks
        /\ c.as = None /\ c.wire = <<>>
        /\ c.replies = <<>> /\ ~c.refused
    BY CloseFields
  <1> HIDE DEF c
  <1>3. c \in Net
    BY <1>2
  <1>4. /\ s \in Net /\ s.pipeline = c.pipeline /\ s.idle = c.idle
        /\ s.closes = c.closes /\ s.as = c.as /\ s.wire = c.wire
        /\ s.replies = c.replies /\ s.refused = c.refused
        /\ c.pipeline = <<>> => s.state = c.state /\ s.asks = c.asks
        /\ (c.state = "Error" /\ c.pipeline # <<>>) =>
             s.state = "Backoff" /\ s.asks = c.asks
    BY <1>3, StartIfNeededFields
  <1> HIDE DEF s
  <1>5. s \in Net
    BY <1>4
  <1>6. /\ m \in Net /\ m.pipeline = s.pipeline /\ m.state = s.state
        /\ ~m.handshake /\ m.idle = s.idle /\ m.closes = s.closes
        /\ m.asks = s.asks /\ m.as = s.as /\ m.wire = s.wire
        /\ m.replies = s.replies /\ m.refused = s.refused
    BY <1>5, UnshakenFields
  <1> HIDE DEF m
  <1>7. ~IsOpen(m) /\ (IsStarted(m) => m.pipeline # <<>>)
    BY <1>2, <1>4, <1>6 DEF IsOpen, IsStarted
  <1>8. StreamFine(m)
    BY <1>2, <1>4, <1>6, <1>7 DEF StreamFine
  <1>9. n.closes \in Nat
    BY NetFields
  <1>10. m.closes = n.closes + 1 /\ m.asks = n.asks /\ m.as = None
    BY <1>2, <1>4, <1>6
  <1> QED BY <1>1, <1>2, <1>4, <1>6, <1>8, <1>9, <1>10 DEF Moved, Gone

\* OnWriteStreamClose after a refusal goes on with the next batch of queue q.
LEMMA DropFine ==
  ASSUME NEW n \in Net, NEW q \in Seq(Batch), Ascending(q), tokens \in Nat,
         n.pipeline # <<>>, Front(Tail(n.pipeline), q)
  PROVE  LET m == DropFrontAfter(n, q) IN
         /\ m \in Net /\ StreamFine(m) /\ Front(m.pipeline, q)
         /\ Moved(n, m) /\ Gone(n, m) /\ ~m.handshake
  <1> DEFINE c == Close(n, "Error")
             t == Tail(c.pipeline)
             d == Emptied(c, t)
             f == FillWritePipeline(d, q)
             s == StartIfNeeded(f)
             m == [s EXCEPT !.handshake = FALSE]
  <1>1. DropFrontAfter(n, q) = m
    BY DEF DropFrontAfter, Emptied
  <1>2. /\ c \in Net /\ c.pipeline = n.pipeline
        /\ c.state = "Error" /\ ~c.idle
        /\ c.closes = n.closes + 1 /\ c.asks = n.asks
        /\ c.as = None /\ c.wire = <<>>
        /\ c.replies = <<>> /\ ~c.refused
    BY CloseFields
  <1> HIDE DEF c
  <1>3. t \in Seq(Batch) /\ c \in Net /\ Front(t, q)
    BY <1>2, NetFields, HeadTailProperties
  <1> HIDE DEF t
  <1>4. /\ d \in Net /\ d.pipeline = t /\ d.state = "Initial"
        /\ d.handshake = c.handshake /\ d.idle = c.idle
        /\ d.closes = c.closes /\ d.asks = c.asks /\ d.as = c.as
        /\ d.wire = c.wire /\ d.replies = c.replies
        /\ d.refused = c.refused
    BY <1>3, PipelineFields
  <1> HIDE DEF d
  <1>5. d \in Net /\ Front(d.pipeline, q)
    BY <1>3, <1>4
  <1>6. /\ f \in Net /\ Front(f.pipeline, q)
        /\ f.closes = d.closes /\ f.as = d.as
        /\ f.wire = IF IsOpen(d) /\ d.handshake
                    THEN d.wire \o NextBatches(d.pipeline, q) ELSE d.wire
        /\ f.replies = d.replies /\ f.refused = d.refused
        /\ f.idle => d.idle \/ IsOpen(d)
        /\ f.pipeline = <<>> => f.state = d.state /\ f.asks = d.asks
        /\ (d.state = "Initial" /\ f.pipeline # <<>>) =>
             /\ f.state = "Starting"
             /\ f.asks = d.asks \cup {Request(d.closes)}
    BY <1>5, FillFields
  <1> HIDE DEF f
  <1>7. s = f
    BY <1>4, <1>6 DEF StartIfNeeded, ShouldStartWriteStream, IsStarted
  <1>8. f \in Net
    BY <1>6
  <1> HIDE DEF s
  <1>9. /\ m \in Net /\ m.pipeline = f.pipeline /\ m.state = f.state
        /\ ~m.handshake /\ m.idle = f.idle /\ m.closes = f.closes
        /\ m.asks = f.asks /\ m.as = f.as /\ m.wire = f.wire
        /\ m.replies = f.replies /\ m.refused = f.refused
    BY <1>7, <1>8, UnshakenFields
  <1> HIDE DEF m
  <1>10. ~IsOpen(d) /\ ~IsOpen(m) /\ (IsStarted(m) => m.pipeline # <<>>)
    BY <1>4, <1>6, <1>9 DEF IsOpen, IsStarted
  <1>11. StreamFine(m)
    BY <1>2, <1>4, <1>6, <1>9, <1>10 DEF StreamFine
  <1>12. n.closes \in Nat
    BY NetFields
  <1>13. m.closes = n.closes + 1 /\ m.as = None
    BY <1>2, <1>4, <1>6, <1>9
  <1>14. m.pipeline # <<>> =>
           m.state = "Starting" /\ m.asks = n.asks \cup {Request(m.closes)}
    BY <1>2, <1>4, <1>6, <1>9
  <1>15. m.pipeline = <<>> => m.asks = n.asks
    BY <1>2, <1>4, <1>6, <1>9
  <1> QED BY <1>1, <1>6, <1>9, <1>11, <1>12, <1>13, <1>14, <1>15
          DEF Moved, Gone

-----------------------------------------------------------------------------
(* Token requests on their way through the queues *)

\* What is on the main queue and on the worker queue.
MainBlock ==
  [kind : {"notify"}, user : Users] \cup
  [kind : {"token"}, user : Users \cup {None}, tokens : Nat, closes : Nat]
WorkerOp ==
  [kind : {"credential"}, user : Users] \cup
  [kind : {"token"}, user : Users \cup {None}, closes : Nat]

\* The fields of blocks and operations.
LEMMA BlockFields ==
  /\ \A b \in MainBlock :
       /\ b.kind \in {"notify", "token"}
       /\ b.kind = "notify" => b.user \in Users
       /\ b.kind = "token" =>
            b.user \in Users \cup {None} /\ b.tokens \in Nat
            /\ b.closes \in Nat
  /\ \A o \in WorkerOp :
       /\ o.kind \in {"credential", "token"}
       /\ o.kind = "credential" => o.user \in Users
       /\ o.kind = "token" => o.user \in Users \cup {None} /\ o.closes \in Nat
  BY DEF MainBlock, WorkerOp

\* The closes of every request that is on its way.
LEMMA ClosesKnown ==
  ASSUME NEW n \in Net, NEW mn \in Seq(MainBlock), NEW w \in Seq(WorkerOp),
         tokens \in Nat, OneRequest(mn, w, n, tokens)
  PROVE  /\ \A r \in n.asks : r.closes \in Nat /\ r.closes <= n.closes
                              /\ r.tokens \in Nat /\ r.tokens <= tokens
         /\ \A j \in 1..Len(mn) : mn[j].kind = "token" =>
              /\ mn[j].closes \in Nat /\ mn[j].closes <= n.closes
              /\ mn[j].tokens \in Nat /\ mn[j].tokens <= tokens
         /\ \A j \in 1..Len(w) : w[j].kind = "token" =>
              w[j].closes \in Nat /\ w[j].closes <= n.closes
  <1>1. \A r \in n.asks : r \in TokenRequest
    BY NetFields
  <1>2. \A r \in n.asks : r.closes \in Nat /\ r.tokens \in Nat
    BY <1>1 DEF TokenRequest
  <1>3. \A j \in 1..Len(mn) : mn[j] \in MainBlock
    BY ElementOfSeq
  <1>4. \A j \in 1..Len(w) : w[j] \in WorkerOp
    BY ElementOfSeq
  <1>5. \A j \in 1..Len(mn) : mn[j].kind = "token" =>
          mn[j].closes \in Nat /\ mn[j].tokens \in Nat
    BY <1>3, BlockFields
  <1>6. \A j \in 1..Len(w) : w[j].kind = "token" => w[j].closes \in Nat
    BY <1>4, BlockFields
  <1> QED BY <1>2, <1>5, <1>6 DEF OneRequest

\* Every element of v is one of w.
PartOf(v, w) == \A j \in 1..Len(v) : \E i \in 1..Len(w) : v[j] = w[i]

\* Once the old stream is gone, no request is left but a new one of its own.
LEMMA TrackGone ==
  ASSUME NEW n \in Net, NEW m \in Net, NEW mn \in Seq(MainBlock),
         NEW w \in Seq(WorkerOp), NEW v \in Seq(WorkerOp), PartOf(v, w),
         NEW cur, tokens \in Nat, OneRequest(mn, w, n, tokens),
         Moved(n, m), Gone(n, m)
  PROVE  OneRequest(mn, v, m, tokens) /\ TokensOwned(mn, v, m, tokens, cur)
  <1>1. n.closes \in Nat /\ m.closes \in Nat
    BY NetFields
  <1>2. n.closes <= m.closes /\ (n.closes < m.closes \/ n.state # "Starting")
    BY DEF Moved, Gone
  <1>3. /\ \A r \in n.asks : r.closes \in Nat /\ r.closes <= n.closes
                             /\ r.tokens \in Nat /\ r.tokens <= tokens
        /\ \A j \in 1..Len(mn) : mn[j].kind = "token" =>
             /\ mn[j].closes \in Nat /\ mn[j].closes <= n.closes
             /\ mn[j].tokens \in Nat /\ mn[j].tokens <= tokens
        /\ \A j \in 1..Len(w) : w[j].kind = "token" =>
             w[j].closes \in Nat /\ w[j].closes <= n.closes
    BY ClosesKnown
  <1>4. n.state # "Starting" =>
          /\ \A r \in n.asks : r.closes # n.closes
          /\ \A j \in 1..Len(mn) : mn[j].kind = "token" =>
               mn[j].closes # n.closes
          /\ \A j \in 1..Len(w) : w[j].kind = "token" =>
               w[j].closes # n.closes
    BY DEF OneRequest, Asked, InMain, InWorker
  <1>5. \A r \in n.asks : r.closes # m.closes /\ r.closes <= m.closes
    BY <1>1, <1>2, <1>3, <1>4
  <1>6. \A j \in 1..Len(mn) : mn[j].kind = "token" =>
          mn[j].closes # m.closes /\ mn[j].closes <= m.closes
    <2>1. ASSUME NEW j \in 1..Len(mn), mn[j].kind = "token"
          PROVE  mn[j].closes # m.closes /\ mn[j].closes <= m.closes
      <3>1. mn[j].closes \in Nat /\ mn[j].closes <= n.closes
        BY <2>1, <1>3
      <3>2. n.state # "Starting" => mn[j].closes # n.closes
        BY <2>1, <1>4
      <3> DEFINE c == mn[j].closes
                 a == n.closes
                 b == m.closes
      <3>3. /\ a \in Nat /\ b \in Nat /\ c \in Nat /\ c <= a /\ a <= b
            /\ a < b \/ c # a
        BY <3>1, <3>2, <1>1, <1>2
      <3> HIDE DEF a, b, c
      <3>4. c # b /\ c <= b
        BY <3>3
      <3> QED BY <3>4 DEF b, c
    <2> QED BY <2>1
  <1>7. \A j \in 1..Len(w) : w[j].kind = "token" =>
          w[j].closes # m.closes /\ w[j].closes <= m.closes
    BY <1>1, <1>2, <1>3, <1>4
  <1>8. \A j \in 1..Len(v) : v[j].kind = "token" =>
          v[j].closes # m.closes /\ v[j].closes <= m.closes
    BY <1>7 DEF PartOf
  <1>9. InMain(mn, m) = {} /\ InWorker(v, m) = {}
    BY <1>6, <1>8 DEF InMain, InWorker
  <1>10. /\ \A r \in m.asks : r.closes <= m.closes /\ r.tokens <= tokens
         /\ \A r \in m.asks : r.closes = m.closes =>
              r = Request(m.closes) /\ m.state = "Starting"
    <2>1. CASE m.asks = n.asks
      BY <2>1, <1>3, <1>5
    <2>2. CASE m.asks = n.asks \cup {Request(m.closes)}
               /\ m.state = "Starting"
      <3>1. Request(m.closes).closes = m.closes
            /\ Request(m.closes).tokens = tokens
        BY DEF Request
      <3> QED BY <2>2, <3>1, <1>1, <1>3, <1>5
    <2> QED BY <2>1, <2>2 DEF Moved
  <1>11. /\ \A r, s \in Asked(m) : r = s
         /\ Asked(m) # {} => m.state = "Starting"
    BY <1>10 DEF Asked
  <1>12. OneRequest(mn, v, m, tokens)
    BY <1>3, <1>6, <1>8, <1>9, <1>10, <1>11 DEF OneRequest
  <1>13. TokensOwned(mn, v, m, tokens, cur)
    <2>1. Request(m.closes).user = None
      BY DEF Request
    <2> QED BY <2>1, <1>6, <1>8, <1>10 DEF TokensOwned, Gone
  <1> QED BY <1>12, <1>13

\* While the stream and its requests stay, so does what is known of them.
LEMMA TrackStay ==
  ASSUME NEW n, NEW m, NEW mn, NEW w, NEW cur,
         OneRequest(mn, w, n, tokens), TokensOwned(mn, w, n, tokens, cur),
         m.closes = n.closes, m.asks = n.asks, m.as \in {None, n.as},
         n.state = "Starting" => m.state = "Starting"
  PROVE  OneRequest(mn, w, m, tokens) /\ TokensOwned(mn, w, m, tokens, cur)
  <1>1. Asked(m) = Asked(n) /\ InMain(mn, m) = InMain(mn, n)
        /\ InWorker(w, m) = InWorker(w, n)
    BY DEF Asked, InMain, InWorker
  <1>2. OneRequest(mn, w, m, tokens)
    BY <1>1 DEF OneRequest
  <1>3. TokensOwned(mn, w, m, tokens, cur)
    BY DEF TokensOwned
  <1> QED BY <1>2, <1>3

\* Any move of the Net keeps what is known of the requests.
LEMMA TrackMoved ==
  ASSUME NEW n \in Net, NEW m \in Net, NEW mn \in Seq(MainBlock),
         NEW w \in Seq(WorkerOp), NEW cur, tokens \in Nat,
         OneRequest(mn, w, n, tokens), TokensOwned(mn, w, n, tokens, cur),
         StreamFine(n), StreamFine(m), Moved(n, m)
  PROVE  OneRequest(mn, w, m, tokens) /\ TokensOwned(mn, w, m, tokens, cur)
  <1>1. n.closes \in Nat /\ m.closes \in Nat
    BY NetFields
  <1>2. PartOf(w, w)
    BY DEF PartOf
  <1>3. CASE n.closes < m.closes \/ n.state # "Starting"
    <2>1. CASE m.closes = n.closes /\ m.asks = n.asks
      BY <1>3, <2>1, <1>1, TrackStay DEF Moved
    <2>2. CASE ~(m.closes = n.closes /\ m.asks = n.asks)
      <3>1. m.as = None \/ m.as = n.as
        BY DEF Moved
      <3>2. m.state = "Starting" \/ n.closes < m.closes
        BY <2>2, <1>1 DEF Moved
      <3> DEFINE k == [m EXCEPT !.as = None]
      <3>3. /\ k \in Net /\ k.as = None /\ k.closes = m.closes
            /\ k.asks = m.asks /\ k.state = m.state
        BY DEF Net
      <3> HIDE DEF k
      <3>4. k \in Net /\ Moved(n, k) /\ Gone(n, k)
        BY <3>3, <1>3 DEF Moved, Gone
      <3>5. OneRequest(mn, w, k, tokens) /\ TokensOwned(mn, w, k, tokens, cur)
        BY <3>4, <1>2, TrackGone
      <3>6. m.as \in {None, cur}
        BY <3>1 DEF TokensOwned
      <3>7. OneRequest(mn, w, m, tokens)
        BY <3>5, <3>3 DEF OneRequest, Asked, InMain, InWorker
      <3>8. TokensOwned(mn, w, m, tokens, cur)
        BY <3>5, <3>6, <3>3 DEF TokensOwned
      <3> QED BY <3>7, <3>8
    <2> QED BY <2>1, <2>2
  <1>4. CASE ~(n.closes < m.closes \/ n.state # "Starting")
    BY <1>4, <1>1, TrackStay DEF Moved
  <1> QED BY <1>3, <1>4

\* UpdateCurrentUser: the news of u is the last.
LEMMA NewsQueued ==
  ASSUME NEW n \in Net, NEW mn \in Seq(MainBlock), NEW w \in Seq(WorkerOp),
         NEW cur, NEW auth, NEW u, NEW b \in MainBlock,
         b.kind = "notify", b.user = u,
         OneRequest(mn, w, n, tokens), TokensOwned(mn, w, n, tokens, cur),
         Told(mn, w, cur, auth)
  PROVE  /\ OneRequest(Append(mn, b), w, n, tokens)
         /\ TokensOwned(Append(mn, b), w, n, tokens, cur)
         /\ Told(Append(mn, b), w, cur, u)
  <1> DEFINE mb == Append(mn, b)
  <1>1. /\ Len(mn) \in Nat /\ Len(mb) = Len(mn) + 1
        /\ \A i \in 1..Len(mn) : mb[i] = mn[i]
        /\ mb[Len(mn) + 1] = b
    BY AppendProperties, LenProperties
  <1>2. /\ \A k \in 1..(Len(mn) + 1) : NewsInMain(mb, k) <=> NewsInMain(mn, k)
        /\ NewsInMain(mb, Len(mb) + 1)
    BY <1>1, AppendProperties DEF NewsInMain
  <1> HIDE DEF mb
  <1>3. \A j \in 1..Len(mb) :
          mb[j].kind = "token" => j \in 1..Len(mn) /\ mb[j] = mn[j]
    BY <1>1
  <1>4. InMain(mb, n) = InMain(mn, n)
    BY <1>1, <1>3 DEF InMain
  <1>5. OneRequest(mb, w, n, tokens)
    BY <1>3, <1>4 DEF OneRequest
  <1>6. TokensOwned(mb, w, n, tokens, cur)
    <2>1. NewsIn(mb, w)
      BY <1>2 DEF NewsIn
    <2>2. ASSUME NEW j \in 1..Len(mb), mb[j].kind = "token",
                 mb[j].closes = n.closes, mb[j].tokens = tokens
          PROVE  \/ mb[j].user \in {None, cur}
                 \/ NewsInMain(mb, j)
                 \/ NewsInWorker(w, Len(w) + 1)
      <3>1. j \in 1..Len(mn) /\ mb[j] = mn[j]
        BY <2>2, <1>3
      <3>2. j \in 1..(Len(mn) + 1)
        BY <3>1, <1>1
      <3> QED BY <2>2, <3>1, <3>2, <1>2 DEF TokensOwned
    <2> QED BY <2>1, <2>2 DEF TokensOwned
  <1>7. Told(mb, w, cur, u)
    <2>1. NewsIn(mb, w)
      BY <1>2 DEF NewsIn
    <2>2. ASSUME NEW j \in 1..Len(mb), mb[j].kind = "notify",
                 \A i \in 1..Len(mb) : j < i => mb[i].kind # "notify"
          PROVE  mb[j].user = u
      <3>1. Len(mn) + 1 \in 1..Len(mb)
        BY <1>1
      <3>2. ~(j < Len(mn) + 1)
        BY <2>2, <3>1, <1>1
      <3>3. j = Len(mn) + 1
        BY <3>2, <1>1
      <3> QED BY <3>3, <1>1
    <2> QED BY <2>1, <2>2, <1>2 DEF Told
  <1> QED BY <1>5, <1>6, <1>7 DEF mb

\* ReadCurrentUser: the request gets the user of FirebaseAuth.
LEMMA RequestRead ==
  ASSUME NEW n \in Net, NEW m \in Net, NEW mn \in Seq(MainBlock),
         NEW w \in Seq(WorkerOp), NEW cur, NEW auth, tokens \in Nat,
         OneRequest(mn, w, n, tokens), TokensOwned(mn, w, n, tokens, cur),
         Told(mn, w, cur, auth),
         NEW r \in n.asks, NEW s,
         s.closes = r.closes, s.tokens = r.tokens, s.user = auth,
         m.asks = (n.asks \ {r}) \cup {s},
         m.closes = n.closes, m.as = n.as, m.state = n.state
  PROVE  OneRequest(mn, w, m, tokens) /\ TokensOwned(mn, w, m, tokens, cur)
  <1>1. InMain(mn, m) = InMain(mn, n) /\ InWorker(w, m) = InWorker(w, n)
    BY DEF InMain, InWorker
  <1>2. \A x \in m.asks : x = s \/ (x \in n.asks /\ x # r)
    OBVIOUS
  <1>3. \A x \in m.asks : x.closes <= m.closes /\ x.tokens <= tokens
    BY <1>2 DEF OneRequest
  <1>4. Asked(m) # {} => Asked(n) # {}
    BY <1>2 DEF Asked
  <1>5. \A x, y \in Asked(m) : x = y
    <2>1. \A x, y \in Asked(n) : x = y
      BY DEF OneRequest
    <2>2. ASSUME NEW x \in Asked(m), NEW y \in Asked(m)
          PROVE  x = y
      <3>1. x.closes = n.closes /\ y.closes = n.closes
            /\ x \in m.asks /\ y \in m.asks
        BY DEF Asked
      <3>2. CASE x = s /\ y = s
        BY <3>2
      <3>3. CASE x = s /\ y # s
        BY <3>1, <3>3, <1>2, <2>1 DEF Asked
      <3>4. CASE x # s /\ y = s
        BY <3>1, <3>4, <1>2, <2>1 DEF Asked
      <3>5. CASE x # s /\ y # s
        BY <3>1, <3>5, <1>2, <2>1 DEF Asked
      <3> QED BY <3>2, <3>3, <3>4, <3>5
    <2> QED BY <2>2
  <1>6. OneRequest(mn, w, m, tokens)
    BY <1>1, <1>3, <1>4, <1>5 DEF OneRequest
  <1>7. s.user \in {None, cur} \/ NewsIn(mn, w)
    BY DEF Told
  <1>8. TokensOwned(mn, w, m, tokens, cur)
    BY <1>2, <1>7 DEF TokensOwned
  <1> QED BY <1>6, <1>8

\* DeliverToken: the request moves to the main queue.
LEMMA TokenQueued ==
  ASSUME NEW n \in Net, NEW m \in Net, NEW mn \in Seq(MainBlock),
         NEW w \in Seq(WorkerOp), NEW cur, NEW auth, tokens \in Nat,
         OneRequest(mn, w, n, tokens), TokensOwned(mn, w, n, tokens, cur),
         Told(mn, w, cur, auth),
         NEW r \in n.asks, NEW b \in MainBlock, b.kind = "token",
         b.closes = r.closes, b.tokens = r.tokens, b.user \in {None, r.user},
         m.asks = n.asks \ {r},
         m.closes = n.closes, m.as = n.as, m.state = n.state
  PROVE  /\ OneRequest(Append(mn, b), w, m, tokens)
         /\ TokensOwned(Append(mn, b), w, m, tokens, cur)
         /\ Told(Append(mn, b), w, cur, auth)
  <1> DEFINE mb == Append(mn, b)
  <1>1. /\ Len(mn) \in Nat /\ Len(mb) = Len(mn) + 1
        /\ \A i \in 1..Len(mn) : mb[i] = mn[i]
        /\ mb[Len(mn) + 1] = b
    BY AppendProperties, LenProperties
  <1> HIDE DEF mb
  <1>2. \A k \in 1..(Len(mn) + 1) : NewsInMain(mb, k) <=> NewsInMain(mn, k)
    BY <1>1 DEF NewsInMain
  <1>3. NewsInMain(mb, Len(mb) + 1) <=> NewsInMain(mn, Len(mn) + 1)
    BY <1>1 DEF NewsInMain
  <1>4. \A j \in 1..Len(mb) :
          \/ j \in 1..Len(mn) /\ mb[j] = mn[j]
          \/ j = Len(mn) + 1 /\ mb[j] = b
    BY <1>1
  <1>5. InWorker(w, m) = InWorker(w, n)
    BY DEF InWorker
  <1>6. \A x \in m.asks : x \in n.asks /\ x # r
    OBVIOUS
  <1>7. OneRequest(mb, w, m, tokens)
    <2>1. CASE r.closes = n.closes
      <3>1. r \in Asked(n)
        BY <2>1 DEF Asked
      <3>2. Asked(m) = {}
        BY <3>1, <1>6 DEF OneRequest, Asked
      <3>3. InMain(mn, n) = {} /\ InWorker(w, n) = {}
            /\ n.state = "Starting"
        BY <3>1 DEF OneRequest
      <3>4. \A j \in InMain(mb, m) : j = Len(mn) + 1
        BY <3>3, <1>4 DEF InMain
      <3>5. /\ \A j \in 1..Len(mb) : mb[j].kind = "token" =>
                 mb[j].closes <= n.closes /\ mb[j].tokens <= tokens
        BY <1>4 DEF OneRequest
      <3> QED BY <3>2, <3>3, <3>4, <3>5, <1>5, <1>6 DEF OneRequest
    <2>2. CASE r.closes # n.closes
      <3>1. InMain(mb, m) = InMain(mn, n)
        BY <2>2, <1>1, <1>4 DEF InMain
      <3>2. Asked(m) = Asked(n)
        BY <2>2, <1>6 DEF Asked
      <3>3. /\ \A j \in 1..Len(mb) : mb[j].kind = "token" =>
                 mb[j].closes <= n.closes /\ mb[j].tokens <= tokens
        BY <1>4 DEF OneRequest
      <3> QED BY <3>1, <3>2, <3>3, <1>5, <1>6 DEF OneRequest
    <2> QED BY <2>1, <2>2
  <1>8. TokensOwned(mb, w, m, tokens, cur)
    <2>1. NewsIn(mb, w) <=> NewsIn(mn, w)
      BY <1>3 DEF NewsIn
    <2>2. ASSUME NEW j \in 1..Len(mb), mb[j].kind = "token",
                 mb[j].closes = n.closes, mb[j].tokens = tokens
          PROVE  \/ mb[j].user \in {None, cur}
                 \/ NewsInMain(mb, j)
                 \/ NewsInWorker(w, Len(w) + 1)
      <3>1. CASE j \in 1..Len(mn) /\ mb[j] = mn[j]
        <4>1. j \in 1..(Len(mn) + 1)
          BY <3>1, <1>1
        <4> QED BY <2>2, <3>1, <4>1, <1>2 DEF TokensOwned
      <3>2. CASE j = Len(mn) + 1 /\ mb[j] = b
        <4>1. r.user \in {None, cur} \/ NewsIn(mn, w)
          BY <2>2, <3>2 DEF TokensOwned
        <4>2. Len(mn) + 1 \in 1..(Len(mn) + 1)
          BY <1>1
        <4> QED BY <3>2, <4>1, <4>2, <1>2 DEF NewsIn
      <3> QED BY <3>1, <3>2, <1>4
    <2> QED BY <2>1, <2>2, <1>6 DEF TokensOwned
  <1>9. Told(mb, w, cur, auth)
    <2>1. NewsIn(mb, w) <=> NewsIn(mn, w)
      BY <1>3 DEF NewsIn
    <2>2. ASSUME NEW j \in 1..Len(mb), mb[j].kind = "notify",
                 \A i \in 1..Len(mb) : j < i => mb[i].kind # "notify"
          PROVE  mb[j].user = auth
      <3>1. j \in 1..Len(mn) /\ mb[j] = mn[j]
        BY <2>2, <1>4
      <3>2. \A i \in 1..Len(mn) : j < i => mn[i].kind # "notify"
        BY <2>2, <1>1
      <3> QED BY <2>2, <3>1, <3>2 DEF Told
    <2> QED BY <2>1, <2>2, <1>3 DEF Told
  <1> QED BY <1>7, <1>8, <1>9 DEF mb

\* The main queue without its first block.
LEMMA MainShifts ==
  ASSUME NEW mn \in Seq(MainBlock), mn # <<>>
  PROVE  /\ Tail(mn) \in Seq(MainBlock) /\ Head(mn) \in MainBlock
         /\ Len(mn) \in Nat \ {0} /\ Len(Tail(mn)) = Len(mn) - 1
         /\ Head(mn) = mn[1]
         /\ \A i \in 1..Len(Tail(mn)) :
              i + 1 \in 1..Len(mn) /\ Tail(mn)[i] = mn[i + 1]
         /\ \A i \in 1..Len(mn) : i # 1 =>
              i - 1 \in 1..Len(Tail(mn)) /\ Tail(mn)[i - 1] = mn[i]
         /\ \A k \in Nat : NewsInMain(Tail(mn), k) => NewsInMain(mn, k + 1)
         /\ mn[1].kind # "notify" => \A k \in Nat :
              NewsInMain(mn, k + 1) => NewsInMain(Tail(mn), k)
  <1> DEFINE tl == Tail(mn)
  <1>1. Len(mn) \in Nat /\ Len(mn) > 0
    BY LenZero
  <1>2. /\ tl \in Seq(MainBlock) /\ Head(mn) \in MainBlock
        /\ Len(tl) = Len(mn) - 1
        /\ \A i \in 1..Len(tl) : tl[i] = mn[i + 1]
    BY HeadTailProperties
  <1>3. Head(mn) = mn[1]
    BY <1>1
  <1> HIDE DEF tl
  <1>4. \A i \in 1..Len(tl) : i + 1 \in 1..Len(mn) /\ tl[i] = mn[i + 1]
    BY <1>1, <1>2
  <1>5. \A i \in 1..Len(mn) : i # 1 =>
          i - 1 \in 1..Len(tl) /\ tl[i - 1] = mn[i]
    BY <1>1, <1>2
  <1>6. ASSUME NEW k \in Nat, NewsInMain(tl, k)
        PROVE  NewsInMain(mn, k + 1)
    <2>1. PICK i \in 1..Len(tl) : i < k /\ tl[i].kind = "notify"
      BY <1>6 DEF NewsInMain
    <2>2. i + 1 \in 1..Len(mn) /\ i + 1 < k + 1
          /\ mn[i + 1].kind = "notify"
      BY <2>1, <1>1, <1>4
    <2> QED BY <2>2 DEF NewsInMain
  <1>7. ASSUME mn[1].kind # "notify", NEW k \in Nat, NewsInMain(mn, k + 1)
        PROVE  NewsInMain(tl, k)
    <2>1. PICK i \in 1..Len(mn) : i < k + 1 /\ mn[i].kind = "notify"
      BY <1>7 DEF NewsInMain
    <2>2. i - 1 \in 1..Len(tl) /\ i - 1 < k /\ tl[i - 1].kind = "notify"
      BY <2>1, <1>1, <1>5, <1>7
    <2> QED BY <2>2 DEF NewsInMain
  <1> QED BY <1>1, <1>2, <1>3, <1>4, <1>5, <1>6, <1>7 DEF tl

\* The worker queue without its first operation.
LEMMA WorkerShifts ==
  ASSUME NEW w \in Seq(WorkerOp), w # <<>>
  PROVE  /\ Tail(w) \in Seq(WorkerOp) /\ Head(w) \in WorkerOp
         /\ Len(w) \in Nat \ {0} /\ Len(Tail(w)) = Len(w) - 1
         /\ Head(w) = w[1]
         /\ \A i \in 1..Len(Tail(w)) :
              i + 1 \in 1..Len(w) /\ Tail(w)[i] = w[i + 1]
         /\ \A i \in 1..Len(w) : i # 1 =>
              i - 1 \in 1..Len(Tail(w)) /\ Tail(w)[i - 1] = w[i]
         /\ \A k \in Nat : NewsInWorker(Tail(w), k) => NewsInWorker(w, k + 1)
         /\ w[1].kind # "credential" => \A k \in Nat :
              NewsInWorker(w, k + 1) => NewsInWorker(Tail(w), k)
  <1> DEFINE tl == Tail(w)
  <1>1. Len(w) \in Nat /\ Len(w) > 0
    BY LenZero
  <1>2. /\ tl \in Seq(WorkerOp) /\ Head(w) \in WorkerOp
        /\ Len(tl) = Len(w) - 1
        /\ \A i \in 1..Len(tl) : tl[i] = w[i + 1]
    BY HeadTailProperties
  <1>3. Head(w) = w[1]
    BY <1>1
  <1> HIDE DEF tl
  <1>4. \A i \in 1..Len(tl) : i + 1 \in 1..Len(w) /\ tl[i] = w[i + 1]
    BY <1>1, <1>2
  <1>5. \A i \in 1..Len(w) : i # 1 =>
          i - 1 \in 1..Len(tl) /\ tl[i - 1] = w[i]
    BY <1>1, <1>2
  <1>6. ASSUME NEW k \in Nat, NewsInWorker(tl, k)
        PROVE  NewsInWorker(w, k + 1)
    <2>1. PICK i \in 1..Len(tl) : i < k /\ tl[i].kind = "credential"
      BY <1>6 DEF NewsInWorker
    <2>2. i + 1 \in 1..Len(w) /\ i + 1 < k + 1
          /\ w[i + 1].kind = "credential"
      BY <2>1, <1>1, <1>4
    <2> QED BY <2>2 DEF NewsInWorker
  <1>7. ASSUME w[1].kind # "credential", NEW k \in Nat,
               NewsInWorker(w, k + 1)
        PROVE  NewsInWorker(tl, k)
    <2>1. PICK i \in 1..Len(w) : i < k + 1 /\ w[i].kind = "credential"
      BY <1>7 DEF NewsInWorker
    <2>2. i - 1 \in 1..Len(tl) /\ i - 1 < k /\ tl[i - 1].kind = "credential"
      BY <2>1, <1>1, <1>5, <1>7
    <2> QED BY <2>2 DEF NewsInWorker
  <1> QED BY <1>1, <1>2, <1>3, <1>4, <1>5, <1>6, <1>7 DEF tl

\* RunMain with a notification: older tokens are out of date now.
LEMMA NewsRun ==
  ASSUME NEW n \in Net, NEW mn \in Seq(MainBlock), NEW w \in Seq(WorkerOp),
         NEW cur, NEW auth, tokens \in Nat,
         OneRequest(mn, w, n, tokens), TokensOwned(mn, w, n, tokens, cur),
         Told(mn, w, cur, auth),
         mn # <<>>, Head(mn).kind = "notify",
         NEW o \in WorkerOp, o.kind = "credential", o.user = Head(mn).user
  PROVE  /\ OneRequest(Tail(mn), Append(w, o), n, tokens + 1)
         /\ TokensOwned(Tail(mn), Append(w, o), n, tokens + 1, cur)
         /\ Told(Tail(mn), Append(w, o), cur, auth)
  <1> DEFINE tl == Tail(mn)
             wo == Append(w, o)
  <1>1. /\ Len(mn) \in Nat \ {0} /\ Len(tl) = Len(mn) - 1
        /\ Head(mn) = mn[1]
        /\ \A i \in 1..Len(tl) : i + 1 \in 1..Len(mn) /\ tl[i] = mn[i + 1]
        /\ \A i \in 1..Len(mn) : i # 1 =>
             i - 1 \in 1..Len(tl) /\ tl[i - 1] = mn[i]
        /\ \A k \in Nat : NewsInMain(tl, k) => NewsInMain(mn, k + 1)
    BY MainShifts
  <1>2. /\ Len(w) \in Nat /\ Len(wo) = Len(w) + 1
        /\ \A i \in 1..Len(w) : wo[i] = w[i]
        /\ wo[Len(w) + 1] = o
    BY AppendProperties, LenProperties
  <1> HIDE DEF tl, wo
  <1>3. /\ \A r \in n.asks : r.closes \in Nat /\ r.closes <= n.closes
                             /\ r.tokens \in Nat /\ r.tokens <= tokens
        /\ \A j \in 1..Len(mn) : mn[j].kind = "token" =>
             /\ mn[j].closes \in Nat /\ mn[j].closes <= n.closes
             /\ mn[j].tokens \in Nat /\ mn[j].tokens <= tokens
        /\ \A j \in 1..Len(w) : w[j].kind = "token" =>
             w[j].closes \in Nat /\ w[j].closes <= n.closes
    BY ClosesKnown
  <1>4. \A j \in 1..Len(tl) : tl[j].kind = "token" =>
          /\ tl[j].closes <= n.closes
          /\ tl[j].tokens <= tokens + 1 /\ tl[j].tokens # tokens + 1
    <2>1. ASSUME NEW j \in 1..Len(tl), tl[j].kind = "token"
          PROVE  /\ tl[j].closes <= n.closes
                 /\ tl[j].tokens <= tokens + 1 /\ tl[j].tokens # tokens + 1
      <3>1. tl[j].closes <= n.closes /\ tl[j].tokens \in Nat
            /\ tl[j].tokens <= tokens
        BY <2>1, <1>1, <1>3
      <3> QED BY <3>1
    <2> QED BY <2>1
  <1>5. \A j \in 1..Len(wo) : wo[j].kind = "token" =>
          j \in 1..Len(w) /\ wo[j] = w[j]
    BY <1>2
  <1>6. InWorker(wo, n) = InWorker(w, n)
    BY <1>2, <1>5 DEF InWorker
  <1>7. \A j \in InMain(tl, n) : j \in 1..Len(tl) /\ j + 1 \in InMain(mn, n)
    BY <1>1 DEF InMain
  <1>8. /\ \A i, j \in InMain(tl, n) : i = j
        /\ InMain(tl, n) # {} => InMain(mn, n) # {}
    <2>1. \A i, j \in InMain(mn, n) : i = j
      BY DEF OneRequest
    <2>2. ASSUME NEW i \in InMain(tl, n), NEW j \in InMain(tl, n)
          PROVE  i = j
      <3>1. i + 1 = j + 1 /\ i \in Nat /\ j \in Nat
        BY <2>1, <1>1, <1>7
      <3> QED BY <3>1
    <2> QED BY <2>2, <1>7
  <1>9. \A r \in n.asks : r.closes <= n.closes /\ r.tokens <= tokens + 1
                          /\ r.tokens # tokens + 1
    BY <1>3
  <1>10. OneRequest(tl, wo, n, tokens + 1)
    BY <1>3, <1>4, <1>5, <1>6, <1>8, <1>9 DEF OneRequest
  <1>11. NewsInWorker(wo, Len(wo) + 1)
    <2>1. Len(w) + 1 \in 1..Len(wo) /\ Len(w) + 1 < Len(wo) + 1
      BY <1>2
    <2> QED BY <2>1, <1>2 DEF NewsInWorker
  <1>12. TokensOwned(tl, wo, n, tokens + 1, cur)
    <2>1. ASSUME NEW j \in 1..Len(wo), wo[j].kind = "token",
                 wo[j].closes = n.closes
          PROVE  wo[j].user \in {None, cur} \/ NewsInWorker(wo, j)
      <3>1. j \in 1..Len(w) /\ wo[j] = w[j]
        BY <2>1, <1>5
      <3>2. w[j].user \in {None, cur} \/ NewsInWorker(w, j)
        BY <2>1, <3>1 DEF TokensOwned
      <3>3. NewsInWorker(w, j) => NewsInWorker(wo, j)
        BY <3>1, <1>2 DEF NewsInWorker
      <3> QED BY <3>1, <3>2, <3>3
    <2> QED BY <2>1, <1>4, <1>9 DEF TokensOwned
  <1>13. Told(tl, wo, cur, auth)
    <2>1. NewsIn(tl, wo)
      BY <1>11 DEF NewsIn
    <2>2. ASSUME NEW j \in 1..Len(tl), tl[j].kind = "notify",
                 \A i \in 1..Len(tl) : j < i => tl[i].kind # "notify"
          PROVE  tl[j].user = auth
      <3>1. j + 1 \in 1..Len(mn) /\ tl[j] = mn[j + 1]
        BY <1>1
      <3>2. ASSUME NEW i \in 1..Len(mn), j + 1 < i
            PROVE  mn[i].kind # "notify"
        <4>1. i - 1 \in 1..Len(tl) /\ tl[i - 1] = mn[i] /\ j < i - 1
          BY <3>1, <3>2, <1>1
        <4> QED BY <4>1, <2>2
      <3> QED BY <2>2, <3>1, <3>2 DEF Told
    <2>3. ASSUME NEW j \in 1..Len(wo), wo[j].kind = "credential",
                 \A i \in 1..Len(wo) : j < i => wo[i].kind # "credential",
                 ~NewsInMain(tl, Len(tl) + 1)
          PROVE  wo[j].user = auth
      <3>1. j = Len(w) + 1
        <4>1. Len(w) + 1 \in 1..Len(wo)
          BY <1>2
        <4>2. ~(j < Len(w) + 1)
          BY <2>3, <4>1, <1>2
        <4> QED BY <4>2, <1>2
      <3>2. wo[j].user = mn[1].user
        BY <3>1, <1>1, <1>2
      <3>3. ASSUME NEW i \in 1..Len(mn), 1 < i
            PROVE  mn[i].kind # "notify"
        <4>1. i - 1 \in 1..Len(tl) /\ tl[i - 1] = mn[i]
              /\ i - 1 < Len(tl) + 1
          BY <3>3, <1>1
        <4> QED BY <4>1, <2>3 DEF NewsInMain
      <3>4. 1 \in 1..Len(mn) /\ mn[1].kind = "notify"
        BY <1>1
      <3> QED BY <3>2, <3>3, <3>4 DEF Told
    <2> QED BY <2>1, <2>2, <2>3 DEF Told
  <1> QED BY <1>10, <1>12, <1>13 DEF tl, wo

\* When a token leaves the main queue, the news in it stay what they are.
LEMMA ToldWithoutToken ==
  ASSUME NEW mn \in Seq(MainBlock), NEW w \in Seq(WorkerOp),
         NEW cur, NEW auth, Told(mn, w, cur, auth),
         mn # <<>>, Head(mn).kind = "token"
  PROVE  /\ Told(Tail(mn), w, cur, auth)
         /\ NewsIn(mn, w) => NewsIn(Tail(mn), w)
  <1> DEFINE tl == Tail(mn)
  <1>1. /\ Len(mn) \in Nat \ {0} /\ Len(tl) = Len(mn) - 1
        /\ Head(mn) = mn[1]
        /\ \A i \in 1..Len(tl) : i + 1 \in 1..Len(mn) /\ tl[i] = mn[i + 1]
        /\ \A i \in 1..Len(mn) : i # 1 =>
             i - 1 \in 1..Len(tl) /\ tl[i - 1] = mn[i]
        /\ \A k \in Nat : NewsInMain(tl, k) => NewsInMain(mn, k + 1)
        /\ mn[1].kind # "notify" =>
             \A k \in Nat : NewsInMain(mn, k + 1) => NewsInMain(tl, k)
    BY MainShifts
  <1> HIDE DEF tl
  <1>2. mn[1].kind # "notify" /\ Len(tl) + 1 = Len(mn) /\ Len(mn) \in Nat
    BY <1>1
  <1>3. NewsInMain(mn, Len(mn) + 1) => NewsInMain(tl, Len(tl) + 1)
    BY <1>1, <1>2
  <1>4. NewsIn(mn, w) => NewsIn(tl, w)
    BY <1>3 DEF NewsIn
  <1>5. ASSUME NEW j \in 1..Len(tl), tl[j].kind = "notify",
               \A i \in 1..Len(tl) : j < i => tl[i].kind # "notify"
        PROVE  tl[j].user = auth
    <2>1. j + 1 \in 1..Len(mn) /\ tl[j] = mn[j + 1]
      BY <1>1
    <2>2. ASSUME NEW i \in 1..Len(mn), j + 1 < i
          PROVE  mn[i].kind # "notify"
      <3>1. i - 1 \in 1..Len(tl) /\ tl[i - 1] = mn[i] /\ j < i - 1
        BY <2>1, <2>2, <1>1
      <3> QED BY <3>1, <1>5
    <2> QED BY <2>1, <2>2, <1>5 DEF Told
  <1>6. Told(tl, w, cur, auth)
    BY <1>3, <1>4, <1>5 DEF Told
  <1> QED BY <1>4, <1>6 DEF tl

\* The requests in a main queue that loses a token.
LEMMA MainWithoutToken ==
  ASSUME NEW n \in Net, NEW mn \in Seq(MainBlock), NEW w \in Seq(WorkerOp),
         NEW cur, tokens \in Nat,
         OneRequest(mn, w, n, tokens), TokensOwned(mn, w, n, tokens, cur),
         mn # <<>>, Head(mn).kind = "token"
  PROVE  /\ \A j \in 1..Len(Tail(mn)) : Tail(mn)[j].kind = "token" =>
              /\ Tail(mn)[j].closes <= n.closes
              /\ Tail(mn)[j].tokens <= tokens
         /\ \A i, j \in InMain(Tail(mn), n) : i = j
         /\ InMain(Tail(mn), n) # {} => InMain(mn, n) # {}
         /\ Head(mn).closes = n.closes =>
              1 \in InMain(mn, n) /\ InMain(Tail(mn), n) = {}
         /\ \A j \in 1..Len(Tail(mn)) :
              (/\ Tail(mn)[j].kind = "token"
               /\ Tail(mn)[j].closes = n.closes
               /\ Tail(mn)[j].tokens = tokens)
              => \/ Tail(mn)[j].user \in {None, cur}
                 \/ NewsInMain(Tail(mn), j)
                 \/ NewsInWorker(w, Len(w) + 1)
  <1> DEFINE tl == Tail(mn)
  <1>1. /\ Len(mn) \in Nat \ {0} /\ Len(tl) = Len(mn) - 1
        /\ Head(mn) = mn[1]
        /\ \A i \in 1..Len(tl) : i + 1 \in 1..Len(mn) /\ tl[i] = mn[i + 1]
        /\ \A k \in Nat : NewsInMain(tl, k) => NewsInMain(mn, k + 1)
        /\ mn[1].kind # "notify" =>
             \A k \in Nat : NewsInMain(mn, k + 1) => NewsInMain(tl, k)
    BY MainShifts
  <1> HIDE DEF tl
  <1>2. \A i, j \in InMain(mn, n) : i = j
    BY DEF OneRequest
  <1>3. \A j \in InMain(tl, n) : j \in 1..Len(tl) /\ j + 1 \in InMain(mn, n)
    BY <1>1 DEF InMain
  <1>4. ASSUME NEW i \in InMain(tl, n), NEW j \in InMain(tl, n)
        PROVE  i = j
    <2>1. i + 1 = j + 1 /\ i \in Nat /\ j \in Nat
      BY <1>1, <1>2, <1>3
    <2> QED BY <2>1
  <1>5. ASSUME Head(mn).closes = n.closes
        PROVE  1 \in InMain(mn, n) /\ InMain(tl, n) = {}
    <2>1. 1 \in InMain(mn, n)
      BY <1>1, <1>5 DEF InMain
    <2>2. ASSUME NEW j \in InMain(tl, n) PROVE FALSE
      <3>1. j + 1 = 1 /\ j \in 1..Len(tl)
        BY <2>1, <1>2, <1>3
      <3> QED BY <3>1, <1>1
    <2> QED BY <2>1, <2>2
  <1>6. \A j \in 1..Len(tl) : tl[j].kind = "token" =>
          tl[j].closes <= n.closes /\ tl[j].tokens <= tokens
    BY <1>1 DEF OneRequest
  <1>7. ASSUME NEW j \in 1..Len(tl), tl[j].kind = "token",
               tl[j].closes = n.closes, tl[j].tokens = tokens
        PROVE  \/ tl[j].user \in {None, cur}
               \/ NewsInMain(tl, j)
               \/ NewsInWorker(w, Len(w) + 1)
    <2>1. j + 1 \in 1..Len(mn) /\ tl[j] = mn[j + 1] /\ j \in Nat
          /\ mn[1].kind # "notify"
      BY <1>1
    <2>2. \/ mn[j + 1].user \in {None, cur}
          \/ NewsInMain(mn, j + 1)
          \/ NewsInWorker(w, Len(w) + 1)
      BY <2>1, <1>7 DEF TokensOwned
    <2> QED BY <2>1, <2>2, <1>1
  <1> QED BY <1>3, <1>4, <1>5, <1>6, <1>7 DEF tl

\* RunMain with a token that is still current: it moves to the worker queue.
LEMMA TokenRun ==
  ASSUME NEW n \in Net, NEW mn \in Seq(MainBlock), NEW w \in Seq(WorkerOp),
         NEW cur, NEW auth, tokens \in Nat,
         OneRequest(mn, w, n, tokens), TokensOwned(mn, w, n, tokens, cur),
         Told(mn, w, cur, auth),
         mn # <<>>, Head(mn).kind = "token", Head(mn).tokens = tokens,
         NEW o \in WorkerOp, o.kind = "token", o.user = Head(mn).user,
         o.closes = Head(mn).closes
  PROVE  /\ OneRequest(Tail(mn), Append(w, o), n, tokens)
         /\ TokensOwned(Tail(mn), Append(w, o), n, tokens, cur)
         /\ Told(Tail(mn), Append(w, o), cur, auth)
  <1> DEFINE tl == Tail(mn)
             wo == Append(w, o)
  <1>1. /\ Told(tl, w, cur, auth)
        /\ NewsIn(mn, w) => NewsIn(tl, w)
    BY ToldWithoutToken
  <1>2. /\ \A j \in 1..Len(tl) : tl[j].kind = "token" =>
             tl[j].closes <= n.closes /\ tl[j].tokens <= tokens
        /\ \A i, j \in InMain(tl, n) : i = j
        /\ InMain(tl, n) # {} => InMain(mn, n) # {}
        /\ Head(mn).closes = n.closes =>
             1 \in InMain(mn, n) /\ InMain(tl, n) = {}
        /\ \A j \in 1..Len(tl) :
             (/\ tl[j].kind = "token" /\ tl[j].closes = n.closes
              /\ tl[j].tokens = tokens)
             => \/ tl[j].user \in {None, cur}
                \/ NewsInMain(tl, j)
                \/ NewsInWorker(w, Len(w) + 1)
    BY MainWithoutToken
  <1>3. /\ Len(w) \in Nat /\ Len(wo) = Len(w) + 1
        /\ \A i \in 1..Len(w) : wo[i] = w[i]
        /\ wo[Len(w) + 1] = o
    BY AppendProperties, LenProperties
  <1>4. Len(mn) \in Nat \ {0} /\ Head(mn) = mn[1]
    BY MainShifts
  <1> HIDE DEF tl, wo
  <1>5. \A j \in 1..Len(wo) :
          \/ j \in 1..Len(w) /\ wo[j] = w[j]
          \/ j = Len(w) + 1 /\ wo[j] = o
    BY <1>3
  <1>6. ASSUME NEW k \in 1..(Len(w) + 1)
        PROVE  NewsInWorker(w, k) => NewsInWorker(wo, k)
    <2>1. \A i \in 1..Len(w) : i \in 1..Len(wo) /\ wo[i] = w[i]
      BY <1>3
    <2> QED BY <2>1 DEF NewsInWorker
  <1>7. NewsInWorker(wo, Len(wo) + 1) <=> NewsInWorker(w, Len(w) + 1)
    <2>1. \A i \in 1..Len(w) : /\ i \in 1..Len(wo) /\ wo[i] = w[i]
                              /\ i < Len(wo) + 1 /\ i < Len(w) + 1
      BY <1>3
    <2>2. \A i \in 1..Len(wo) : wo[i].kind = "credential" =>
            i \in 1..Len(w) /\ wo[i] = w[i]
      BY <1>5
    <2> QED BY <2>1, <2>2 DEF NewsInWorker
  <1>8. Head(mn).closes <= n.closes
    BY <1>4 DEF OneRequest
  <1>9. \A j \in 1..Len(wo) : wo[j].kind = "token" =>
          wo[j].closes <= n.closes
    BY <1>5, <1>8 DEF OneRequest
  <1>10. OneRequest(tl, wo, n, tokens)
    <2>1. CASE Head(mn).closes = n.closes
      <3>1. 1 \in InMain(mn, n) /\ InMain(tl, n) = {}
        BY <2>1, <1>2
      <3>2. Asked(n) = {} /\ InWorker(w, n) = {} /\ n.state = "Starting"
        BY <3>1 DEF OneRequest
      <3>3. \A j \in InWorker(wo, n) : j = Len(w) + 1
        BY <3>2, <1>5 DEF InWorker
      <3> QED BY <3>1, <3>2, <3>3, <1>2, <1>9 DEF OneRequest
    <2>2. CASE Head(mn).closes # n.closes
      <3>1. InWorker(wo, n) = InWorker(w, n)
        BY <2>2, <1>3, <1>5 DEF InWorker
      <3> QED BY <3>1, <1>2, <1>9 DEF OneRequest
    <2> QED BY <2>1, <2>2
  <1>11. NewsIn(tl, wo) <=> NewsIn(tl, w)
    BY <1>7 DEF NewsIn
  <1>12. TokensOwned(tl, wo, n, tokens, cur)
    <2>1. ASSUME NEW j \in 1..Len(wo), wo[j].kind = "token",
                 wo[j].closes = n.closes
          PROVE  wo[j].user \in {None, cur} \/ NewsInWorker(wo, j)
      <3>1. j \in 1..(Len(w) + 1)
        BY <1>3
      <3>2. CASE j \in 1..Len(w) /\ wo[j] = w[j]
        BY <2>1, <3>1, <3>2, <1>6 DEF TokensOwned
      <3>3. CASE j = Len(w) + 1 /\ wo[j] = o
        <4>1. 1 \in 1..Len(mn) /\ ~NewsInMain(mn, 1)
          BY <1>4 DEF NewsInMain
        <4>2. mn[1].user \in {None, cur} \/ NewsInWorker(w, Len(w) + 1)
          BY <2>1, <3>3, <4>1, <1>4 DEF TokensOwned
        <4> QED BY <3>1, <3>3, <4>2, <1>4, <1>6
      <3> QED BY <3>2, <3>3, <1>5
    <2> QED BY <2>1, <1>1, <1>2, <1>7, <1>11 DEF TokensOwned
  <1>13. Told(tl, wo, cur, auth)
    <2>1. ASSUME NEW j \in 1..Len(wo), wo[j].kind = "credential",
                 \A i \in 1..Len(wo) : j < i => wo[i].kind # "credential",
                 ~NewsInMain(tl, Len(tl) + 1)
          PROVE  wo[j].user = auth
      <3>1. j \in 1..Len(w) /\ wo[j] = w[j]
        BY <2>1, <1>5
      <3>2. \A i \in 1..Len(w) : j < i => w[i].kind # "credential"
        BY <2>1, <1>3
      <3> QED BY <2>1, <3>1, <3>2, <1>1 DEF Told
    <2> QED BY <2>1, <1>1, <1>11 DEF Told
  <1> QED BY <1>10, <1>12, <1>13 DEF tl, wo

\* RunMain with a token that is out of date: it is asked for again.
LEMMA TokenAskedAgain ==
  ASSUME NEW n \in Net, NEW m \in Net, NEW mn \in Seq(MainBlock),
         NEW w \in Seq(WorkerOp), NEW cur, NEW auth, tokens \in Nat,
         OneRequest(mn, w, n, tokens), TokensOwned(mn, w, n, tokens, cur),
         Told(mn, w, cur, auth),
         mn # <<>>, Head(mn).kind = "token",
         m.asks = n.asks \cup {Request(Head(mn).closes)},
         m.closes = n.closes, m.as = n.as, m.state = n.state
  PROVE  /\ OneRequest(Tail(mn), w, m, tokens)
         /\ TokensOwned(Tail(mn), w, m, tokens, cur)
         /\ Told(Tail(mn), w, cur, auth)
  <1> DEFINE tl == Tail(mn)
             r == Request(Head(mn).closes)
  <1>1. /\ Told(tl, w, cur, auth)
        /\ NewsIn(mn, w) => NewsIn(tl, w)
    BY ToldWithoutToken
  <1>2. /\ \A j \in 1..Len(tl) : tl[j].kind = "token" =>
             tl[j].closes <= n.closes /\ tl[j].tokens <= tokens
        /\ \A i, j \in InMain(tl, n) : i = j
        /\ InMain(tl, n) # {} => InMain(mn, n) # {}
        /\ Head(mn).closes = n.closes =>
             1 \in InMain(mn, n) /\ InMain(tl, n) = {}
        /\ \A j \in 1..Len(tl) :
             (/\ tl[j].kind = "token" /\ tl[j].closes = n.closes
              /\ tl[j].tokens = tokens)
             => \/ tl[j].user \in {None, cur}
                \/ NewsInMain(tl, j)
                \/ NewsInWorker(w, Len(w) + 1)
    BY MainWithoutToken
  <1>3. r.closes = Head(mn).closes /\ r.tokens = tokens /\ r.user = None
    BY DEF Request
  <1>4. Head(mn).closes <= n.closes
    BY MainShifts DEF OneRequest
  <1> HIDE DEF tl, r
  <1>5. m.asks = n.asks \cup {r}
    BY DEF r
  <1>6. InMain(tl, m) = InMain(tl, n) /\ InWorker(w, m) = InWorker(w, n)
    BY DEF InMain, InWorker
  <1>7. \A x \in m.asks : x.closes <= m.closes /\ x.tokens <= tokens
    BY <1>3, <1>4, <1>5 DEF OneRequest
  <1>8. OneRequest(tl, w, m, tokens)
    <2>1. CASE Head(mn).closes = n.closes
      <3>1. 1 \in InMain(mn, n) /\ InMain(tl, n) = {}
        BY <2>1, <1>2
      <3>2. Asked(n) = {} /\ InWorker(w, n) = {} /\ n.state = "Starting"
        BY <3>1 DEF OneRequest
      <3>3. \A x \in Asked(m) : x = r
        BY <3>2, <1>5 DEF Asked
      <3> QED BY <3>1, <3>2, <3>3, <1>2, <1>6, <1>7 DEF OneRequest
    <2>2. CASE Head(mn).closes # n.closes
      <3>1. Asked(m) = Asked(n)
        BY <2>2, <1>3, <1>5 DEF Asked
      <3> QED BY <3>1, <1>2, <1>6, <1>7 DEF OneRequest
    <2> QED BY <2>1, <2>2
  <1>9. TokensOwned(tl, w, m, tokens, cur)
    BY <1>1, <1>2, <1>3, <1>5 DEF TokensOwned
  <1> QED BY <1>1, <1>8, <1>9 DEF tl

\* HandleCredentialChange: Firestore takes the user the news told of.
LEMMA NewsTaken ==
  ASSUME NEW mn \in Seq(MainBlock), NEW w \in Seq(WorkerOp),
         NEW cur, NEW auth, Told(mn, w, cur, auth),
         w # <<>>, Head(w).kind = "credential"
  PROVE  Told(mn, Tail(w), Head(w).user, auth)
  <1> DEFINE tl == Tail(w)
  <1>1. /\ Len(w) \in Nat \ {0} /\ Len(tl) = Len(w) - 1
        /\ Head(w) = w[1]
        /\ \A i \in 1..Len(tl) : i + 1 \in 1..Len(w) /\ tl[i] = w[i + 1]
        /\ \A i \in 1..Len(w) : i # 1 =>
             i - 1 \in 1..Len(tl) /\ tl[i - 1] = w[i]
    BY WorkerShifts
  <1> HIDE DEF tl
  <1>2. w[1].user = auth \/ NewsIn(mn, tl)
    <2> SUFFICES ASSUME ~NewsIn(mn, tl) PROVE w[1].user = auth
      OBVIOUS
    <2>1. ~NewsInMain(mn, Len(mn) + 1) /\ ~NewsInWorker(tl, Len(tl) + 1)
      BY DEF NewsIn
    <2>2. ASSUME NEW i \in 1..Len(w), 1 < i
          PROVE  w[i].kind # "credential"
      <3>1. i - 1 \in 1..Len(tl) /\ tl[i - 1] = w[i]
            /\ i - 1 < Len(tl) + 1
        BY <2>2, <1>1
      <3> QED BY <3>1, <2>1 DEF NewsInWorker
    <2>3. 1 \in 1..Len(w) /\ w[1].kind = "credential"
      BY <1>1
    <2> QED BY <2>1, <2>2, <2>3 DEF Told
  <1>3. ASSUME NEW j \in 1..Len(tl), tl[j].kind = "credential",
               \A i \in 1..Len(tl) : j < i => tl[i].kind # "credential",
               ~NewsInMain(mn, Len(mn) + 1)
        PROVE  tl[j].user = auth
    <2>1. j + 1 \in 1..Len(w) /\ tl[j] = w[j + 1]
      BY <1>1
    <2>2. ASSUME NEW i \in 1..Len(w), j + 1 < i
          PROVE  w[i].kind # "credential"
      <3>1. i - 1 \in 1..Len(tl) /\ tl[i - 1] = w[i] /\ j < i - 1
        BY <2>1, <2>2, <1>1
      <3> QED BY <3>1, <1>3
    <2> QED BY <2>1, <2>2, <1>3 DEF Told
  <1>4. Told(mn, tl, w[1].user, auth)
    BY <1>2, <1>3 DEF Told
  <1> QED BY <1>1, <1>4 DEF tl

\* ResumeStartWithCredentials takes a token off the worker queue.
LEMMA TokenTaken ==
  ASSUME NEW n \in Net, NEW mn \in Seq(MainBlock), NEW w \in Seq(WorkerOp),
         NEW cur, NEW auth, tokens \in Nat,
         OneRequest(mn, w, n, tokens), TokensOwned(mn, w, n, tokens, cur),
         Told(mn, w, cur, auth),
         w # <<>>, Head(w).kind = "token"
  PROVE  /\ OneRequest(mn, Tail(w), n, tokens)
         /\ TokensOwned(mn, Tail(w), n, tokens, cur)
         /\ Told(mn, Tail(w), cur, auth)
         /\ Head(w).closes = n.closes =>
              /\ n.state = "Starting"
              /\ Asked(n) = {} /\ InMain(mn, n) = {}
              /\ InWorker(Tail(w), n) = {}
              /\ Head(w).user \in {None, cur}
  <1> DEFINE tl == Tail(w)
  <1>1. /\ Len(w) \in Nat \ {0} /\ Len(tl) = Len(w) - 1
        /\ Head(w) = w[1]
        /\ \A i \in 1..Len(tl) : i + 1 \in 1..Len(w) /\ tl[i] = w[i + 1]
        /\ \A i \in 1..Len(w) : i # 1 =>
             i - 1 \in 1..Len(tl) /\ tl[i - 1] = w[i]
        /\ w[1].kind # "credential" =>
             \A k \in Nat : NewsInWorker(w, k + 1) => NewsInWorker(tl, k)
    BY WorkerShifts
  <1> HIDE DEF tl
  <1>2. \A k \in Nat : NewsInWorker(w, k + 1) => NewsInWorker(tl, k)
    BY <1>1
  <1>3. NewsInWorker(w, Len(w) + 1) => NewsInWorker(tl, Len(tl) + 1)
    <2>1. Len(w) \in Nat /\ Len(tl) + 1 = Len(w)
      BY <1>1
    <2> QED BY <2>1, <1>2
  <1>4. NewsIn(mn, w) => NewsIn(mn, tl)
    BY <1>3 DEF NewsIn
  <1>5. \A i, j \in InWorker(w, n) : i = j
    BY DEF OneRequest
  <1>6. \A j \in InWorker(tl, n) :
          j \in 1..Len(tl) /\ j + 1 \in InWorker(w, n)
    BY <1>1 DEF InWorker
  <1>7. ASSUME NEW i \in InWorker(tl, n), NEW j \in InWorker(tl, n)
        PROVE  i = j
    <2>1. i + 1 = j + 1 /\ i \in Nat /\ j \in Nat
      BY <1>1, <1>5, <1>6
    <2> QED BY <2>1
  <1>8. \A j \in 1..Len(tl) : tl[j].kind = "token" =>
          tl[j].closes <= n.closes
    BY <1>1 DEF OneRequest
  <1>9. OneRequest(mn, tl, n, tokens)
    BY <1>6, <1>7, <1>8 DEF OneRequest
  <1>10. TokensOwned(mn, tl, n, tokens, cur)
    <2>1. ASSUME NEW j \in 1..Len(tl), tl[j].kind = "token",
                 tl[j].closes = n.closes
          PROVE  tl[j].user \in {None, cur} \/ NewsInWorker(tl, j)
      <3>1. j + 1 \in 1..Len(w) /\ tl[j] = w[j + 1] /\ j \in Nat
        BY <1>1
      <3> QED BY <2>1, <3>1, <1>2 DEF TokensOwned
    <2> QED BY <2>1, <1>3, <1>4 DEF TokensOwned
  <1>11. Told(mn, tl, cur, auth)
    <2>1. ASSUME NEW j \in 1..Len(tl), tl[j].kind = "credential",
                 \A i \in 1..Len(tl) : j < i => tl[i].kind # "credential",
                 ~NewsInMain(mn, Len(mn) + 1)
          PROVE  tl[j].user = auth
      <3>1. j + 1 \in 1..Len(w) /\ tl[j] = w[j + 1]
        BY <1>1
      <3>2. ASSUME NEW i \in 1..Len(w), j + 1 < i
            PROVE  w[i].kind # "credential"
        <4>1. i - 1 \in 1..Len(tl) /\ tl[i - 1] = w[i] /\ j < i - 1
          BY <3>1, <3>2, <1>1
        <4> QED BY <4>1, <2>1
      <3> QED BY <2>1, <3>1, <3>2 DEF Told
    <2> QED BY <2>1, <1>4 DEF Told
  <1>12. ASSUME Head(w).closes = n.closes
         PROVE  /\ n.state = "Starting"
                /\ Asked(n) = {} /\ InMain(mn, n) = {}
                /\ InWorker(tl, n) = {}
                /\ Head(w).user \in {None, cur}
    <2>1. 1 \in 1..Len(w) /\ 1 \in InWorker(w, n)
      BY <1>1, <1>12 DEF InWorker
    <2>2. n.state = "Starting" /\ Asked(n) = {} /\ InMain(mn, n) = {}
      BY <2>1 DEF OneRequest
    <2>3. ASSUME NEW j \in InWorker(tl, n) PROVE FALSE
      <3>1. j + 1 = 1 /\ j \in 1..Len(tl)
        BY <2>1, <1>5, <1>6
      <3> QED BY <3>1, <1>1
    <2>4. ~NewsInWorker(w, 1)
      BY <1>1 DEF NewsInWorker
    <2>5. w[1].user \in {None, cur}
      BY <2>1, <2>4, <1>1, <1>12 DEF TokensOwned
    <2> QED BY <2>2, <2>3, <2>5, <1>1
  <1> QED BY <1>9, <1>10, <1>11, <1>12 DEF tl

\* A token opens the stream it was asked for, as the current user.
LEMMA TokenOpens ==
  ASSUME NEW n, NEW m, NEW mn, NEW w, NEW cur,
         OneRequest(mn, w, n, tokens), TokensOwned(mn, w, n, tokens, cur),
         Asked(n) = {}, InMain(mn, n) = {}, InWorker(w, n) = {},
         m.closes = n.closes, m.asks = n.asks, m.as \in {None, cur}
  PROVE  OneRequest(mn, w, m, tokens) /\ TokensOwned(mn, w, m, tokens, cur)
  <1>1. Asked(m) = {} /\ InMain(mn, m) = {} /\ InWorker(w, m) = {}
    BY DEF Asked, InMain, InWorker
  <1>2. OneRequest(mn, w, m, tokens)
    BY <1>1 DEF OneRequest
  <1>3. TokensOwned(mn, w, m, tokens, cur)
    BY DEF TokensOwned
  <1> QED BY <1>2, <1>3

-----------------------------------------------------------------------------
(* Steps of the queues and callbacks *)

\* What a queue keeps when its oldest batch is answered.
LEMMA QueueAnswered ==
  ASSUME NEW q \in Seq(Batch), Ascending(q), q # <<>>, NEW l \in Nat
  PROVE  /\ Tail(q) \in Seq(Batch)
         /\ Ascending(Tail(q))
         /\ \A j \in 1..Len(Tail(q)) :
              j + 1 \in 1..Len(q) /\ Tail(q)[j] = q[j + 1]
         /\ Mine(Tail(q), l) = Mine(q, l) \ {c \in Mine(q, l) : c.id = q[1].id}
         /\ \A c \in Mine(q, l) : c.id = q[1].id => c = q[1]
         /\ q[1].write > l => q[1] \in Mine(q, l)
         /\ q[1] \in Mine(q, l) => q[1].write > l
         /\ 1 \in 1..Len(q) /\ q[1] \in Batch
  <1> DEFINE tl == Tail(q)
  <1>1. Len(q) \in Nat /\ Len(q) > 0
    BY LenZero
  <1>2. /\ tl \in Seq(Batch) /\ Len(tl) = Len(q) - 1
        /\ \A i \in 1..Len(tl) : tl[i] = q[i + 1]
    BY HeadTailProperties
  <1> HIDE DEF tl
  <1>3. \A j \in 1..Len(q) : q[j] \in Batch
    BY ElementOfSeq
  <1>4. \A j \in 1..Len(q) : q[j].id \in Nat /\ q[j].write \in Nat
    BY <1>3, PipelineAssumption DEF Batch, Writes
  <1>5. \A j \in 1..Len(tl) : j + 1 \in 1..Len(q) /\ tl[j] = q[j + 1]
    BY <1>1, <1>2
  <1>6. \A j \in 1..Len(q) : j # 1 =>
          j - 1 \in 1..Len(tl) /\ tl[j - 1] = q[j]
    BY <1>1, <1>2
  <1>7. Ascending(tl)
    <2>1. ASSUME NEW i \in 1..Len(tl), NEW j \in 1..Len(tl), i < j
          PROVE  tl[i].id < tl[j].id
      <3>1. i + 1 \in 1..Len(q) /\ j + 1 \in 1..Len(q) /\ i + 1 < j + 1
            /\ tl[i] = q[i + 1] /\ tl[j] = q[j + 1]
        BY <2>1, <1>1, <1>2
      <3> QED BY <3>1 DEF Ascending
    <2> QED BY <2>1 DEF Ascending
  <1>8. 1 \in 1..Len(q) /\ q[1] \in Batch
    BY <1>1, <1>3
  <1>9. \A j \in 1..Len(q) : q[j].id = q[1].id => j = 1
    BY <1>1, <1>4, <1>8 DEF Ascending
  <1>10. \A c \in Mine(q, l) : c.id = q[1].id => c = q[1]
    BY <1>9 DEF Mine
  <1>11. q[1].write > l => q[1] \in Mine(q, l)
    BY <1>8 DEF Mine
  <1>12. q[1] \in Mine(q, l) => q[1].write > l
    BY DEF Mine
  <1>13. ASSUME NEW c \in Mine(tl, l)
         PROVE  c \in Mine(q, l) /\ c.id # q[1].id
    <2>1. PICK j \in 1..Len(tl) : tl[j].write > l /\ c = tl[j]
      BY DEF Mine
    <2>2. j + 1 \in 1..Len(q) /\ c = q[j + 1] /\ j + 1 # 1
      BY <2>1, <1>1, <1>2, <1>5
    <2> QED BY <2>1, <2>2, <1>9 DEF Mine
  <1>14. ASSUME NEW c \in Mine(q, l), c.id # q[1].id
         PROVE  c \in Mine(tl, l)
    <2>1. PICK j \in 1..Len(q) : q[j].write > l /\ c = q[j]
      BY DEF Mine
    <2>2. j - 1 \in 1..Len(tl) /\ tl[j - 1] = c
      BY <2>1, <1>6, <1>14
    <2> QED BY <2>1, <2>2 DEF Mine
  <1>15. Mine(tl, l) = Mine(q, l) \ {c \in Mine(q, l) : c.id = q[1].id}
    BY <1>13, <1>14
  <1> QED BY <1>2, <1>5, <1>7, <1>8, <1>10, <1>11, <1>12, <1>15 DEF tl

\* What a queue gets when a batch is written.
LEMMA QueueWritten ==
  ASSUME NEW q \in Seq(Batch), Ascending(q), NEW b \in Batch, NEW l \in Nat,
         \A j \in 1..Len(q) : q[j].id < b.id, b.write > l
  PROVE  /\ Append(q, b) \in Seq(Batch)
         /\ Ascending(Append(q, b))
         /\ \A j \in 1..Len(Append(q, b)) :
              \/ j \in 1..Len(q) /\ Append(q, b)[j] = q[j]
              \/ j = Len(q) + 1 /\ Append(q, b)[j] = b
         /\ Mine(Append(q, b), l) = Mine(q, l) \cup {b}
         /\ \A c \in Mine(q, l) : c.id # b.id
  <1> DEFINE qb == Append(q, b)
  <1>1. /\ Len(q) \in Nat /\ qb \in Seq(Batch) /\ Len(qb) = Len(q) + 1
        /\ \A i \in 1..Len(q) : qb[i] = q[i]
        /\ qb[Len(q) + 1] = b
    BY AppendProperties, LenProperties
  <1> HIDE DEF qb
  <1>2. \A j \in 1..Len(qb) :
          \/ j \in 1..Len(q) /\ qb[j] = q[j]
          \/ j = Len(q) + 1 /\ qb[j] = b
    BY <1>1
  <1>3. Ascending(qb)
    <2>1. ASSUME NEW i \in 1..Len(qb), NEW j \in 1..Len(qb), i < j
          PROVE  qb[i].id < qb[j].id
      <3>1. i \in 1..Len(q) /\ qb[i] = q[i]
        BY <2>1, <1>1
      <3>2. CASE j \in 1..Len(q) /\ qb[j] = q[j]
        BY <2>1, <3>1, <3>2 DEF Ascending
      <3>3. CASE j = Len(q) + 1 /\ qb[j] = b
        BY <3>1, <3>3
      <3> QED BY <3>2, <3>3, <1>2
    <2> QED BY <2>1 DEF Ascending
  <1>4. \A j \in 1..Len(q) : j \in 1..Len(qb) /\ qb[j] = q[j]
    BY <1>1
  <1>5. Len(q) + 1 \in 1..Len(qb)
    BY <1>1
  <1>6. Mine(qb, l) \subseteq Mine(q, l) \cup {b}
    BY <1>2 DEF Mine
  <1>7. Mine(q, l) \subseteq Mine(qb, l)
    BY <1>4 DEF Mine
  <1>8. b \in Mine(qb, l)
    BY <1>1, <1>5 DEF Mine
  <1>9. \A c \in Mine(q, l) : c.id # b.id
    <2>1. ASSUME NEW c \in Mine(q, l) PROVE c.id # b.id
      <3>1. PICK j \in 1..Len(q) : c = q[j]
        BY DEF Mine
      <3>2. q[j] \in Batch /\ q[j].id < b.id
        BY ElementOfSeq
      <3> QED BY <3>1, <3>2 DEF Batch
    <2> QED BY <2>1
  <1> QED BY <1>1, <1>2, <1>3, <1>6, <1>7, <1>8, <1>9 DEF qb

\* A process that has just started wrote nothing that is queued.
LEMMA NothingMine ==
  ASSUME NEW q \in Seq(Batch), NEW l \in Nat,
         \A j \in 1..Len(q) : q[j].write <= l
  PROVE  Mine(q, l) = {}
  <1>1. \A j \in 1..Len(q) : q[j] \in Batch
    BY ElementOfSeq
  <1>2. \A j \in 1..Len(q) : q[j].write \in Nat
    BY <1>1, PipelineAssumption DEF Batch, Writes
  <1>3. \A j \in 1..Len(q) : ~(q[j].write > l)
    BY <1>2
  <1> QED BY <1>3 DEF Mine

\* The facts that most steps start from.
LEMMA Facts ==
  ASSUME Inv
  PROVE  /\ tokens \in Nat /\ current \in Users /\ authUser \in Users
         /\ main \in Seq(MainBlock) /\ worker \in Seq(WorkerOp)
         /\ queue \in [Users -> Seq(Batch)]
         /\ queue[current] \in Seq(Batch) /\ Ascending(queue[current])
         /\ net \in Net /\ StreamFine(net)
         /\ Front(net.pipeline, queue[current])
         /\ written \in Nat /\ launchedAt \in Nat /\ launchedAt <= written
         /\ written <= MaxWrites /\ nextId \in Nat \ {0}
         /\ callbacks \in [Users -> SUBSET Batch]
         /\ \A u \in Users : callbacks[u] = Mine(queue[u], launchedAt)
  <1>1. /\ tokens \in Nat /\ current \in Users /\ authUser \in Users
        /\ main \in Seq(MainBlock) /\ worker \in Seq(WorkerOp)
        /\ queue \in [Users -> Seq(Batch)] /\ net \in Net
        /\ written \in 0..MaxWrites /\ launchedAt \in 0..MaxWrites
        /\ nextId \in Nat \ {0} /\ callbacks \in [Users -> SUBSET Batch]
    BY DEF Inv, TypeOK, MainBlock, WorkerOp
  <1>2. written \in Nat /\ launchedAt \in Nat /\ written <= MaxWrites
    BY <1>1, PipelineAssumption
  <1>3. queue[current] \in Seq(Batch)
    BY <1>1
  <1>4. Ascending(queue[current]) /\ launchedAt <= written
    BY <1>1 DEF Inv, Stored, QueuesFine
  <1>5. StreamFine(net) /\ Front(net.pipeline, queue[current])
    BY DEF Inv, Streaming
  <1>6. \A u \in Users : callbacks[u] = Mine(queue[u], launchedAt)
    BY DEF Inv, Stored, CallbacksMatch, Mine
  <1> QED BY <1>1, <1>2, <1>3, <1>4, <1>5, <1>6

-----------------------------------------------------------------------------
(* Every action keeps the invariant. *)

\* What is stored is a matter of these variables alone.
LEMMA StoredKept ==
  ASSUME Stored,
         UNCHANGED <<launchedAt, written, queue, current, nextId, callbacks,
                     answer>>
  PROVE  Stored'
  BY DEF Stored, CallbacksMatch

\* Documents that nobody touches are as up to date as before.
LEMMA LastAckedSame ==
  ASSUME LastAckedKept, UNCHANGED <<queue, dropped, docs, lastAcked>>
  PROVE  LastAckedKept'
  BY DEF LastAckedKept

\* The same answers under way, or none, and the same documents.
LEMMA RepliesSame ==
  ASSUME NEW n, NEW m, NEW a, NEW d, RepliesApplied(n, a, d),
         SameReplies(n, m)
  PROVE  RepliesApplied(m, a, d)
  BY DEF RepliesApplied, SameReplies

\* The token part of the invariant after a move of the Net.
LEMMA TrackedMoved ==
  ASSUME Inv, net' \in Net, StreamFine(net'), Moved(net, net'),
         UNCHANGED <<main, worker, tokens, current, authUser>>
  PROVE  Tracked'
  <1>1. /\ main \in Seq(MainBlock) /\ worker \in Seq(WorkerOp)
        /\ net \in Net /\ tokens \in Nat /\ StreamFine(net)
    BY Facts
  <1>2. /\ OneRequest(main, worker, net, tokens)
        /\ TokensOwned(main, worker, net, tokens, current)
        /\ Told(main, worker, current, authUser)
    BY DEF Inv, Tracked
  <1> DEFINE m == net'
  <1>3. m \in Net /\ StreamFine(m) /\ Moved(net, m)
    OBVIOUS
  <1> HIDE DEF m
  <1>4. OneRequest(main, worker, m, tokens)
        /\ TokensOwned(main, worker, m, tokens, current)
    BY <1>1, <1>2, <1>3, TrackMoved
  <1> QED BY <1>2, <1>4 DEF m, Tracked

\* A step of the stream alone, perhaps a fault.
LEMMA NetStep ==
  ASSUME Inv, net' \in Net, StreamFine(net'),
         Front(net'.pipeline, queue[current]), Moved(net, net'),
         RepliesApplied(net', applied, docs), faults' \in 0..MaxFaults,
         UNCHANGED <<authUser, tokens, main, worker, current, queue, nextId,
                     callbacks, docs, applied, lastAcked, answer, written,
                     dropped, launchedAt>>
  PROVE  Inv'
  <1>1. TypeOK'
    BY DEF Inv, TypeOK
  <1>2. Stored'
    BY StoredKept DEF Inv
  <1>3. Streaming'
    BY DEF Streaming
  <1>4. Tracked'
    BY TrackedMoved
  <1>5. Delivered'
    <2>1. LastAckedKept'
      BY LastAckedSame DEF Inv, Delivered
    <2>2. RepliesApplied(net', applied', docs')
      OBVIOUS
    <2> QED BY <2>1, <2>2 DEF Delivered
  <1> QED BY <1>1, <1>2, <1>3, <1>4, <1>5 DEF Inv

\* Faults are counted up to their bound.
LEMMA FaultCounted ==
  ASSUME Inv, Fault
  PROVE  faults' \in 0..MaxFaults
  <1>1. faults \in 0..MaxFaults
    BY DEF Inv, TypeOK
  <1> QED BY <1>1, PipelineAssumption DEF Fault

\* Actions on the stream that the code takes without looking at a queue.
LEMMA StreamStepsKept ==
  ASSUME Inv,
         \/ StreamBreaks
         \/ BackoffElapsed
         \/ StreamEnds \/ IdleTimeout
         \/ ConnectivityChanged
  PROVE  Inv'
  <1>1. /\ tokens \in Nat /\ net \in Net /\ StreamFine(net)
        /\ Front(net.pipeline, queue[current])
        /\ queue[current] \in Seq(Batch) /\ Ascending(queue[current])
    BY Facts
  <1>2. RepliesApplied(net, applied, docs)
    BY DEF Inv, Delivered
  <1>3. faults \in 0..MaxFaults
    BY DEF Inv, TypeOK
  <1>4. CASE StreamBreaks
    <2> DEFINE m == RetryAfter(net)
    <2>1. /\ m \in Net /\ StreamFine(m) /\ m.pipeline = net.pipeline
          /\ Moved(net, m) /\ ~m.handshake
      BY <1>1, RetryFine
    <2>2. net' = m
      BY <1>4 DEF StreamBreaks
    <2> HIDE DEF m
    <2>3. SameReplies(net, m) /\ Front(m.pipeline, queue[current])
      BY <2>1, <1>1 DEF SameReplies
    <2>4. RepliesApplied(m, applied, docs)
      BY <2>3, <1>2, RepliesSame
    <2>5. faults' \in 0..MaxFaults
      BY <1>4, FaultCounted DEF StreamBreaks
    <2> QED BY <2>1, <2>2, <2>3, <2>4, <2>5, <1>4, NetStep DEF StreamBreaks
  <1>5. CASE BackoffElapsed
    <2> DEFINE i == Emptied(net, net.pipeline)
               m == Start(i)
    <2>1. net' = m
      BY <1>1, <1>5 DEF BackoffElapsed, Emptied, Net
    <2>2. net.pipeline \in Seq(Batch) /\ net.closes \in Nat
      BY <1>1, NetFields
    <2>3. /\ i \in Net /\ i.pipeline = net.pipeline
          /\ i.state = "Initial" /\ i.handshake = net.handshake
          /\ i.idle = net.idle /\ i.closes = net.closes
          /\ i.asks = net.asks /\ i.as = net.as /\ i.wire = net.wire
          /\ i.replies = net.replies /\ i.refused = net.refused
      BY <2>2, <1>1, PipelineFields
    <2> HIDE DEF i
    <2>4. i \in Net /\ i.state # "Error"
      BY <2>3
    <2>5. /\ m \in Net /\ m.pipeline = i.pipeline
          /\ m.handshake = i.handshake /\ m.idle = i.idle
          /\ m.closes = i.closes /\ m.as = i.as /\ m.wire = i.wire
          /\ m.replies = i.replies /\ m.refused = i.refused
          /\ m.state = "Starting"
          /\ m.asks = i.asks \cup {Request(i.closes)}
      BY <2>4, <1>1, StartFields
    <2> HIDE DEF m
    <2>6. net.state = "Backoff"
      BY <1>5 DEF BackoffElapsed
    <2>7. /\ ~IsOpen(net) /\ IsStarted(net) /\ ~IsOpen(m)
          /\ ~net.handshake
      BY <2>5, <2>6, <1>1 DEF IsOpen, IsStarted, StreamFine
    <2>8. StreamFine(m)
      BY <2>3, <2>5, <2>7, <1>1 DEF StreamFine
    <2>9. Moved(net, m)
      BY <2>2, <2>3, <2>5, <2>6 DEF Moved
    <2>10. SameReplies(net, m) /\ Front(m.pipeline, queue[current])
      BY <2>3, <2>5, <2>7, <1>1 DEF SameReplies
    <2>11. RepliesApplied(m, applied, docs)
      BY <2>10, <1>2, RepliesSame
    <2> QED BY <2>1, <2>5, <2>8, <2>9, <2>10, <2>11, <1>3, <1>5, NetStep
            DEF BackoffElapsed, history
  <1>6. CASE StreamEnds \/ IdleTimeout
    <2> DEFINE m == Stop(net)
    <2>1. /\ m \in Net /\ StreamFine(m)
          /\ m.pipeline = net.pipeline /\ m.asks = net.asks
          /\ ~m.handshake /\ ~IsStarted(m)
          /\ net.closes <= m.closes
          /\ IsStarted(net) => net.closes < m.closes
      BY <1>1, StopFine
    <2>2. net' = m
      BY <1>6 DEF StreamEnds, IdleTimeout
    <2> HIDE DEF m
    <2>3. net.closes \in Nat /\ m.closes \in Nat
      BY <2>1, <1>1, NetFields
    <2>4. m.as = None
      BY <2>1 DEF StreamFine, IsOpen, IsStarted
    <2>5. Moved(net, m)
      BY <2>1, <2>3, <2>4 DEF Moved, IsStarted
    <2>6. SameReplies(net, m) /\ Front(m.pipeline, queue[current])
      BY <2>1, <1>1 DEF SameReplies
    <2>7. RepliesApplied(m, applied, docs)
      BY <2>6, <1>2, RepliesSame
    <2> QED BY <2>1, <2>2, <2>5, <2>6, <2>7, <1>3, <1>6, NetStep
            DEF StreamEnds, IdleTimeout, history
  <1>7. CASE ConnectivityChanged
    <2> DEFINE m == RestartNetwork(net, queue[current])
    <2>1. /\ m \in Net /\ StreamFine(m) /\ Front(m.pipeline, queue[current])
          /\ Moved(net, m) /\ ~m.handshake
      BY <1>1, RestartFine
    <2>2. net' = m
      BY <1>7 DEF ConnectivityChanged
    <2> HIDE DEF m
    <2>3. SameReplies(net, m)
      BY <2>1 DEF SameReplies
    <2>4. RepliesApplied(m, applied, docs)
      BY <2>3, <1>2, RepliesSame
    <2>5. faults' \in 0..MaxFaults
      BY <1>7, FaultCounted DEF ConnectivityChanged
    <2> QED BY <2>1, <2>2, <2>4, <2>5, <1>7, NetStep
            DEF ConnectivityChanged
  <1> QED BY <1>4, <1>5, <1>6, <1>7

\* The requests and answers under way are set.
Served(n, w, r) == [n EXCEPT !.wire = w, !.replies = r]

\* What is first on the wire: the handshake before it is answered, the next
\* batch of the pipeline afterwards.
LEMMA WireHead ==
  ASSUME NEW n \in Net, StreamFine(n), n.wire # <<>>
  PROVE  /\ IsOpen(n)
         /\ Head(n.wire) \in Batch \cup {Hello}
         /\ Tail(n.wire) \in Seq(Batch \cup {Hello})
         /\ ~n.handshake => Head(n.wire) = Hello
         /\ n.handshake =>
              /\ Len(n.replies) + 1 \in 1..Len(n.pipeline)
              /\ Head(n.wire) = n.pipeline[Len(n.replies) + 1]
              /\ Head(n.wire) \in Batch /\ Head(n.wire) # Hello
              /\ \A i \in 1..Len(n.replies) : n.replies[i] = n.pipeline[i]
         /\ Append(n.replies, Head(n.wire)) \in Seq(Batch \cup {Hello})
         /\ Append(n.replies, Head(n.wire)) \o Tail(n.wire)
              = n.replies \o n.wire
  <1> DEFINE S == Batch \cup {Hello}
             r == n.replies
             w == n.wire
             b == r \o w
  <1>1. /\ r \in Seq(S) /\ w \in Seq(S) /\ n.pipeline \in Seq(Batch)
    BY NetFields
  <1>2. IsOpen(n)
    BY DEF StreamFine
  <1>3. b = IF n.handshake THEN n.pipeline ELSE <<Hello>>
    BY <1>2 DEF StreamFine
  <1>4. w # <<>>
    OBVIOUS
  <1> HIDE DEF S, r, w
  <1>5. Head(w) \in S /\ Tail(w) \in Seq(S)
    BY <1>1, <1>4, HeadTailProperties
  <1>6. Append(r, Head(w)) \in Seq(S)
    BY <1>1, <1>5, AppendProperties
  <1>7. Append(r, Head(w)) \o Tail(w) = r \o w
    BY <1>1, <1>4, MoveAcross
  <1>8. /\ Len(b) = Len(r) + Len(w)
        /\ \A i \in 1..(Len(r) + Len(w)) : b[i] =
             IF i <= Len(r) THEN r[i] ELSE w[i - Len(r)]
    BY <1>1, ConcatProperties
  <1>9. Len(r) \in Nat /\ Len(w) \in Nat /\ Len(w) > 0 /\ Head(w) = w[1]
    BY <1>1, <1>4, LenZero
  <1> HIDE DEF b
  <1>10. /\ Len(r) + 1 \in 1..Len(b) /\ b[Len(r) + 1] = Head(w)
         /\ \A i \in 1..Len(r) : b[i] = r[i]
    <2>1. Len(r) + 1 \in 1..(Len(r) + Len(w)) /\ ~(Len(r) + 1 <= Len(r))
          /\ Len(r) + 1 - Len(r) = 1
      BY <1>9
    <2>2. \A i \in 1..Len(r) : i \in 1..(Len(r) + Len(w)) /\ i <= Len(r)
      BY <1>9
    <2> QED BY <2>1, <2>2, <1>8, <1>9
  <1>11. ~n.handshake => Head(w) = Hello
    <2>1. ASSUME ~n.handshake PROVE Head(w) = Hello
      <3>1. b = <<Hello>>
        BY <2>1, <1>3
      <3>2. Len(b) = 1 /\ b[1] = Hello
        BY <3>1
      <3>3. Len(r) + 1 = 1
        BY <3>2, <1>9, <1>10
      <3> QED BY <3>2, <3>3, <1>10
    <2> QED BY <2>1
  <1>12. ASSUME n.handshake
         PROVE  /\ Len(r) + 1 \in 1..Len(n.pipeline)
                /\ Head(w) = n.pipeline[Len(r) + 1]
                /\ Head(w) \in Batch /\ Head(w) # Hello
                /\ \A i \in 1..Len(r) : r[i] = n.pipeline[i]
    <2>1. b = n.pipeline
      BY <1>3, <1>12
    <2>2. /\ Len(r) + 1 \in 1..Len(n.pipeline)
          /\ Head(w) = n.pipeline[Len(r) + 1]
          /\ \A i \in 1..Len(r) : r[i] = n.pipeline[i]
      BY <2>1, <1>10
    <2>3. Head(w) \in Batch
      BY <2>2, <1>1, ElementOfSeq
    <2>4. Hello \notin Batch
      BY DEF Hello, Batch
    <2> QED BY <2>2, <2>3, <2>4
  <1> QED BY <1>2, <1>5, <1>6, <1>7, <1>11, <1>12 DEF S, r, w

\* The backend takes a request: the stream stays as it should be.
LEMMA ServedFine ==
  ASSUME NEW n \in Net, StreamFine(n), n.wire # <<>>
  PROVE  LET m == Served(n, Tail(n.wire), Append(n.replies, Head(n.wire)))
         IN  /\ m \in Net /\ StreamFine(m) /\ Moved(n, m)
             /\ m.pipeline = n.pipeline
             /\ m.handshake = n.handshake
             /\ m.replies = Append(n.replies, Head(n.wire))
             /\ m.closes = n.closes /\ m.asks = n.asks
             /\ m.state = n.state /\ m.as = n.as
  <1> DEFINE t == Tail(n.wire)
             r == Append(n.replies, Head(n.wire))
             m == Served(n, t, r)
  <1>1. IsOpen(n) /\ t \in Seq(Batch \cup {Hello})
        /\ r \in Seq(Batch \cup {Hello})
        /\ r \o t = n.replies \o n.wire
    BY WireHead
  <1> HIDE DEF t, r
  <1>2. /\ m \in Net /\ m.pipeline = n.pipeline /\ m.state = n.state
        /\ m.handshake = n.handshake /\ m.idle = n.idle
        /\ m.closes = n.closes /\ m.asks = n.asks /\ m.as = n.as
        /\ m.wire = t /\ m.replies = r /\ m.refused = n.refused
    <2>1. t \in Seq(Batch \cup {Hello}) /\ r \in Seq(Batch \cup {Hello})
      BY <1>1
    <2> QED BY <2>1 DEF Net, Served
  <1> HIDE DEF m
  <1>3. IsOpen(m) /\ (IsStarted(m) <=> IsStarted(n))
    BY <1>1, <1>2 DEF IsOpen, IsStarted
  <1>4. StreamFine(m)
    BY <1>1, <1>2, <1>3 DEF StreamFine
  <1>5. n.closes \in Nat
    BY NetFields
  <1>6. Moved(n, m)
    BY <1>2, <1>5 DEF Moved
  <1> QED BY <1>2, <1>4, <1>6 DEF m, t, r

\* The backend answers the handshake.
LEMMA ServeHandshakeKept ==
  ASSUME Inv, ServeHandshake
  PROVE  Inv'
  <1> DEFINE m == Served(net, Tail(net.wire),
                         Append(net.replies, Head(net.wire)))
  <1>1. net \in Net /\ StreamFine(net)
        /\ Front(net.pipeline, queue[current])
    BY Facts
  <1>2. net.wire # <<>> /\ Head(net.wire) = Hello /\ net' = m
    BY DEF ServeHandshake, Served
  <1>3. /\ m \in Net /\ StreamFine(m) /\ Moved(net, m)
        /\ m.pipeline = net.pipeline /\ m.handshake = net.handshake
    BY <1>1, <1>2, ServedFine
  <1> HIDE DEF m
  <1>4. ~net.handshake
    BY <1>1, <1>2, WireHead
  <1>5. RepliesApplied(m, applied, docs)
    BY <1>3, <1>4 DEF RepliesApplied
  <1>6. faults \in 0..MaxFaults
    BY DEF Inv, TypeOK
  <1> QED BY <1>1, <1>2, <1>3, <1>5, <1>6, NetStep DEF ServeHandshake, history

\* The backend applies a write.
LEMMA ServeWriteKept ==
  ASSUME Inv, ServeWrite
  PROVE  Inv'
  <1> DEFINE b == Head(net.wire)
             w == b.write
             k == Target[w]
             r == net.replies
             rb == Append(r, b)
             m == Served(net, Tail(net.wire), rb)
  <1>1. /\ net \in Net /\ StreamFine(net)
        /\ Front(net.pipeline, queue[current])
        /\ queue[current] \in Seq(Batch) /\ current \in Users
    BY Facts
  <1>2. net.wire # <<>> /\ b # Hello /\ net' = m
        /\ docs' = [docs EXCEPT ![k] = w]
        /\ applied' = applied \cup {w}
    BY DEF ServeWrite, Served
  <1>3. UNCHANGED <<authUser, tokens, main, worker, current, queue, nextId,
                    callbacks, lastAcked, answer, written, dropped, faults,
                    launchedAt>>
    BY DEF ServeWrite
  <1>4. /\ m \in Net /\ StreamFine(m) /\ Moved(net, m)
        /\ m.pipeline = net.pipeline /\ m.handshake = net.handshake
        /\ m.replies = rb
    BY <1>1, <1>2, ServedFine
  <1>5. /\ net.handshake
        /\ Len(r) + 1 \in 1..Len(net.pipeline)
        /\ b = net.pipeline[Len(r) + 1] /\ b \in Batch
    BY <1>1, <1>2, WireHead
  <1>6. r \in Seq(Batch \cup {Hello})
    BY <1>1, NetFields
  <1> HIDE DEF b, r
  <1>7. w \in Writes /\ k \in Docs
    BY <1>5, PipelineAssumption DEF Batch
  <1>8. Len(r) + 1 \in 1..Len(queue[current])
        /\ queue[current][Len(r) + 1] = b
    <2>1. Len(r) \in Nat /\ Len(queue[current]) \in Nat
      BY <1>1, <1>6, LenProperties
    <2> QED BY <2>1, <1>1, <1>5 DEF Front
  <1>9. /\ Len(r) \in Nat /\ Len(rb) = Len(r) + 1
        /\ \A i \in 1..Len(r) : rb[i] = r[i]
        /\ rb[Len(r) + 1] = b
    BY <1>5, <1>6, AppendProperties, LenProperties
  <1> HIDE DEF m, rb, w, k
  <1>10. docs \in [Docs -> Writes \cup {None}] /\ applied \subseteq Writes
    BY DEF Inv, TypeOK
  <1>11. TypeOK'
    <2>1. docs' \in [Docs -> Writes \cup {None}] /\ applied' \subseteq Writes
      BY <1>2, <1>7, <1>10
    <2>2. net' \in Net
      BY <1>2, <1>4
    <2> QED BY <2>1, <2>2, <1>3 DEF Inv, TypeOK
  <1>12. Stored'
    BY <1>3, StoredKept DEF Inv
  <1>13. Streaming'
    BY <1>1, <1>2, <1>3, <1>4 DEF Streaming
  <1>14. Tracked'
    BY <1>2, <1>3, <1>4, TrackedMoved
  <1>15. RepliesApplied(m, applied', docs')
    <2>1. ASSUME NEW j \in 1..Len(rb)
          PROVE  /\ rb[j].write \in applied'
                 /\ (\A i \in 1..Len(rb) : j < i =>
                       Target[rb[i].write] # Target[rb[j].write])
                    => docs'[Target[rb[j].write]] = rb[j].write
      <3>1. CASE j = Len(r) + 1
        BY <3>1, <1>2, <1>7, <1>9, <1>10 DEF w, k
      <3>2. CASE j # Len(r) + 1
        <4>1. j \in 1..Len(r) /\ rb[j] = r[j]
          BY <3>2, <1>9
        <4>2. /\ r[j].write \in applied
              /\ (\A i \in 1..Len(r) : j < i =>
                    Target[r[i].write] # Target[r[j].write])
                 => docs[Target[r[j].write]] = r[j].write
          BY <4>1, <1>5 DEF Inv, Delivered, RepliesApplied, r
        <4>3. ASSUME \A i \in 1..Len(rb) : j < i =>
                       Target[rb[i].write] # Target[rb[j].write]
              PROVE  docs'[Target[rb[j].write]] = rb[j].write
          <5>1. \A i \in 1..Len(r) : j < i =>
                  Target[r[i].write] # Target[r[j].write]
            BY <4>1, <4>3, <1>9
          <5>2. Len(r) + 1 \in 1..Len(rb) /\ j < Len(r) + 1
            BY <4>1, <1>9
          <5>3. Target[r[j].write] # k
            BY <4>1, <4>3, <5>2, <1>9 DEF w, k
          <5>4. docs'[Target[r[j].write]] = docs[Target[r[j].write]]
            BY <5>3, <1>2, <1>10
          <5> QED BY <4>1, <4>2, <5>1, <5>4
        <4> QED BY <4>1, <4>2, <4>3, <1>2
      <3> QED BY <3>1, <3>2
    <2> QED BY <2>1, <1>4 DEF RepliesApplied
  <1>16. LastAckedKept'
    <2>1. ASSUME NEW x \in Docs,
                 \A u \in Users : \A j \in 1..Len(queue[u]) :
                   Target[queue[u][j].write] # x,
                 \A v \in dropped : Target[v] # x
          PROVE  docs'[x] = lastAcked[x]
      <3>1. x # k
        BY <2>1, <1>1, <1>8 DEF w, k
      <3>2. docs'[x] = docs[x]
        BY <3>1, <1>2, <1>10
      <3>3. docs[x] = lastAcked[x]
        BY <2>1 DEF Inv, Delivered, LastAckedKept
      <3> QED BY <3>2, <3>3
    <2> QED BY <2>1, <1>3 DEF LastAckedKept
  <1>17. Delivered'
    BY <1>2, <1>15, <1>16 DEF Delivered
  <1> QED BY <1>11, <1>12, <1>13, <1>14, <1>17 DEF Inv

\* The backend refuses a write.
Refusing(n, b) == [n EXCEPT !.refused = b]
LEMMA RefusingFields ==
  ASSUME NEW n \in Net, NEW b \in BOOLEAN
  PROVE  /\ Refusing(n, b) \in Net
         /\ Refusing(n, b).pipeline = n.pipeline
         /\ Refusing(n, b).state = n.state
         /\ Refusing(n, b).handshake = n.handshake
         /\ Refusing(n, b).idle = n.idle
         /\ Refusing(n, b).closes = n.closes
         /\ Refusing(n, b).asks = n.asks
         /\ Refusing(n, b).as = n.as
         /\ Refusing(n, b).wire = n.wire
         /\ Refusing(n, b).replies = n.replies
  BY DEF Net, Refusing

\* RefuseWrite
LEMMA RefuseWriteKept ==
  ASSUME Inv, RefuseWrite
  PROVE  Inv'
  <1> DEFINE m == Refusing(net, TRUE)
  <1>1. net \in Net /\ StreamFine(net)
        /\ Front(net.pipeline, queue[current])
    BY Facts
  <1>2. net.wire # <<>> /\ net' = m
    BY DEF RefuseWrite, Refusing
  <1>3. TRUE \in BOOLEAN /\ net \in Net
    BY <1>1
  <1>4. /\ m \in Net /\ m.pipeline = net.pipeline /\ m.state = net.state
        /\ m.handshake = net.handshake /\ m.idle = net.idle
        /\ m.closes = net.closes /\ m.asks = net.asks /\ m.as = net.as
        /\ m.wire = net.wire /\ m.replies = net.replies
    BY <1>3, RefusingFields, Zenon
  <1> HIDE DEF m
  <1>5. IsOpen(net)
    BY <1>1, <1>2, WireHead
  <1>6. IsOpen(m) /\ (IsStarted(m) <=> IsStarted(net))
    BY <1>4, <1>5 DEF IsOpen, IsStarted
  <1>7. StreamFine(m)
    BY <1>1, <1>4, <1>5, <1>6 DEF StreamFine
  <1>8. net.closes \in Nat
    BY <1>1, NetFields
  <1>9. Moved(net, m) /\ SameReplies(net, m)
    BY <1>4, <1>8 DEF Moved, SameReplies
  <1>10. RepliesApplied(m, applied, docs)
    BY <1>9, RepliesSame DEF Inv, Delivered
  <1>11. faults \in 0..MaxFaults
    BY DEF Inv, TypeOK
  <1> QED BY <1>1, <1>2, <1>4, <1>7, <1>9, <1>10, <1>11, NetStep
          DEF RefuseWrite, history

\* The oldest batch of a queue goes, and the queues stay as they should be.
LEMMA QueuesAnswered ==
  ASSUME NEW q \in [Users -> Seq(Batch)], NEW n, QueuesFine(q, n),
         NEW c \in Users, q[c] # <<>>
  PROVE  QueuesFine([q EXCEPT ![c] = Tail(@)], n)
  <1> DEFINE p == [q EXCEPT ![c] = Tail(@)]
  <1>1. \A u \in Users : p[u] = IF u = c THEN Tail(q[c]) ELSE q[u]
    OBVIOUS
  <1>2. Ascending(q[c])
    BY DEF QueuesFine
  <1>3. /\ Ascending(Tail(q[c]))
        /\ \A j \in 1..Len(Tail(q[c])) :
             j + 1 \in 1..Len(q[c]) /\ Tail(q[c])[j] = q[c][j + 1]
    <2>1. 0 \in Nat /\ q[c] \in Seq(Batch)
      OBVIOUS
    <2> QED BY <2>1, <1>2, QueueAnswered
  <1> HIDE DEF p
  <1> DEFINE At(u, j) == IF u = c THEN j + 1 ELSE j
  <1>4. \A u \in Users : \A j \in 1..Len(p[u]) :
          At(u, j) \in 1..Len(q[u]) /\ p[u][j] = q[u][At(u, j)]
    BY <1>1, <1>3
  <1>5. \A u \in Users :
          /\ Ascending(p[u])
          /\ \A j \in 1..Len(p[u]) : p[u][j].id <= n /\ p[u][j].write <= n
    <2>1. ASSUME NEW u \in Users PROVE Ascending(p[u])
      BY <1>1, <1>3 DEF QueuesFine
    <2>2. ASSUME NEW u \in Users, NEW j \in 1..Len(p[u])
          PROVE  p[u][j].id <= n /\ p[u][j].write <= n
      BY <1>4 DEF QueuesFine
    <2> QED BY <2>1, <2>2
  <1>6. ASSUME NEW u \in Users, NEW v \in Users,
               NEW i \in 1..Len(p[u]), NEW j \in 1..Len(p[v]),
               p[u][i].write = p[v][j].write
        PROVE  u = v /\ i = j
    <2>1. /\ At(u, i) \in 1..Len(q[u]) /\ p[u][i] = q[u][At(u, i)]
          /\ At(v, j) \in 1..Len(q[v]) /\ p[v][j] = q[v][At(v, j)]
      BY <1>4
    <2>2. u = v /\ At(u, i) = At(v, j)
      BY <2>1, <1>6 DEF QueuesFine
    <2>3. i \in Int /\ j \in Int
      OBVIOUS
    <2> QED BY <2>2, <2>3
  <1> QED BY <1>5, <1>6 DEF QueuesFine, p

\* The front of the pipeline is answered: it was the oldest batch of the open
\* queue, and NotifyUser called its callback and no other.
LEMMA FrontAnswered ==
  ASSUME Inv, net.pipeline # <<>>, NEW result \in {"ok", "failed"},
         NotifyUser(Head(net.pipeline).id, result),
         queue' = [queue EXCEPT
                     ![current] = Without(@, Head(net.pipeline).id)],
         UNCHANGED <<current, nextId, written, launchedAt>>
  PROVE  /\ queue[current] # <<>>
         /\ Head(net.pipeline) = queue[current][1]
         /\ Head(net.pipeline) \in Batch
         /\ queue' = [queue EXCEPT ![current] = Tail(@)]
         /\ queue' \in [Users -> Seq(Batch)]
         /\ queue'[current] = Tail(queue[current])
         /\ Ascending(queue'[current])
         /\ Front(Tail(net.pipeline), queue'[current])
         /\ callbacks' \in [Users -> SUBSET Batch]
         /\ answer' \in [Writes -> {"none", "ok", "failed"}]
         /\ Stored'
  <1> DEFINE q == queue[current]
             b == Head(net.pipeline)
             called == {c \in callbacks[current] : c.id = b.id}
  <1>1. /\ current \in Users /\ queue \in [Users -> Seq(Batch)]
        /\ q \in Seq(Batch) /\ Ascending(q) /\ net \in Net
        /\ Front(net.pipeline, q) /\ written \in Nat /\ launchedAt \in Nat
        /\ callbacks \in [Users -> SUBSET Batch]
        /\ \A u \in Users : callbacks[u] = Mine(queue[u], launchedAt)
    BY Facts
  <1>2. net.pipeline \in Seq(Batch)
    BY <1>1, NetFields
  <1>3. q # <<>> /\ b = q[1] /\ Front(Tail(net.pipeline), Tail(q))
    BY <1>1, <1>2, FrontOfTail
  <1>4. Without(q, b.id) = Tail(q)
    BY <1>1, <1>3, WithoutOldest
  <1>5. /\ Tail(q) \in Seq(Batch) /\ Ascending(Tail(q))
        /\ \A j \in 1..Len(Tail(q)) :
             j + 1 \in 1..Len(q) /\ Tail(q)[j] = q[j + 1]
        /\ Mine(Tail(q), launchedAt) = Mine(q, launchedAt) \
             {c \in Mine(q, launchedAt) : c.id = q[1].id}
        /\ \A c \in Mine(q, launchedAt) : c.id = q[1].id => c = q[1]
        /\ 1 \in 1..Len(q) /\ q[1] \in Batch
    BY <1>1, <1>3, QueueAnswered
  <1>6. queue' = [queue EXCEPT ![current] = Tail(@)]
    BY <1>4
  <1>7. /\ queue' \in [Users -> Seq(Batch)] /\ queue'[current] = Tail(q)
        /\ \A u \in Users : u # current => queue'[u] = queue[u]
    <2>1. /\ current \in Users /\ queue \in [Users -> Seq(Batch)]
          /\ Tail(queue[current]) \in Seq(Batch)
      BY <1>1, <1>5
    <2> HIDE DEF q
    <2>2. /\ queue' \in [Users -> Seq(Batch)]
          /\ queue'[current] = Tail(queue[current])
          /\ \A u \in Users : u # current => queue'[u] = queue[u]
      BY <2>1, <1>6, Zenon
    <2> QED BY <2>2 DEF q
  <1>8. /\ answer' = [w \in Writes |->
                        IF \E c \in called : c.write = w THEN result
                        ELSE answer[w]]
        /\ callbacks' = [callbacks EXCEPT ![current] = @ \ called]
    BY DEF NotifyUser
  <1>9. answer \in [Writes -> {"none", "ok", "failed"}]
    BY DEF Inv, TypeOK
  <1>10. answer' \in [Writes -> {"none", "ok", "failed"}]
    BY <1>8, <1>9
  <1>11. callbacks' \in [Users -> SUBSET Batch]
    BY <1>1, <1>8
  <1>12. QueuesFine(queue', written)
    <2>1. QueuesFine(queue, written)
      BY DEF Inv, Stored
    <2>2. queue[current] # <<>> /\ current \in Users
          /\ queue \in [Users -> Seq(Batch)]
      BY <1>1, <1>3
    <2>3. QueuesFine([queue EXCEPT ![current] = Tail(@)], written)
      BY <2>1, <2>2, QueuesAnswered, Zenon
    <2> QED BY <2>3, <1>6, Zenon
  <1>13. NextIdFree(queue'[current], nextId, written)
    BY <1>5, <1>7 DEF Inv, Stored, NextIdFree
  <1>14. \A u \in Users : callbacks'[u] = Mine(queue'[u], launchedAt)
    <2>1. callbacks'[current] = Mine(q, launchedAt) \
            {c \in Mine(q, launchedAt) : c.id = q[1].id}
      BY <1>1, <1>3, <1>8
    <2>2. \A u \in Users : u # current => callbacks'[u] = callbacks[u]
      BY <1>1, <1>8
    <2> QED BY <2>1, <2>2, <1>1, <1>5, <1>7
  <1>15. AnswersPast(answer', written)
    <2>1. ASSUME NEW w \in Writes, answer'[w] # "none"
          PROVE  w <= written
      <3>1. CASE \E c \in called : c.write = w
        <4>1. PICK c \in called : c.write = w
          BY <3>1
        <4>2. c = q[1]
          BY <1>1, <1>3, <1>5
        <4>3. q[1].write <= written
          BY <1>1, <1>5 DEF Inv, Stored, QueuesFine
        <4> QED BY <4>1, <4>2, <4>3
      <3>2. CASE ~\E c \in called : c.write = w
        <4>1. answer'[w] = answer[w]
          BY <3>2, <1>8
        <4> QED BY <4>1, <2>1 DEF Inv, Stored, AnswersPast
      <3> QED BY <3>1, <3>2
    <2> QED BY <2>1 DEF AnswersPast
  <1>16. launchedAt <= written
    BY DEF Inv, Stored
  <1>17. Stored'
    <2>1. CallbacksMatch'
      BY <1>14 DEF CallbacksMatch, Mine
    <2> QED BY <2>1, <1>12, <1>13, <1>15, <1>16 DEF Stored
  <1> QED BY <1>3, <1>5, <1>6, <1>7, <1>10, <1>11, <1>17

\* What is first among the answers: that to the handshake, alone, or that to
\* the front of the pipeline.
LEMMA RepliesHead ==
  ASSUME NEW n \in Net, StreamFine(n), n.replies # <<>>
  PROVE  /\ IsOpen(n)
         /\ Tail(n.replies) \in Seq(Batch \cup {Hello})
         /\ ~n.handshake => Tail(n.replies) = <<>> /\ n.wire = <<>>
         /\ n.handshake =>
              /\ n.pipeline # <<>>
              /\ Head(n.replies) = Head(n.pipeline)
              /\ Tail(n.replies) \o n.wire = Tail(n.pipeline)
  <1> DEFINE S == Batch \cup {Hello}
             r == n.replies
             w == n.wire
  <1>1. r \in Seq(S) /\ w \in Seq(S)
    BY NetFields
  <1>2. IsOpen(n)
    BY DEF StreamFine
  <1>3. r \o w = IF n.handshake THEN n.pipeline ELSE <<Hello>>
    BY <1>2 DEF StreamFine
  <1>4. r # <<>>
    OBVIOUS
  <1> HIDE DEF S, r, w
  <1>5. r \o w # <<>> /\ Head(r \o w) = Head(r) /\ Tail(r) \o w = Tail(r \o w)
    BY <1>1, <1>4, TailOfConcat
  <1>6. Tail(r) \in Seq(S) /\ Len(Tail(r)) = Len(r) - 1
    BY <1>1, <1>4, HeadTailProperties
  <1>7. Len(r \o w) = Len(r) + Len(w) /\ Len(r) \in Nat /\ Len(w) \in Nat
        /\ Len(r) # 0
    BY <1>1, <1>4, ConcatProperties, LenZero
  <1>8. ASSUME ~n.handshake
        PROVE  Tail(r) = <<>> /\ w = <<>>
    <2>1. r \o w = <<Hello>>
      BY <1>3, <1>8
    <2>2. Len(r \o w) = 1
      BY <2>1
    <2>3. Len(r) = 1 /\ Len(w) = 0
      <3> DEFINE a == Len(r)
                 b == Len(w)
      <3>1. a \in Nat /\ b \in Nat /\ a # 0 /\ a + b = 1
        BY <2>2, <1>7
      <3> HIDE DEF a, b
      <3>2. a = 1 /\ b = 0
        BY <3>1
      <3> QED BY <3>2 DEF a, b
    <2>4. Len(Tail(r)) = 0
      BY <2>3, <1>6
    <2> QED BY <2>3, <2>4, <1>1, <1>6, LenZero
  <1>9. n.handshake => r \o w = n.pipeline
    BY <1>3
  <1> QED BY <1>2, <1>5, <1>6, <1>8, <1>9 DEF S, r, w

\* handshake_complete_ is set and the answer taken.
Greeted(n, b, r) == [n EXCEPT !.handshake = b, !.replies = r]
LEMMA GreetedFields ==
  ASSUME NEW n \in Net, NEW b \in BOOLEAN,
         NEW r \in Seq(Batch \cup {Hello})
  PROVE  /\ Greeted(n, b, r) \in Net
         /\ Greeted(n, b, r).pipeline = n.pipeline
         /\ Greeted(n, b, r).state = n.state
         /\ Greeted(n, b, r).handshake = b
         /\ Greeted(n, b, r).idle = n.idle
         /\ Greeted(n, b, r).closes = n.closes
         /\ Greeted(n, b, r).asks = n.asks
         /\ Greeted(n, b, r).as = n.as
         /\ Greeted(n, b, r).wire = n.wire
         /\ Greeted(n, b, r).replies = r
         /\ Greeted(n, b, r).refused = n.refused
  BY DEF Net, Greeted

\* HandshakeReply
LEMMA HandshakeReplyKept ==
  ASSUME Inv, HandshakeReply
  PROVE  Inv'
  <1> DEFINE t == Tail(net.replies)
             p == net.pipeline
             g == Greeted(net, TRUE, t)
             m == Write(g, p)
  <1>1. /\ net \in Net /\ StreamFine(net)
        /\ Front(net.pipeline, queue[current])
    BY Facts
  <1>2. net.replies # <<>> /\ ~net.handshake /\ net' = m
    BY DEF HandshakeReply, Greeted
  <1>3. /\ IsOpen(net) /\ t \in Seq(Batch \cup {Hello})
        /\ t = <<>> /\ net.wire = <<>>
    BY <1>1, <1>2, RepliesHead
  <1>4. p \in Seq(Batch) /\ net.closes \in Nat
    BY <1>1, NetFields
  <1>5. p # <<>>
    BY <1>1, <1>2, <1>3 DEF StreamFine, IsOpen, IsStarted
  <1>6. TRUE \in BOOLEAN /\ net \in Net /\ t \in Seq(Batch \cup {Hello})
    BY <1>1, <1>3
  <1> HIDE DEF t
  <1>7. /\ g \in Net /\ g.pipeline = net.pipeline /\ g.state = net.state
        /\ g.handshake = TRUE /\ g.idle = net.idle
        /\ g.closes = net.closes /\ g.asks = net.asks /\ g.as = net.as
        /\ g.wire = net.wire /\ g.replies = t /\ g.refused = net.refused
    BY <1>6, GreetedFields, Zenon
  <1> HIDE DEF g, p
  <1>8. g \in Net /\ g.handshake
    BY <1>7, Zenon
  <1>9. /\ m \in Net /\ m.pipeline = g.pipeline /\ m.state = g.state
        /\ m.handshake = g.handshake /\ m.closes = g.closes
        /\ m.asks = g.asks /\ m.as = g.as /\ m.wire = g.wire \o p
        /\ m.replies = g.replies /\ m.refused = g.refused
        /\ m.idle => g.idle /\ p = <<>>
    BY <1>4, <1>8, WriteFields, Zenon
  <1> HIDE DEF m
  <1>10. /\ m.pipeline = net.pipeline /\ m.state = net.state /\ m.handshake
         /\ m.closes = net.closes /\ m.asks = net.asks /\ m.as = net.as
         /\ m.wire = net.wire \o p /\ m.replies = t
         /\ (m.idle => p = <<>>)
    BY <1>7, <1>8, <1>9, Zenon
  <1>11. m.replies = <<>> /\ m.wire = p /\ m.replies \o m.wire = p
    <2>1. <<>> \o p = p
      BY <1>4, ConcatEmptySeq
    <2>2. m.replies = <<>> /\ m.wire = <<>> \o p
      BY <1>3, <1>10
    <2> QED BY <2>1, <2>2
  <1>12. IsOpen(m)
    BY <1>3, <1>10 DEF IsOpen
  <1>13. StreamFine(m)
    <2>1. m.as # None
      BY <1>1, <1>3, <1>10 DEF StreamFine
    <2>2. m.handshake /\ m.pipeline = p /\ ~m.idle
      BY <1>5, <1>10 DEF p
    <2> QED BY <2>1, <2>2, <1>11, <1>12 DEF StreamFine
  <1>14. Moved(net, m)
    BY <1>4, <1>10 DEF Moved
  <1>15. RepliesApplied(m, applied, docs)
    BY <1>11 DEF RepliesApplied
  <1>16. Front(m.pipeline, queue[current]) /\ m \in Net
    BY <1>1, <1>9, <1>10
  <1>17. faults \in 0..MaxFaults
    BY DEF Inv, TypeOK
  <1> QED BY <1>2, <1>13, <1>14, <1>15, <1>16, <1>17, NetStep
          DEF HandshakeReply, history

\* An answer is taken and the front of the pipeline with it.
Acked(n, r, p) == [n EXCEPT !.replies = r, !.pipeline = p]
LEMMA AckedFine ==
  ASSUME NEW n \in Net, StreamFine(n), n.replies # <<>>, n.handshake
  PROVE  LET m == Acked(n, Tail(n.replies), Tail(n.pipeline)) IN
         /\ m \in Net /\ StreamFine(m)
         /\ m.replies = Tail(n.replies) /\ m.pipeline = Tail(n.pipeline)
         /\ m.closes = n.closes /\ m.asks = n.asks
         /\ m.state = n.state /\ m.as = n.as
         /\ m.handshake = n.handshake
  <1> DEFINE r == Tail(n.replies)
             p == Tail(n.pipeline)
             m == Acked(n, r, p)
  <1>1. IsOpen(n) /\ n.pipeline # <<>> /\ r \in Seq(Batch \cup {Hello})
        /\ r \o n.wire = p
    BY RepliesHead
  <1>2. p \in Seq(Batch)
    BY <1>1, NetFields, HeadTailProperties
  <1> HIDE DEF r, p
  <1>3. /\ m \in Net /\ m.pipeline = p /\ m.state = n.state
        /\ m.handshake = n.handshake /\ m.idle = n.idle
        /\ m.closes = n.closes /\ m.asks = n.asks /\ m.as = n.as
        /\ m.wire = n.wire /\ m.replies = r /\ m.refused = n.refused
    <2>1. r \in Seq(Batch \cup {Hello}) /\ p \in Seq(Batch)
      BY <1>1, <1>2
    <2> QED BY <2>1 DEF Net, Acked
  <1> HIDE DEF m
  <1>4. IsOpen(m) /\ m.handshake
    BY <1>1, <1>3 DEF IsOpen
  <1>5. ~m.idle
    BY <1>1, <1>3 DEF StreamFine
  <1>6. m.as # None
    BY <1>1, <1>3 DEF StreamFine
  <1>7. StreamFine(m)
    BY <1>1, <1>3, <1>4, <1>5, <1>6 DEF StreamFine
  <1> QED BY <1>3, <1>7 DEF m, r, p

\* The answers behind the first are as they were.
LEMMA RepliesShift ==
  ASSUME NEW n \in Net, NEW m, NEW a, NEW d, RepliesApplied(n, a, d),
         n.replies # <<>>, m.replies = Tail(n.replies), n.handshake
  PROVE  RepliesApplied(m, a, d)
  <1> DEFINE r == n.replies
             t == Tail(r)
  <1>1. r \in Seq(Batch \cup {Hello}) /\ r # <<>>
    BY NetFields
  <1> HIDE DEF r
  <1>2. /\ Len(r) \in Nat /\ Len(t) = Len(r) - 1
        /\ \A i \in 1..Len(t) : t[i] = r[i + 1]
    BY <1>1, HeadTailProperties, LenProperties
  <1>3. m.replies = t
    BY DEF r
  <1> HIDE DEF t
  <1>4. ASSUME NEW j \in 1..Len(t)
        PROVE  /\ t[j].write \in a
               /\ (\A i \in 1..Len(t) : j < i =>
                     Target[t[i].write] # Target[t[j].write])
                  => d[Target[t[j].write]] = t[j].write
    <2>1. j + 1 \in 1..Len(r) /\ t[j] = r[j + 1]
      BY <1>2
    <2>2. /\ r[j + 1].write \in a
          /\ (\A i \in 1..Len(r) : j + 1 < i =>
                Target[r[i].write] # Target[r[j + 1].write])
             => d[Target[r[j + 1].write]] = r[j + 1].write
      BY <2>1 DEF RepliesApplied, r
    <2>3. ASSUME \A i \in 1..Len(t) : j < i =>
                   Target[t[i].write] # Target[t[j].write]
          PROVE  d[Target[t[j].write]] = t[j].write
      <3>1. ASSUME NEW i \in 1..Len(r), j + 1 < i
            PROVE  Target[r[i].write] # Target[r[j + 1].write]
        <4>1. i - 1 \in 1..Len(t) /\ j < i - 1 /\ (i - 1) + 1 = i
          BY <3>1, <1>2
        <4>2. t[i - 1] = r[i]
          BY <4>1, <1>2
        <4> QED BY <4>1, <4>2, <2>1, <2>3
      <3> QED BY <3>1, <2>1, <2>2
    <2> QED BY <2>1, <2>2, <2>3
  <1> QED BY <1>3, <1>4 DEF RepliesApplied

\* When the oldest batch of a queue goes, every other one stays.
StillQueued(p, q, c) ==
  \A u \in Users : \A j \in 1..Len(q[u]) :
    q[u][j] # q[c][1] => \E i \in 1..Len(p[u]) : p[u][i] = q[u][j]
LEMMA OthersQueued ==
  ASSUME NEW q \in [Users -> Seq(Batch)], NEW c \in Users, q[c] # <<>>,
         NEW p, p[c] = Tail(q[c]),
         \A u \in Users : u # c => p[u] = q[u]
  PROVE  StillQueued(p, q, c)
  <1> SUFFICES ASSUME NEW u \in Users, NEW j \in 1..Len(q[u]),
                      q[u][j] # q[c][1]
               PROVE  \E i \in 1..Len(p[u]) : p[u][i] = q[u][j]
    BY DEF StillQueued
  <1>1. CASE u # c
    <2>1. p[u] = q[u]
      BY <1>1
    <2> QED BY <2>1
  <1>2. CASE u = c
    <2> DEFINE s == q[c]
               t == Tail(s)
    <2>1. s \in Seq(Batch) /\ s # <<>>
      OBVIOUS
    <2>2. p[u] = t
      BY <1>2
    <2>3. j \in 1..Len(s) /\ s[j] # s[1] /\ s[j] = q[u][j]
      BY <1>2
    <2> HIDE DEF s
    <2>4. /\ Len(s) \in Nat /\ Len(t) = Len(s) - 1
          /\ \A i \in 1..Len(t) : t[i] = s[i + 1]
      BY <2>1, HeadTailProperties, LenProperties
    <2> HIDE DEF t
    <2>5. j # 1
      BY <2>3
    <2>6. j - 1 \in 1..Len(t) /\ (j - 1) + 1 = j
      BY <2>3, <2>4, <2>5
    <2>7. t[j - 1] = s[j]
      BY <2>4, <2>6
    <2> QED BY <2>2, <2>3, <2>6, <2>7
  <1> QED BY <1>1, <1>2

\* The answer to the front of the pipeline is the last one about its document
\* when nothing else is queued for that document.
LEMMA FirstReplyKnown ==
  ASSUME Inv, net.replies # <<>>, net.handshake,
         queue' = [queue EXCEPT ![current] = Tail(@)],
         Front(Tail(net.pipeline), queue'[current]),
         \A j \in 1..Len(queue'[current]) :
           Target[queue'[current][j].write]
             # Target[Head(net.pipeline).write]
  PROVE  /\ Head(net.pipeline).write \in applied
         /\ docs[Target[Head(net.pipeline).write]] = Head(net.pipeline).write
  <1> DEFINE r == net.replies
             p == net.pipeline
             q == queue'[current]
             x == Target[Head(p).write]
  <1>1. net \in Net /\ StreamFine(net)
    BY Facts
  <1>2. p # <<>> /\ Head(r) = Head(p) /\ Tail(r) \o net.wire = Tail(p)
    BY <1>1, RepliesHead
  <1>3. /\ r \in Seq(Batch \cup {Hello}) /\ p \in Seq(Batch)
        /\ net.wire \in Seq(Batch \cup {Hello}) /\ r # <<>>
    BY <1>1, NetFields
  <1>4. RepliesApplied(net, applied, docs)
    BY DEF Inv, Delivered
  <1>5. /\ Front(Tail(p), q)
        /\ \A j \in 1..Len(q) : Target[q[j].write] # x
    OBVIOUS
  <1> DEFINE v == net.wire
  <1>6. v \in Seq(Batch \cup {Hello}) /\ Tail(r) \o v = Tail(p)
    BY <1>2, <1>3
  <1>7. \A j \in 1..Len(r) :
          /\ r[j].write \in applied
          /\ (\A i \in 1..Len(r) : j < i =>
                Target[r[i].write] # Target[r[j].write])
             => docs[Target[r[j].write]] = r[j].write
    BY <1>4 DEF RepliesApplied
  <1> HIDE DEF r, p, q, v
  <1>8. /\ Len(r) \in Nat \ {0} /\ Head(r) = r[1]
        /\ Tail(r) \in Seq(Batch \cup {Hello}) /\ Len(Tail(r)) = Len(r) - 1
        /\ \A i \in 1..Len(Tail(r)) : Tail(r)[i] = r[i + 1]
    BY <1>3, HeadTailProperties, LenZero
  <1> DEFINE t == Tail(r)
  <1>9. /\ Len(t) \in Nat /\ Len(v) \in Nat
        /\ Len(t \o v) = Len(t) + Len(v)
        /\ \A i \in 1..(Len(t) + Len(v)) : (t \o v)[i] =
             IF i <= Len(t) THEN t[i] ELSE v[i - Len(t)]
    BY <1>6, <1>8, ConcatProperties, LenProperties
  <1>10. t \o v = Tail(p)
    BY <1>6
  <1>11. Len(t) = Len(r) - 1 /\ \A i \in 1..Len(t) : t[i] = r[i + 1]
    BY <1>8
  <1> HIDE DEF t
  <1>12. Len(Tail(p)) = Len(t) + Len(v)
         /\ \A i \in 1..Len(t) : Tail(p)[i] = t[i]
    <2>1. Len(t \o v) = Len(Tail(p)) /\ Len(t \o v) = Len(t) + Len(v)
      BY <1>9, <1>10
    <2>2. ASSUME NEW i \in 1..Len(t) PROVE (t \o v)[i] = t[i]
      <3>1. i \in 1..(Len(t) + Len(v)) /\ i <= Len(t)
        BY <1>9
      <3> QED BY <3>1, <1>9
    <2> QED BY <2>1, <2>2, <1>10
  <1>13. ASSUME NEW i \in 1..Len(r), 1 < i
         PROVE  Target[r[i].write] # x
    <2>1. i - 1 \in 1..Len(t) /\ (i - 1) + 1 = i
      BY <1>8, <1>11, <1>13
    <2>2. r[i] = Tail(p)[i - 1]
      BY <2>1, <1>11, <1>12
    <2>3. i - 1 \in 1..Len(Tail(p)) /\ Len(Tail(p)) <= Len(q)
          /\ Len(Tail(p)) \in Nat
      <3>1. Len(Tail(p)) = Len(t) + Len(v)
        BY <1>12
      <3>2. Len(Tail(p)) <= Len(q)
        BY <1>5 DEF Front
      <3> DEFINE a == Len(t)
                 b == Len(v)
                 c == Len(Tail(p))
      <3>3. a \in Nat /\ b \in Nat /\ c = a + b /\ i - 1 \in 1..a
        BY <3>1, <2>1, <1>9
      <3> HIDE DEF a, b, c
      <3>4. i - 1 \in 1..c /\ c \in Nat
        BY <3>3
      <3> QED BY <3>2, <3>4 DEF c
    <2>4. Tail(p)[i - 1] = q[i - 1]
      BY <2>3, <1>5 DEF Front
    <2>5. Len(q) \in Nat
      BY Facts, <1>5 DEF q
    <2> QED BY <2>2, <2>3, <2>4, <2>5, <1>5
  <1>14. 1 \in 1..Len(r) /\ r[1] = Head(p)
    BY <1>2, <1>8 DEF r, p
  <1> QED BY <1>7, <1>13, <1>14 DEF r, p, x

\* MutationReply
LEMMA MutationReplyKept ==
  ASSUME Inv, MutationReply
  PROVE  Inv'
  <1> DEFINE b == Head(net.pipeline)
             w == b.write
             k == Target[w]
             n == Acked(net, Tail(net.replies), Tail(net.pipeline))
             q == queue'[current]
             m == FillWritePipeline(n, q)
  <1>1. /\ net \in Net /\ StreamFine(net) /\ tokens \in Nat
        /\ current \in Users /\ queue \in [Users -> Seq(Batch)]
    BY Facts
  <1>2. /\ net.replies # <<>> /\ net.handshake
        /\ NotifyUser(Head(net.pipeline).id, "ok")
        /\ queue' = [queue EXCEPT
                       ![current] = Without(@, Head(net.pipeline).id)]
        /\ net' = m
        /\ lastAcked' = [lastAcked EXCEPT ![k] = w]
    BY DEF MutationReply, Acked
  <1>3. UNCHANGED <<authUser, tokens, main, worker, current, nextId, docs,
                    applied, written, dropped, faults, launchedAt>>
    BY DEF MutationReply
  <1>4. net.pipeline # <<>>
    BY <1>1, <1>2, RepliesHead
  <1>5. /\ queue[current] # <<>> /\ b = queue[current][1] /\ b \in Batch
        /\ queue' = [queue EXCEPT ![current] = Tail(@)]
        /\ queue' \in [Users -> Seq(Batch)]
        /\ queue'[current] = Tail(queue[current])
        /\ Ascending(q)
        /\ Front(Tail(net.pipeline), q)
        /\ callbacks' \in [Users -> SUBSET Batch]
        /\ answer' \in [Writes -> {"none", "ok", "failed"}]
        /\ Stored'
    <2>1. "ok" \in {"ok", "failed"}
      OBVIOUS
    <2> QED BY <2>1, <1>2, <1>3, <1>4, FrontAnswered
  <1>6. /\ n \in Net /\ StreamFine(n)
        /\ n.replies = Tail(net.replies) /\ n.pipeline = Tail(net.pipeline)
        /\ n.closes = net.closes /\ n.asks = net.asks
        /\ n.state = net.state /\ n.as = net.as /\ n.handshake
    BY <1>1, <1>2, AckedFine
  <1> HIDE DEF n
  <1>7. q \in Seq(Batch)
    BY <1>1, <1>5
  <1>8. w \in Writes /\ k \in Docs
    BY <1>5, PipelineAssumption DEF Batch
  <1>9. q = queue'[current]
    OBVIOUS
  <1>10. /\ m \in Net /\ StreamFine(m) /\ Front(m.pipeline, q)
         /\ Moved(n, m) /\ SameReplies(n, m)
    <2>1. Ascending(q) /\ Front(n.pipeline, q) /\ n \in Net /\ StreamFine(n)
      BY <1>5, <1>6
    <2> HIDE DEF q
    <2> QED BY <2>1, <1>1, <1>7, FillFine
  <1> HIDE DEF m, q
  <1>11. Moved(net, m)
    BY <1>6, <1>10 DEF Moved
  <1>12. RepliesApplied(m, applied, docs)
    <2>1. RepliesApplied(net, applied, docs)
      BY DEF Inv, Delivered
    <2>2. RepliesApplied(n, applied, docs)
      BY <2>1, <1>1, <1>2, <1>6, RepliesShift
    <2> QED BY <2>2, <1>10, RepliesSame
  <1>13. lastAcked \in [Docs -> Writes \cup {None}]
    BY DEF Inv, TypeOK
  <1>14. lastAcked' \in [Docs -> Writes \cup {None}]
         /\ lastAcked'[k] = w
         /\ \A x \in Docs : x # k => lastAcked'[x] = lastAcked[x]
    <2> HIDE DEF w, k
    <2> QED BY <1>2, <1>8, <1>13
  <1>15. TypeOK'
    <2>1. net' \in Net
      BY <1>2, <1>10
    <2> QED BY <2>1, <1>3, <1>5, <1>14 DEF Inv, TypeOK
  <1>16. Streaming'
    BY <1>2, <1>3, <1>9, <1>10 DEF Streaming
  <1>17. Tracked'
    BY <1>2, <1>3, <1>10, <1>11, TrackedMoved
  <1>18. LastAckedKept'
    <2>1. ASSUME NEW x \in Docs,
                 \A u \in Users : \A j \in 1..Len(queue'[u]) :
                   Target[queue'[u][j].write] # x,
                 \A v \in dropped : Target[v] # x
          PROVE  docs[x] = lastAcked'[x]
      <3>1. CASE x = k
        <4>1. \A j \in 1..Len(queue'[current]) :
                Target[queue'[current][j].write] # Target[b.write]
          BY <2>1, <3>1, <1>1
        <4>2. docs[Target[b.write]] = b.write
          BY <4>1, <1>2, <1>5, <1>9, FirstReplyKnown
        <4> QED BY <4>2, <3>1, <1>14
      <3>2. CASE x # k
        <4>1. ASSUME NEW u \in Users, NEW j \in 1..Len(queue[u])
              PROVE  Target[queue[u][j].write] # x
          <5>1. CASE queue[u][j] = queue[current][1]
            BY <5>1, <3>2, <1>5
          <5>2. CASE queue[u][j] # queue[current][1]
            <6> DEFINE nq == queue'
            <6>1. /\ queue \in [Users -> Seq(Batch)] /\ current \in Users
                  /\ queue[current] # <<>>
                  /\ nq[current] = Tail(queue[current])
                  /\ \A v \in Users : v # current => nq[v] = queue[v]
              BY <1>1, <1>5
            <6> HIDE DEF nq
            <6>2. StillQueued(nq, queue, current)
              BY <6>1, OthersQueued, Zenon
            <6>3. \E i \in 1..Len(nq[u]) : nq[u][i] = queue[u][j]
              BY <6>2, <5>2, <4>1 DEF StillQueued
            <6> QED BY <6>3, <2>1 DEF nq
          <5> QED BY <5>1, <5>2
        <4>2. docs[x] = lastAcked[x]
          BY <4>1, <2>1 DEF Inv, Delivered, LastAckedKept
        <4> QED BY <4>2, <3>2, <1>14
      <3> QED BY <3>1, <3>2
    <2> QED BY <2>1, <1>3 DEF LastAckedKept
  <1>19. Delivered'
    BY <1>2, <1>3, <1>12, <1>18 DEF Delivered
  <1> QED BY <1>5, <1>15, <1>16, <1>17, <1>19 DEF Inv

\* StreamRefused
LEMMA StreamRefusedKept ==
  ASSUME Inv, StreamRefused
  PROVE  Inv'
  <1> DEFINE b == Head(net.pipeline)
             w == b.write
             q == queue'[current]
             m == DropFrontAfter(net, q)
  <1>1. /\ net \in Net /\ StreamFine(net) /\ tokens \in Nat
        /\ current \in Users /\ queue \in [Users -> Seq(Batch)]
    BY Facts
  <1>2. /\ net.pipeline # <<>>
        /\ NotifyUser(Head(net.pipeline).id, "failed")
        /\ queue' = [queue EXCEPT
                       ![current] = Without(@, Head(net.pipeline).id)]
        /\ net' = m
        /\ dropped' = dropped \cup {w}
    BY DEF StreamRefused
  <1>3. UNCHANGED <<authUser, tokens, main, worker, current, nextId, docs,
                    applied, lastAcked, written, faults, launchedAt>>
    BY DEF StreamRefused
  <1>4. /\ queue[current] # <<>> /\ b = queue[current][1] /\ b \in Batch
        /\ queue' = [queue EXCEPT ![current] = Tail(@)]
        /\ queue' \in [Users -> Seq(Batch)]
        /\ queue'[current] = Tail(queue[current])
        /\ Ascending(q)
        /\ Front(Tail(net.pipeline), q)
        /\ callbacks' \in [Users -> SUBSET Batch]
        /\ answer' \in [Writes -> {"none", "ok", "failed"}]
        /\ Stored'
    <2>1. "failed" \in {"ok", "failed"}
      OBVIOUS
    <2> QED BY <2>1, <1>2, <1>3, FrontAnswered
  <1>5. q \in Seq(Batch)
    BY <1>1, <1>4
  <1>6. w \in Writes
    BY <1>4 DEF Batch
  <1>7. q = queue'[current]
    OBVIOUS
  <1>8. /\ m \in Net /\ StreamFine(m) /\ Front(m.pipeline, q)
        /\ Moved(net, m) /\ ~m.handshake
    <2>1. Ascending(q) /\ Front(Tail(net.pipeline), q)
      BY <1>4
    <2> HIDE DEF q
    <2> QED BY <2>1, <1>1, <1>2, <1>5, DropFine
  <1> HIDE DEF m, q
  <1>9. RepliesApplied(m, applied, docs)
    BY <1>8 DEF RepliesApplied
  <1>10. TypeOK'
    <2>1. net' \in Net
      BY <1>2, <1>8
    <2>2. dropped' \subseteq Writes
      BY <1>2, <1>6 DEF Inv, TypeOK
    <2> QED BY <2>1, <2>2, <1>3, <1>4 DEF Inv, TypeOK
  <1>11. Streaming'
    BY <1>2, <1>3, <1>7, <1>8 DEF Streaming
  <1>12. Tracked'
    BY <1>2, <1>3, <1>8, TrackedMoved
  <1>13. LastAckedKept'
    <2>1. ASSUME NEW x \in Docs,
                 \A u \in Users : \A j \in 1..Len(queue'[u]) :
                   Target[queue'[u][j].write] # x,
                 \A v \in dropped' : Target[v] # x
          PROVE  docs[x] = lastAcked[x]
      <3>1. Target[w] # x /\ \A v \in dropped : Target[v] # x
        BY <2>1, <1>2
      <3>2. ASSUME NEW u \in Users, NEW j \in 1..Len(queue[u])
            PROVE  Target[queue[u][j].write] # x
        <4>1. CASE queue[u][j] = queue[current][1]
          BY <4>1, <3>1, <1>4
        <4>2. CASE queue[u][j] # queue[current][1]
          <5> DEFINE nq == queue'
          <5>1. /\ queue \in [Users -> Seq(Batch)] /\ current \in Users
                /\ queue[current] # <<>>
                /\ nq[current] = Tail(queue[current])
                /\ \A v \in Users : v # current => nq[v] = queue[v]
            BY <1>1, <1>4
          <5> HIDE DEF nq
          <5>2. StillQueued(nq, queue, current)
            BY <5>1, OthersQueued, Zenon
          <5>3. \E i \in 1..Len(nq[u]) : nq[u][i] = queue[u][j]
            BY <5>2, <4>2, <3>2 DEF StillQueued
          <5> QED BY <5>3, <2>1 DEF nq
        <4> QED BY <4>1, <4>2
      <3> QED BY <3>1, <3>2 DEF Inv, Delivered, LastAckedKept
    <2> QED BY <2>1, <1>3 DEF LastAckedKept
  <1>14. Delivered'
    BY <1>2, <1>3, <1>9, <1>13 DEF Delivered
  <1> QED BY <1>4, <1>10, <1>11, <1>12, <1>14 DEF Inv

\* A batch is added to a queue, and the queues stay as they should be.
LEMMA QueuesWritten ==
  ASSUME NEW q \in [Users -> Seq(Batch)], NEW n \in Nat, QueuesFine(q, n),
         NEW c \in Users, NEW b \in Batch, b.write = n + 1, b.id <= n + 1,
         \A j \in 1..Len(q[c]) : q[c][j].id < b.id,
         NEW p, p[c] = Append(q[c], b),
         \A u \in Users : u # c => p[u] = q[u]
  PROVE  /\ QueuesFine(p, n + 1)
         /\ \A u \in Users : \A j \in 1..Len(q[u]) :
              j \in 1..Len(p[u]) /\ p[u][j] = q[u][j]
  <1>1. /\ \A u \in Users : \A j \in 1..Len(q[u]) :
             /\ q[u][j].id <= n /\ q[u][j].write <= n
             /\ q[u][j].id \in Nat /\ q[u][j].write \in Nat
        /\ \A u \in Users : Ascending(q[u])
    <2>1. ASSUME NEW u \in Users, NEW j \in 1..Len(q[u])
          PROVE  q[u][j].id \in Nat /\ q[u][j].write \in Nat
      <3>1. q[u] \in Seq(Batch)
        OBVIOUS
      <3>2. q[u][j] \in Batch
        BY <3>1, ElementOfSeq
      <3> QED BY <3>2, PipelineAssumption DEF Batch, Writes
    <2> QED BY <2>1 DEF QueuesFine
  <1>2. q[c] \in Seq(Batch) /\ Len(q[c]) \in Nat
    BY LenProperties
  <1>3. /\ Ascending(Append(q[c], b))
        /\ \A j \in 1..Len(Append(q[c], b)) :
             \/ j \in 1..Len(q[c]) /\ Append(q[c], b)[j] = q[c][j]
             \/ j = Len(q[c]) + 1 /\ Append(q[c], b)[j] = b
    <2> DEFINE s == q[c]
    <2>1. /\ n \in Nat /\ b.write > n /\ b \in Batch
          /\ s \in Seq(Batch) /\ Ascending(s)
          /\ \A j \in 1..Len(s) : s[j].id < b.id
      BY <1>1, <1>2
    <2> HIDE DEF s
    <2>2. /\ Ascending(Append(s, b))
          /\ \A j \in 1..Len(Append(s, b)) :
               \/ j \in 1..Len(s) /\ Append(s, b)[j] = s[j]
               \/ j = Len(s) + 1 /\ Append(s, b)[j] = b
      BY <2>1, QueueWritten
    <2> QED BY <2>2 DEF s
  <1>4. /\ Len(Append(q[c], b)) = Len(q[c]) + 1
        /\ \A j \in 1..Len(q[c]) : Append(q[c], b)[j] = q[c][j]
    BY <1>2, AppendProperties
  <1>5. \A u \in Users : \A j \in 1..Len(p[u]) :
          \/ j \in 1..Len(q[u]) /\ p[u][j] = q[u][j]
          \/ u = c /\ j = Len(q[c]) + 1 /\ p[u][j] = b
    BY <1>3
  <1>6. \A u \in Users : Ascending(p[u])
    BY <1>1, <1>3
  <1>7. ASSUME NEW u \in Users, NEW j \in 1..Len(p[u])
        PROVE  p[u][j].id <= n + 1 /\ p[u][j].write <= n + 1
    <2>1. CASE j \in 1..Len(q[u]) /\ p[u][j] = q[u][j]
      BY <2>1, <1>1
    <2>2. CASE p[u][j] = b
      BY <2>2
    <2> QED BY <2>1, <2>2, <1>5
  <1>8. ASSUME NEW u \in Users, NEW v \in Users, NEW i \in 1..Len(p[u]),
               NEW j \in 1..Len(p[v]), p[u][i].write = p[v][j].write
        PROVE  u = v /\ i = j
    <2>1. CASE /\ i \in 1..Len(q[u]) /\ p[u][i] = q[u][i]
               /\ j \in 1..Len(q[v]) /\ p[v][j] = q[v][j]
      BY <2>1, <1>8 DEF QueuesFine
    <2>2. CASE /\ i \in 1..Len(q[u]) /\ p[u][i] = q[u][i]
               /\ p[v][j] = b
      BY <2>2, <1>1, <1>8
    <2>3. CASE /\ p[u][i] = b
               /\ j \in 1..Len(q[v]) /\ p[v][j] = q[v][j]
      BY <2>3, <1>1, <1>8
    <2>4. CASE /\ u = c /\ i = Len(q[c]) + 1
               /\ v = c /\ j = Len(q[c]) + 1
      BY <2>4
    <2> QED BY <2>1, <2>2, <2>3, <2>4, <1>5
  <1>9. QueuesFine(p, n + 1)
    BY <1>6, <1>7, <1>8 DEF QueuesFine
  <1>10. \A u \in Users : \A j \in 1..Len(q[u]) :
           j \in 1..Len(p[u]) /\ p[u][j] = q[u][j]
    <2>1. ASSUME NEW j \in 1..Len(q[c])
          PROVE  j \in 1..Len(p[c]) /\ p[c][j] = q[c][j]
      BY <1>2, <1>4
    <2>2. ASSUME NEW u \in Users, u # c, NEW j \in 1..Len(q[u])
          PROVE  j \in 1..Len(p[u]) /\ p[u][j] = q[u][j]
      <3>1. p[u] = q[u]
        BY <2>2
      <3> QED BY <3>1
    <2> QED BY <2>1, <2>2
  <1> QED BY <1>9, <1>10

\* WriteMutations
LEMMA WriteMutationsKept ==
  ASSUME Inv, WriteMutations
  PROVE  Inv'
  <1> DEFINE b == [id |-> nextId, write |-> written + 1]
             q == queue[current]
             qb == queue'[current]
             m == FillWritePipeline(net, qb)
             nq == queue'
  <1>1. /\ net \in Net /\ StreamFine(net) /\ tokens \in Nat
        /\ current \in Users /\ queue \in [Users -> Seq(Batch)]
        /\ q \in Seq(Batch) /\ Ascending(q) /\ Front(net.pipeline, q)
        /\ written \in Nat /\ launchedAt \in Nat /\ launchedAt <= written
        /\ nextId \in Nat \ {0}
        /\ callbacks \in [Users -> SUBSET Batch]
        /\ \A u \in Users : callbacks[u] = Mine(queue[u], launchedAt)
    BY Facts
  <1>2. /\ written < MaxWrites
        /\ nq = [queue EXCEPT ![current] = Append(@, b)]
        /\ callbacks' = [callbacks EXCEPT ![current] =
             IF \E c \in @ : c.id = nextId THEN @ ELSE @ \cup {b}]
        /\ nextId' = nextId + 1 /\ written' = written + 1
        /\ net' = m
    BY DEF WriteMutations
  <1>3. UNCHANGED <<authUser, tokens, main, worker, current, docs, applied,
                    lastAcked, answer, dropped, faults, launchedAt>>
    BY DEF WriteMutations
  <1>4. b \in Batch /\ b.id = nextId /\ b.write = written + 1
    BY <1>1, <1>2, PipelineAssumption DEF Batch, Writes
  <1> HIDE DEF b
  <1>5. nextId <= written + 1 /\ \A j \in 1..Len(q) : q[j].id < nextId
    BY DEF Inv, Stored, NextIdFree
  <1>6. b.write > launchedAt /\ \A j \in 1..Len(q) : q[j].id < b.id
    <2>1. b.write = written + 1 /\ b.id = nextId
      BY <1>4
    <2>2. written + 1 > launchedAt
      BY <1>1
    <2> HIDE DEF q
    <2> QED BY <2>1, <2>2, <1>5
  <1>7. /\ nq \in [Users -> Seq(Batch)] /\ nq[current] = Append(q, b)
        /\ \A u \in Users : u # current => nq[u] = queue[u]
        /\ qb = Append(q, b)
    <2>1. Append(q, b) \in Seq(Batch)
      BY <1>1, <1>4, AppendProperties
    <2> QED BY <2>1, <1>1, <1>2
  <1>8. /\ Append(q, b) \in Seq(Batch) /\ Ascending(Append(q, b))
        /\ \A j \in 1..Len(Append(q, b)) :
             \/ j \in 1..Len(q) /\ Append(q, b)[j] = q[j]
             \/ j = Len(q) + 1 /\ Append(q, b)[j] = b
        /\ Mine(Append(q, b), launchedAt) = Mine(q, launchedAt) \cup {b}
        /\ \A c \in Mine(q, launchedAt) : c.id # b.id
    <2>1. /\ q \in Seq(Batch) /\ launchedAt \in Nat /\ Ascending(q)
          /\ b \in Batch /\ b.write > launchedAt
          /\ \A j \in 1..Len(q) : q[j].id < b.id
      BY <1>1, <1>4, <1>6
    <2> HIDE DEF q
    <2> QED BY <2>1, QueueWritten
  <1>9. Front(net.pipeline, qb)
    <2>1. net.pipeline \in Seq(Batch)
      BY <1>1, NetFields
    <2> QED BY <2>1, <1>1, <1>4, <1>7, FrontOfAppend
  <1>10. /\ QueuesFine(nq, written + 1)
         /\ \A u \in Users : \A j \in 1..Len(queue[u]) :
              j \in 1..Len(nq[u]) /\ nq[u][j] = queue[u][j]
    <2>1. QueuesFine(queue, written)
      BY DEF Inv, Stored
    <2>2. /\ queue \in [Users -> Seq(Batch)] /\ written \in Nat
          /\ current \in Users /\ b \in Batch /\ b.write = written + 1
          /\ b.id <= written + 1
          /\ \A j \in 1..Len(queue[current]) : queue[current][j].id < b.id
          /\ nq[current] = Append(queue[current], b)
          /\ \A u \in Users : u # current => nq[u] = queue[u]
      BY <1>1, <1>4, <1>5, <1>6, <1>7
    <2> HIDE DEF nq, q, qb
    <2> QED BY <2>1, <2>2, QueuesWritten
  <1>11. callbacks'[current] = callbacks[current] \cup {b}
         /\ \A u \in Users : u # current => callbacks'[u] = callbacks[u]
    BY <1>1, <1>2, <1>4, <1>8
  <1>12. callbacks' \in [Users -> SUBSET Batch]
    <2>1. callbacks[current] \cup {b} \in SUBSET Batch
      BY <1>1, <1>4
    <2> QED BY <2>1, <1>1, <1>2
  <1>13. \A u \in Users : callbacks'[u] = Mine(nq[u], launchedAt)
    BY <1>1, <1>7, <1>8, <1>11
  <1>14. qb \in Seq(Batch) /\ Ascending(qb)
    BY <1>7, <1>8
  <1>15. /\ m \in Net /\ StreamFine(m) /\ Front(m.pipeline, qb)
         /\ Moved(net, m) /\ SameReplies(net, m)
    <2> HIDE DEF qb
    <2> QED BY <1>1, <1>9, <1>14, FillFine
  <1> HIDE DEF m
  <1>16. TypeOK'
    <2>1. net' \in Net /\ queue' \in [Users -> Seq(Batch)]
      BY <1>2, <1>7, <1>15
    <2>2. nextId' \in Nat \ {0} /\ written' \in 0..MaxWrites
      BY <1>1, <1>2, PipelineAssumption
    <2> QED BY <2>1, <2>2, <1>3, <1>12 DEF Inv, TypeOK
  <1>17. Stored'
    <2>1. CallbacksMatch'
      BY <1>3, <1>13 DEF CallbacksMatch, Mine
    <2>2. NextIdFree(qb, nextId', written')
      <3>1. \A j \in 1..Len(q) : q[j] \in Batch
        BY <1>1, ElementOfSeq
      <3>2. \A j \in 1..Len(q) : q[j].id \in Nat
        BY <3>1 DEF Batch
      <3>3. /\ \A j \in 1..Len(qb) :
                 (j \in 1..Len(q) /\ qb[j] = q[j]) \/ qb[j] = b
            /\ nextId' = nextId + 1 /\ written' = written + 1
            /\ b.id = nextId /\ nextId \in Nat /\ written \in Nat
        BY <1>1, <1>2, <1>4, <1>7, <1>8
      <3> HIDE DEF q, qb
      <3>4. ASSUME NEW j \in 1..Len(qb) PROVE qb[j].id < nextId'
        <4>1. CASE qb[j] = b
          BY <4>1, <3>3
        <4>2. CASE j \in 1..Len(q) /\ qb[j] = q[j]
          <5>1. q[j].id \in Nat /\ q[j].id < nextId
            BY <4>2, <3>2, <1>5
          <5> QED BY <5>1, <4>2, <3>3
        <4> QED BY <4>1, <4>2, <3>3
      <3>5. nextId' <= written' + 1
        BY <3>3, <1>5
      <3> QED BY <3>4, <3>5 DEF NextIdFree
    <2>3. AnswersPast(answer, written')
      BY <1>1, <1>2, PipelineAssumption DEF Inv, Stored, AnswersPast, Writes
    <2> QED BY <2>1, <2>2, <2>3, <1>1, <1>2, <1>3, <1>10 DEF Stored
  <1>18. Streaming'
    BY <1>2, <1>3, <1>15 DEF Streaming
  <1>19. Tracked'
    BY <1>2, <1>3, <1>15, TrackedMoved
  <1>20. RepliesApplied(m, applied, docs)
    BY <1>15, RepliesSame DEF Inv, Delivered
  <1>21. LastAckedKept'
    <2>1. ASSUME NEW x \in Docs,
                 \A u \in Users : \A j \in 1..Len(nq[u]) :
                   Target[nq[u][j].write] # x,
                 \A v \in dropped : Target[v] # x
          PROVE  docs[x] = lastAcked[x]
      <3>1. \A u \in Users : \A j \in 1..Len(queue[u]) :
              Target[queue[u][j].write] # x
        BY <2>1, <1>10
      <3> QED BY <3>1, <2>1 DEF Inv, Delivered, LastAckedKept
    <2> QED BY <2>1, <1>3 DEF LastAckedKept
  <1>22. Delivered'
    BY <1>2, <1>3, <1>20, <1>21 DEF Delivered
  <1> QED BY <1>16, <1>17, <1>18, <1>19, <1>22 DEF Inv

\* A step of FirebaseAuth, of the main queue or of a token: the queues, the
\* callbacks and the backend are not touched.
LEMMA TokenStepKept ==
  ASSUME Inv, net' \in Net, StreamFine(net'), net'.pipeline = net.pipeline,
         SameReplies(net, net'), Tracked', authUser' \in Users,
         tokens' \in Nat, main' \in Seq(MainBlock), worker' \in Seq(WorkerOp),
         faults' \in 0..MaxFaults,
         UNCHANGED <<current, queue, nextId, callbacks, docs, applied,
                     lastAcked, answer, written, dropped, launchedAt>>
  PROVE  Inv'
  <1>1. TypeOK'
    BY DEF Inv, TypeOK, MainBlock, WorkerOp
  <1>2. Stored'
    BY StoredKept DEF Inv
  <1>3. Streaming'
    BY DEF Inv, Streaming
  <1>4. Delivered'
    <2>1. LastAckedKept'
      BY LastAckedSame DEF Inv, Delivered
    <2> DEFINE m == net'
    <2>2. RepliesApplied(net, applied, docs) /\ SameReplies(net, m)
      BY DEF Inv, Delivered
    <2> HIDE DEF m
    <2>3. RepliesApplied(m, applied, docs)
      BY <2>2, RepliesSame
    <2> QED BY <2>1, <2>3 DEF Delivered, m
  <1> QED BY <1>1, <1>2, <1>3, <1>4 DEF Inv

\* The requests for tokens are set.
Asking(n, a) == [n EXCEPT !.asks = a]
LEMMA AskingFine ==
  ASSUME NEW n \in Net, NEW a \in SUBSET TokenRequest, StreamFine(n)
  PROVE  LET m == Asking(n, a) IN
         /\ m \in Net /\ StreamFine(m)
         /\ m.pipeline = n.pipeline /\ m.asks = a
         /\ m.closes = n.closes /\ m.state = n.state /\ m.as = n.as
         /\ SameReplies(n, m)
  <1> DEFINE m == Asking(n, a)
  <1>1. /\ m \in Net /\ m.pipeline = n.pipeline /\ m.state = n.state
        /\ m.handshake = n.handshake /\ m.idle = n.idle
        /\ m.closes = n.closes /\ m.asks = a /\ m.as = n.as
        /\ m.wire = n.wire /\ m.replies = n.replies /\ m.refused = n.refused
    BY DEF Net, Asking
  <1> HIDE DEF m
  <1>2. (IsOpen(m) <=> IsOpen(n)) /\ (IsStarted(m) <=> IsStarted(n))
    BY <1>1 DEF IsOpen, IsStarted
  <1>3. StreamFine(m)
    BY <1>1, <1>2 DEF StreamFine
  <1>4. SameReplies(n, m)
    BY <1>1 DEF SameReplies
  <1> QED BY <1>1, <1>3, <1>4 DEF m

\* What the token steps start from.
LEMMA TokenFacts ==
  ASSUME Inv
  PROVE  /\ OneRequest(main, worker, net, tokens)
         /\ TokensOwned(main, worker, net, tokens, current)
         /\ Told(main, worker, current, authUser)
         /\ net \in Net /\ StreamFine(net) /\ tokens \in Nat
         /\ main \in Seq(MainBlock) /\ worker \in Seq(WorkerOp)
         /\ authUser \in Users /\ current \in Users
         /\ faults \in 0..MaxFaults
         /\ net.asks \in SUBSET TokenRequest
  BY Facts, NetFields DEF Inv, Tracked, TypeOK

\* UpdateCurrentUser
LEMMA UpdateCurrentUserKept ==
  ASSUME Inv, NEW u \in Users, UpdateCurrentUser(u)
  PROVE  Inv'
  <1> DEFINE b == [kind |-> "notify", user |-> u]
             mb == main'
  <1>1. /\ OneRequest(main, worker, net, tokens)
        /\ TokensOwned(main, worker, net, tokens, current)
        /\ Told(main, worker, current, authUser)
        /\ net \in Net /\ StreamFine(net) /\ tokens \in Nat
        /\ main \in Seq(MainBlock) /\ worker \in Seq(WorkerOp)
    BY TokenFacts
  <1>2. authUser' = u /\ mb = Append(main, b) /\ Fault
    BY DEF UpdateCurrentUser
  <1>3. UNCHANGED <<tokens, worker, current, queue, nextId, callbacks, net,
                    docs, applied, lastAcked, answer, written, dropped,
                    launchedAt>>
    BY DEF UpdateCurrentUser
  <1>4. b \in MainBlock /\ b.kind = "notify" /\ b.user = u
    BY DEF MainBlock
  <1> HIDE DEF b, mb
  <1>5. mb \in Seq(MainBlock)
    BY <1>1, <1>2, <1>4, AppendProperties
  <1>6. /\ OneRequest(mb, worker, net, tokens)
        /\ TokensOwned(mb, worker, net, tokens, current)
        /\ Told(mb, worker, current, u)
    <2>1. /\ OneRequest(Append(main, b), worker, net, tokens)
          /\ TokensOwned(Append(main, b), worker, net, tokens, current)
          /\ Told(Append(main, b), worker, current, u)
      BY <1>1, <1>4, NewsQueued
    <2> QED BY <2>1, <1>2
  <1>7. Tracked'
    BY <1>2, <1>3, <1>6 DEF Tracked, mb
  <1>8. SameReplies(net, net')
    BY <1>3 DEF SameReplies
  <1>9. faults' \in 0..MaxFaults
    BY <1>2, FaultCounted
  <1> QED BY <1>1, <1>2, <1>3, <1>5, <1>7, <1>8, <1>9, TokenStepKept DEF mb

\* ReadCurrentUser
LEMMA ReadCurrentUserKept ==
  ASSUME Inv, NEW r \in net.asks, ReadCurrentUser(r)
  PROVE  Inv'
  <1> DEFINE s == [r EXCEPT !.user = authUser]
             a == (net.asks \ {r}) \cup {s}
             m == Asking(net, a)
  <1>1. /\ OneRequest(main, worker, net, tokens)
        /\ TokensOwned(main, worker, net, tokens, current)
        /\ Told(main, worker, current, authUser)
        /\ net \in Net /\ StreamFine(net) /\ tokens \in Nat
        /\ main \in Seq(MainBlock) /\ worker \in Seq(WorkerOp)
        /\ authUser \in Users /\ faults \in 0..MaxFaults
        /\ net.asks \in SUBSET TokenRequest
    BY TokenFacts
  <1>2. net' = m
    BY DEF ReadCurrentUser, Asking
  <1>3. UNCHANGED <<authUser, tokens, main, worker, current, queue, nextId,
                    callbacks, docs, history>>
    BY DEF ReadCurrentUser
  <1>4. /\ s \in TokenRequest /\ s.closes = r.closes
        /\ s.tokens = r.tokens /\ s.user = authUser
    <2>1. r \in TokenRequest
      BY <1>1
    <2> QED BY <2>1, <1>1 DEF TokenRequest
  <1> HIDE DEF s
  <1>5. a \in SUBSET TokenRequest
    BY <1>1, <1>4
  <1>6. a = (net.asks \ {r}) \cup {s}
    OBVIOUS
  <1> HIDE DEF a
  <1>7. /\ m \in Net /\ StreamFine(m) /\ m.pipeline = net.pipeline
        /\ m.asks = a /\ m.closes = net.closes /\ m.state = net.state
        /\ m.as = net.as /\ SameReplies(net, m)
    BY <1>1, <1>5, AskingFine
  <1> HIDE DEF m
  <1>8. OneRequest(main, worker, m, tokens)
        /\ TokensOwned(main, worker, m, tokens, current)
    BY <1>1, <1>4, <1>6, <1>7, RequestRead
  <1>9. Tracked'
    BY <1>1, <1>2, <1>3, <1>8 DEF Tracked
  <1> QED BY <1>1, <1>2, <1>3, <1>7, <1>9, TokenStepKept DEF history

\* DeliverToken
LEMMA DeliverTokenKept ==
  ASSUME Inv, NEW r \in net.asks, NEW u \in Users \cup {None},
         DeliverToken(r, u)
  PROVE  Inv'
  <1> DEFINE b == [kind |-> "token", user |-> u, tokens |-> r.tokens,
                   closes |-> r.closes]
             a == net.asks \ {r}
             m == Asking(net, a)
             mb == main'
  <1>1. /\ OneRequest(main, worker, net, tokens)
        /\ TokensOwned(main, worker, net, tokens, current)
        /\ Told(main, worker, current, authUser)
        /\ net \in Net /\ StreamFine(net) /\ tokens \in Nat
        /\ main \in Seq(MainBlock) /\ worker \in Seq(WorkerOp)
        /\ authUser \in Users /\ faults \in 0..MaxFaults
        /\ net.asks \in SUBSET TokenRequest
    BY TokenFacts
  <1>2. net' = m /\ mb = Append(main, b) /\ u \in {None, r.user}
    BY DEF DeliverToken, Asking
  <1>3. UNCHANGED <<authUser, tokens, worker, current, queue, nextId,
                    callbacks, docs, applied, lastAcked, answer, written,
                    dropped, launchedAt>>
    BY DEF DeliverToken
  <1>4. faults' \in 0..MaxFaults
    BY <1>1, FaultCounted DEF DeliverToken
  <1>5. /\ b \in MainBlock /\ b.kind = "token" /\ b.closes = r.closes
        /\ b.tokens = r.tokens /\ b.user = u
    <2>1. r.tokens \in Nat /\ r.closes \in Nat
      BY <1>1 DEF TokenRequest
    <2> QED BY <2>1 DEF MainBlock
  <1>6. a \in SUBSET TokenRequest /\ a = net.asks \ {r}
    BY <1>1
  <1> HIDE DEF a, b, mb
  <1>7. /\ m \in Net /\ StreamFine(m) /\ m.pipeline = net.pipeline
        /\ m.asks = a /\ m.closes = net.closes /\ m.state = net.state
        /\ m.as = net.as /\ SameReplies(net, m)
    BY <1>1, <1>6, AskingFine
  <1> HIDE DEF m
  <1>8. mb \in Seq(MainBlock)
    BY <1>1, <1>2, <1>5, AppendProperties
  <1>9. /\ OneRequest(mb, worker, m, tokens)
        /\ TokensOwned(mb, worker, m, tokens, current)
        /\ Told(mb, worker, current, authUser)
    <2>1. b.user \in {None, r.user} /\ m.asks = net.asks \ {r}
      BY <1>2, <1>5, <1>6, <1>7
    <2>2. /\ OneRequest(Append(main, b), worker, m, tokens)
          /\ TokensOwned(Append(main, b), worker, m, tokens, current)
          /\ Told(Append(main, b), worker, current, authUser)
      BY <2>1, <1>1, <1>5, <1>7, TokenQueued
    <2> QED BY <2>2, <1>2
  <1>10. Tracked'
    BY <1>2, <1>3, <1>9 DEF Tracked, mb
  <1> QED BY <1>1, <1>2, <1>3, <1>4, <1>7, <1>8, <1>10, TokenStepKept DEF mb

\* RunMain
LEMMA RunMainKept ==
  ASSUME Inv, RunMain
  PROVE  Inv'
  <1> DEFINE b == Head(main)
             tl == Tail(main)
             wo == worker'
             nt == tokens'
             x == net'
  <1>1. /\ OneRequest(main, worker, net, tokens)
        /\ TokensOwned(main, worker, net, tokens, current)
        /\ Told(main, worker, current, authUser)
        /\ net \in Net /\ StreamFine(net) /\ tokens \in Nat
        /\ main \in Seq(MainBlock) /\ worker \in Seq(WorkerOp)
        /\ authUser \in Users /\ faults \in 0..MaxFaults
        /\ net.asks \in SUBSET TokenRequest
    BY TokenFacts
  <1>2. main # <<>> /\ main' = tl
    BY DEF RunMain
  <1>3. UNCHANGED <<authUser, current, queue, nextId, callbacks, docs, history>>
    BY DEF RunMain
  <1>4. b \in MainBlock /\ tl \in Seq(MainBlock)
    BY <1>1, <1>2, HeadTailProperties
  <1>5. /\ b.kind = "notify" => b.user \in Users
        /\ b.kind = "token" => b.user \in Users \cup {None}
             /\ b.tokens \in Nat /\ b.closes \in Nat
    BY <1>4, BlockFields
  <1>6. \/ /\ b.kind = "notify"
           /\ nt = tokens + 1
           /\ wo = Append(worker, [kind |-> "credential", user |-> b.user])
           /\ x = net
        \/ /\ b.kind = "token"
           /\ b.tokens = tokens
           /\ wo = Append(worker, [kind |-> "token", user |-> b.user,
                                   closes |-> b.closes])
           /\ nt = tokens /\ x = net
        \/ /\ b.kind = "token"
           /\ x = Asking(net, net.asks \cup {Request(b.closes)})
           /\ nt = tokens /\ wo = worker
    BY DEF RunMain, StillCurrent, Asking, Request
  <1>7. SameReplies(net, net)
    BY DEF SameReplies
  <1>8. Head(main) = b /\ Tail(main) = tl
    OBVIOUS
  <1> SUFFICES /\ x \in Net /\ StreamFine(x) /\ x.pipeline = net.pipeline
               /\ SameReplies(net, x) /\ nt \in Nat /\ wo \in Seq(WorkerOp)
               /\ OneRequest(tl, wo, x, nt)
               /\ TokensOwned(tl, wo, x, nt, current)
               /\ Told(tl, wo, current, authUser)
    <2>1. ASSUME /\ x \in Net /\ StreamFine(x) /\ x.pipeline = net.pipeline
                 /\ SameReplies(net, x) /\ nt \in Nat /\ wo \in Seq(WorkerOp)
                 /\ OneRequest(tl, wo, x, nt)
                 /\ TokensOwned(tl, wo, x, nt, current)
                 /\ Told(tl, wo, current, authUser)
          PROVE  Inv'
      <3>1. Tracked'
        BY <2>1, <1>2, <1>3 DEF Tracked
      <3> QED BY <3>1, <2>1, <1>1, <1>2, <1>3, <1>4, TokenStepKept
              DEF history
    <2> QED BY <2>1
  <1> HIDE DEF b, tl, wo, nt, x
  <1>9. CASE /\ b.kind = "notify"
             /\ nt = tokens + 1
             /\ wo = Append(worker, [kind |-> "credential", user |-> b.user])
             /\ x = net
    <2> DEFINE o == [kind |-> "credential", user |-> b.user]
    <2>1. o \in WorkerOp /\ o.kind = "credential" /\ o.user = b.user
      BY <1>5, <1>9 DEF WorkerOp
    <2>2. wo = Append(worker, o)
      BY <1>9
    <2> HIDE DEF o
    <2>3. wo \in Seq(WorkerOp)
      BY <2>1, <2>2, <1>1, AppendProperties
    <2>4. Head(main).kind = "notify" /\ o.user = Head(main).user
      BY <2>1, <1>8, <1>9
    <2>5. /\ OneRequest(Tail(main), Append(worker, o), net, tokens + 1)
          /\ TokensOwned(Tail(main), Append(worker, o), net, tokens + 1,
                         current)
          /\ Told(Tail(main), Append(worker, o), current, authUser)
      BY <2>1, <2>4, <1>1, <1>2, NewsRun
    <2>6. nt \in Nat
      BY <1>1, <1>9
    <2>7. /\ OneRequest(tl, wo, x, nt)
          /\ TokensOwned(tl, wo, x, nt, current)
          /\ Told(tl, wo, current, authUser)
      BY <2>2, <2>5, <1>8, <1>9, Zenon
    <2> QED BY <2>3, <2>6, <2>7, <1>1, <1>7, <1>9
  <1>10. CASE /\ b.kind = "token"
              /\ b.tokens = tokens
              /\ wo = Append(worker, [kind |-> "token", user |-> b.user,
                                      closes |-> b.closes])
              /\ nt = tokens /\ x = net
    <2> DEFINE o == [kind |-> "token", user |-> b.user, closes |-> b.closes]
    <2>1. /\ o \in WorkerOp /\ o.kind = "token" /\ o.user = b.user
          /\ o.closes = b.closes
      BY <1>5, <1>10 DEF WorkerOp
    <2>2. wo = Append(worker, o)
      BY <1>10
    <2> HIDE DEF o
    <2>3. wo \in Seq(WorkerOp)
      BY <2>1, <2>2, <1>1, AppendProperties
    <2>4. /\ Head(main).kind = "token" /\ Head(main).tokens = tokens
          /\ o.user = Head(main).user /\ o.closes = Head(main).closes
      BY <2>1, <1>8, <1>10
    <2>5. /\ OneRequest(Tail(main), Append(worker, o), net, tokens)
          /\ TokensOwned(Tail(main), Append(worker, o), net, tokens, current)
          /\ Told(Tail(main), Append(worker, o), current, authUser)
      BY <2>1, <2>4, <1>1, <1>2, TokenRun
    <2> QED BY <2>2, <2>3, <2>5, <1>1, <1>7, <1>8, <1>10
  <1>11. CASE /\ b.kind = "token"
              /\ x = Asking(net, net.asks \cup {Request(b.closes)})
              /\ nt = tokens /\ wo = worker
    <2> DEFINE a == net.asks \cup {Request(b.closes)}
    <2>1. Request(b.closes) \in TokenRequest
      BY <1>1, <1>5, <1>11 DEF Request, TokenRequest
    <2>2. a \in SUBSET TokenRequest /\ x = Asking(net, a)
      BY <2>1, <1>1, <1>11
    <2>3. a = net.asks \cup {Request(Head(main).closes)}
      BY <1>8
    <2> HIDE DEF a
    <2>4. /\ x \in Net /\ StreamFine(x) /\ x.pipeline = net.pipeline
          /\ x.asks = a /\ x.closes = net.closes /\ x.state = net.state
          /\ x.as = net.as /\ SameReplies(net, x)
      BY <2>2, <1>1, AskingFine
    <2>5. /\ Head(main).kind = "token"
          /\ x.asks = net.asks \cup {Request(Head(main).closes)}
      BY <2>3, <2>4, <1>8, <1>11
    <2>6. /\ OneRequest(Tail(main), worker, x, tokens)
          /\ TokensOwned(Tail(main), worker, x, tokens, current)
          /\ Told(Tail(main), worker, current, authUser)
      BY <2>4, <2>5, <1>1, <1>2, TokenAskedAgain
    <2> QED BY <2>4, <2>6, <1>1, <1>8, <1>11
  <1> QED BY <1>6, <1>9, <1>10, <1>11

\* A token opens the stream and sends the handshake.
Opened(n, u, w) == [n EXCEPT !.state = "Open", !.as = u, !.wire = w]
LEMMA OpenedFine ==
  ASSUME NEW n \in Net, NEW u \in Users, StreamFine(n), n.state = "Starting"
  PROVE  LET m == Opened(n, u, <<Hello>>) IN
         /\ m \in Net /\ StreamFine(m)
         /\ m.pipeline = n.pipeline /\ m.asks = n.asks
         /\ m.closes = n.closes /\ m.as = u
         /\ SameReplies(n, m)
  <1> DEFINE w == <<Hello>>
             m == Opened(n, u, w)
  <1>1. w \in Seq(Batch \cup {Hello})
    OBVIOUS
  <1>2. w = <<Hello>>
    OBVIOUS
  <1> HIDE DEF w
  <1>3. /\ m \in Net /\ m.pipeline = n.pipeline /\ m.state = "Open"
        /\ m.handshake = n.handshake /\ m.idle = n.idle
        /\ m.closes = n.closes /\ m.asks = n.asks /\ m.as = u
        /\ m.wire = w /\ m.replies = n.replies /\ m.refused = n.refused
    BY <1>1 DEF Net, Opened
  <1> HIDE DEF m
  <1>4. ~IsOpen(n) /\ IsStarted(n) /\ IsOpen(m) /\ IsStarted(m)
    BY <1>3 DEF IsOpen, IsStarted
  <1>5. ~n.handshake /\ ~n.idle /\ n.replies = <<>> /\ n.pipeline # <<>>
    BY <1>4 DEF StreamFine
  <1>6. m.replies \o m.wire = <<Hello>>
    <2>1. <<>> \o w = w
      BY <1>1, ConcatEmptySeq
    <2> QED BY <2>1, <1>2, <1>3, <1>5
  <1>7. m.as # None
    BY <1>3, PipelineAssumption
  <1>8. StreamFine(m)
    BY <1>3, <1>4, <1>5, <1>6, <1>7 DEF StreamFine
  <1>9. SameReplies(n, m)
    BY <1>3, <1>5 DEF SameReplies
  <1> QED BY <1>2, <1>3, <1>8, <1>9 DEF m

\* ResumeStartWithCredentials
LEMMA ResumeStartKept ==
  ASSUME Inv, ResumeStartWithCredentials
  PROVE  Inv'
  <1> DEFINE o == Head(worker)
             tl == Tail(worker)
             x == net'
  <1>1. /\ OneRequest(main, worker, net, tokens)
        /\ TokensOwned(main, worker, net, tokens, current)
        /\ Told(main, worker, current, authUser)
        /\ net \in Net /\ StreamFine(net) /\ tokens \in Nat
        /\ main \in Seq(MainBlock) /\ worker \in Seq(WorkerOp)
        /\ authUser \in Users /\ faults \in 0..MaxFaults
        /\ current \in Users
    BY TokenFacts
  <1>2. worker # <<>> /\ Head(worker).kind = "token" /\ worker' = tl
    BY DEF ResumeStartWithCredentials
  <1>3. UNCHANGED <<authUser, tokens, main, current, queue, nextId, callbacks,
                    docs, history>>
    BY DEF ResumeStartWithCredentials
  <1>4. /\ OneRequest(main, tl, net, tokens)
        /\ TokensOwned(main, tl, net, tokens, current)
        /\ Told(main, tl, current, authUser)
        /\ o.closes = net.closes =>
             /\ net.state = "Starting"
             /\ Asked(net) = {} /\ InMain(main, net) = {}
             /\ InWorker(tl, net) = {}
             /\ o.user \in {None, current}
    BY <1>1, <1>2, TokenTaken
  <1>5. \/ o.closes # net.closes /\ x = net
        \/ o.closes = net.closes /\ o.user = None /\ x = RetryAfter(net)
        \/ /\ o.closes = net.closes /\ o.user # None
           /\ x = Opened(net, o.user, <<Hello>>)
    BY DEF ResumeStartWithCredentials, ForThisStream, Opened
  <1>6. tl \in Seq(WorkerOp)
    BY <1>1, <1>2, HeadTailProperties
  <1>7. PartOf(tl, tl)
    BY DEF PartOf
  <1> SUFFICES /\ x \in Net /\ StreamFine(x) /\ x.pipeline = net.pipeline
               /\ SameReplies(net, x)
               /\ OneRequest(main, tl, x, tokens)
               /\ TokensOwned(main, tl, x, tokens, current)
    <2>1. ASSUME /\ x \in Net /\ StreamFine(x) /\ x.pipeline = net.pipeline
                 /\ SameReplies(net, x)
                 /\ OneRequest(main, tl, x, tokens)
                 /\ TokensOwned(main, tl, x, tokens, current)
          PROVE  Inv'
      <3>1. Tracked'
        BY <2>1, <1>2, <1>3, <1>4 DEF Tracked
      <3> QED BY <3>1, <2>1, <1>1, <1>2, <1>3, <1>6, TokenStepKept
              DEF history
    <2> QED BY <2>1
  <1> HIDE DEF o, tl, x
  <1>8. CASE x = net
    BY <1>1, <1>4, <1>8 DEF SameReplies
  <1>9. CASE x = RetryAfter(net)
    <2>1. /\ x \in Net /\ StreamFine(x) /\ x.pipeline = net.pipeline
          /\ Moved(net, x) /\ Gone(net, x) /\ ~x.handshake
      BY <1>1, <1>9, RetryFine
    <2>2. OneRequest(main, tl, x, tokens)
          /\ TokensOwned(main, tl, x, tokens, current)
      BY <2>1, <1>1, <1>4, <1>6, <1>7, TrackGone
    <2> QED BY <2>1, <2>2 DEF SameReplies
  <1>10. CASE /\ o.closes = net.closes /\ o.user # None
              /\ x = Opened(net, o.user, <<Hello>>)
    <2>1. o.user = current /\ net.state = "Starting"
      BY <1>4, <1>10
    <2>2. o.user \in Users /\ x = Opened(net, o.user, <<Hello>>)
      BY <2>1, <1>1, <1>10
    <2>3. /\ x \in Net /\ StreamFine(x) /\ x.pipeline = net.pipeline
          /\ x.asks = net.asks /\ x.closes = net.closes /\ x.as = o.user
          /\ SameReplies(net, x)
      BY <2>1, <2>2, <1>1, OpenedFine
    <2>4. x.as \in {None, current}
      BY <2>1, <2>3
    <2>5. OneRequest(main, tl, x, tokens)
          /\ TokensOwned(main, tl, x, tokens, current)
      BY <2>3, <2>4, <1>4, <1>10, TokenOpens
    <2> QED BY <2>3, <2>5
  <1> QED BY <1>5, <1>8, <1>9, <1>10

\* HandleCredentialChange
LEMMA HandleCredentialChangeKept ==
  ASSUME Inv, HandleCredentialChange
  PROVE  Inv'
  <1> DEFINE u == Head(worker).user
             tl == Tail(worker)
             q == queue[u]
             m == RestartNetwork(net, q)
  <1>1. /\ OneRequest(main, worker, net, tokens)
        /\ TokensOwned(main, worker, net, tokens, current)
        /\ Told(main, worker, current, authUser)
        /\ net \in Net /\ StreamFine(net) /\ tokens \in Nat
        /\ main \in Seq(MainBlock) /\ worker \in Seq(WorkerOp)
    BY TokenFacts
  <1>2. /\ worker # <<>> /\ Head(worker).kind = "credential"
        /\ worker' = tl /\ current' = u /\ net' = m
        /\ nextId' = IF u # current THEN LoadNextBatchIdFromDb(queue)
                     ELSE nextId
    BY DEF HandleCredentialChange
  <1>3. UNCHANGED <<authUser, tokens, main, queue, callbacks, docs, history>>
    BY DEF HandleCredentialChange
  <1>4. queue \in [Users -> Seq(Batch)] /\ written \in Nat
        /\ nextId \in Nat \ {0}
    BY Facts
  <1>5. u \in Users /\ tl \in Seq(WorkerOp)
    <2>1. Head(worker) \in WorkerOp /\ Tail(worker) \in Seq(WorkerOp)
      BY <1>1, <1>2, HeadTailProperties
    <2> QED BY <2>1, <1>2, BlockFields
  <1>6. QueuesFine(queue, written)
    BY DEF Inv, Stored
  <1>7. q \in Seq(Batch) /\ Ascending(q)
    BY <1>4, <1>5, <1>6 DEF QueuesFine
  <1>8. nextId' \in Nat \ {0} /\ NextIdFree(q, nextId', written)
    <2>1. /\ LoadNextBatchIdFromDb(queue) \in Nat \ {0}
          /\ \A v \in Users :
               NextIdFree(queue[v], LoadNextBatchIdFromDb(queue), written)
      BY <1>4, <1>6, LoadedIdFree
    <2>2. CASE u # current
      BY <2>1, <2>2, <1>2, <1>5
    <2>3. CASE u = current
      BY <2>3, <1>2, <1>4 DEF Inv, Stored
    <2> QED BY <2>2, <2>3
  <1>9. Told(main, tl, u, authUser)
    BY <1>1, <1>2, NewsTaken
  <1>10. PartOf(tl, worker)
    <2>1. \A i \in 1..Len(Tail(worker)) :
            i + 1 \in 1..Len(worker) /\ Tail(worker)[i] = worker[i + 1]
      BY <1>1, <1>2, WorkerShifts
    <2> QED BY <2>1 DEF PartOf
  <1> HIDE DEF u, q, tl
  <1>11. /\ m \in Net /\ StreamFine(m) /\ Front(m.pipeline, q)
         /\ Moved(net, m) /\ Gone(net, m) /\ ~m.handshake
    BY <1>1, <1>7, RestartFine
  <1> HIDE DEF m
  <1>12. OneRequest(main, tl, m, tokens) /\ TokensOwned(main, tl, m, tokens, u)
    BY <1>1, <1>5, <1>10, <1>11, TrackGone
  <1>13. queue[u] = q
    BY DEF q
  <1>14. TypeOK'
    <2>1. /\ net' \in Net /\ current' \in Users /\ worker' \in Seq(WorkerOp)
          /\ nextId' \in Nat \ {0}
      BY <1>2, <1>5, <1>8, <1>11
    <2> QED BY <2>1, <1>3 DEF Inv, TypeOK, history, WorkerOp
  <1>15. Stored'
    <2>1. NextIdFree(queue'[current'], nextId', written')
      BY <1>2, <1>3, <1>8, <1>13 DEF history
    <2>2. CallbacksMatch'
      BY <1>3 DEF Inv, Stored, CallbacksMatch, history
    <2> QED BY <2>1, <2>2, <1>3 DEF Inv, Stored, history
  <1>16. Streaming'
    BY <1>2, <1>3, <1>11, <1>13 DEF Streaming
  <1>17. Tracked'
    BY <1>2, <1>3, <1>9, <1>12 DEF Tracked
  <1>18. Delivered'
    <2>1. LastAckedKept'
      BY <1>3, LastAckedSame DEF Inv, Delivered, history
    <2>2. RepliesApplied(m, applied, docs)
      BY <1>11 DEF RepliesApplied
    <2> QED BY <2>1, <2>2, <1>2, <1>3 DEF Delivered, history
  <1> QED BY <1>14, <1>15, <1>16, <1>17, <1>18 DEF Inv

\* The stream of a new process.
NewOf(b) ==
  [pipeline |-> <<>>, state |-> "Initial", handshake |-> b,
   idle |-> b, closes |-> 0, asks |-> {}, as |-> None,
   wire |-> <<>>, replies |-> <<>>, refused |-> b]
LEMMA NewFields ==
  /\ NewNet \in Net /\ StreamFine(NewNet) /\ ~NewNet.handshake
  /\ NewNet.pipeline = <<>> /\ NewNet.asks = {} /\ NewNet.as = None
  /\ NewNet.closes = 0 /\ NewNet.state = "Initial"
  <1> DEFINE m == NewOf(FALSE)
  <1>1. ASSUME NEW b \in BOOLEAN
        PROVE  NewOf(b) \in Net
    <2>1. <<>> \in Seq(Batch) /\ <<>> \in Seq(Batch \cup {Hello})
      BY EmptySeq
    <2> QED BY <2>1 DEF NewOf, Net
  <1>2. ASSUME NEW b \in BOOLEAN
        PROVE  /\ NewOf(b).pipeline = <<>> /\ NewOf(b).state = "Initial"
               /\ NewOf(b).handshake = b /\ NewOf(b).idle = b
               /\ NewOf(b).closes = 0 /\ NewOf(b).asks = {}
               /\ NewOf(b).as = None /\ NewOf(b).wire = <<>>
               /\ NewOf(b).replies = <<>> /\ NewOf(b).refused = b
    BY DEF NewOf
  <1>3. FALSE \in BOOLEAN
    OBVIOUS
  <1>4. /\ m \in Net /\ m.pipeline = <<>> /\ m.state = "Initial"
        /\ m.handshake = FALSE /\ m.idle = FALSE /\ m.closes = 0
        /\ m.asks = {} /\ m.as = None /\ m.wire = <<>>
        /\ m.replies = <<>> /\ m.refused = FALSE
    BY <1>1, <1>2, <1>3, Zenon
  <1>5. NewNet = m
    BY DEF NewNet, NewOf
  <1> HIDE DEF m
  <1>6. ~IsOpen(m) /\ ~IsStarted(m)
    BY <1>4 DEF IsOpen, IsStarted
  <1>7. StreamFine(m)
    BY <1>4, <1>6 DEF StreamFine
  <1> QED BY <1>4, <1>5, <1>7, Zenon

\* A new process has nothing on its way, and its first stream is as it
\* should be.
LEMMA NewTracked ==
  ASSUME NEW m \in Net, tokens \in Nat, StreamFine(m), Moved(NewNet, m),
         NEW cur
  PROVE  /\ OneRequest(<<>>, <<>>, m, tokens)
         /\ TokensOwned(<<>>, <<>>, m, tokens, cur)
         /\ Told(<<>>, <<>>, cur, cur)
  <1> DEFINE mn == <<>>
             w == <<>>
             n == NewNet
  <1>1. /\ n \in Net /\ StreamFine(n) /\ n.asks = {} /\ n.as = None
        /\ n.state = "Initial"
    BY NewFields
  <1>2. /\ mn \in Seq(MainBlock) /\ Len(mn) = 0
        /\ w \in Seq(WorkerOp) /\ Len(w) = 0
    BY EmptySeq
  <1>3. n = NewNet
    OBVIOUS
  <1> HIDE DEF mn, w, n
  <1>4. InMain(mn, n) = {} /\ InWorker(w, n) = {} /\ Asked(n) = {}
    BY <1>1, <1>2 DEF InMain, InWorker, Asked
  <1>5. OneRequest(mn, w, n, tokens)
    BY <1>1, <1>2, <1>4 DEF OneRequest
  <1>6. TokensOwned(mn, w, n, tokens, cur)
    BY <1>1, <1>2 DEF TokensOwned
  <1>7. Told(mn, w, cur, cur)
    BY <1>2 DEF Told
  <1>8. Moved(n, m)
    BY <1>3
  <1>9. OneRequest(mn, w, m, tokens) /\ TokensOwned(mn, w, m, tokens, cur)
    BY <1>1, <1>2, <1>5, <1>6, <1>8, TrackMoved
  <1> QED BY <1>7, <1>9 DEF mn, w

\* Crash
LEMMA CrashKept ==
  ASSUME Inv, Crash
  PROVE  Inv'
  <1> DEFINE q == queue[authUser]
             m == FillWritePipeline(NewNet, q)
             e == <<>>
  <1>1. /\ tokens \in Nat /\ authUser \in Users
        /\ queue \in [Users -> Seq(Batch)] /\ written \in Nat
        /\ written <= MaxWrites
    BY Facts
  <1>2. /\ Fault /\ current' = authUser /\ main' = <<>> /\ worker' = <<>>
        /\ callbacks' = [u \in Users |-> {}] /\ launchedAt' = written
        /\ nextId' = LoadNextBatchIdFromDb(queue) /\ net' = m
    BY DEF Crash
  <1>3. UNCHANGED <<authUser, tokens, queue, docs, applied, lastAcked, answer,
                    written, dropped>>
    BY DEF Crash
  <1>4. QueuesFine(queue, written)
    BY DEF Inv, Stored
  <1>5. q \in Seq(Batch) /\ Ascending(q)
    BY <1>1, <1>4 DEF QueuesFine
  <1>6. /\ LoadNextBatchIdFromDb(queue) \in Nat \ {0}
        /\ NextIdFree(q, LoadNextBatchIdFromDb(queue), written)
    BY <1>1, <1>4, LoadedIdFree
  <1>7. Front(NewNet.pipeline, q)
    <2>1. NewNet.pipeline = e /\ e \in Seq(Batch) /\ Len(e) = 0
      BY NewFields
    <2>2. Len(q) \in Nat
      BY <1>5, LenProperties
    <2> HIDE DEF e, q
    <2> QED BY <2>1, <2>2 DEF Front
  <1>8. queue[authUser] = q
    OBVIOUS
  <1> HIDE DEF q
  <1>9. /\ m \in Net /\ StreamFine(m) /\ Front(m.pipeline, q)
        /\ Moved(NewNet, m) /\ SameReplies(NewNet, m)
    BY <1>1, <1>5, <1>7, NewFields, FillFine
  <1> HIDE DEF m
  <1>10. faults' \in 0..MaxFaults
    BY <1>2, FaultCounted
  <1>11. TypeOK'
    <2>1. net' \in Net /\ current' \in Users /\ nextId' \in Nat \ {0}
      BY <1>1, <1>2, <1>6, <1>9
    <2>2. main' \in Seq(MainBlock) /\ worker' \in Seq(WorkerOp)
      BY <1>2, EmptySeq
    <2>3. callbacks' \in [Users -> SUBSET Batch]
      BY <1>2
    <2>4. launchedAt' \in 0..MaxWrites
      BY <1>1, <1>2, PipelineAssumption
    <2> QED BY <2>1, <2>2, <2>3, <2>4, <1>3, <1>10
            DEF Inv, TypeOK, MainBlock, WorkerOp
  <1>12. Stored'
    <2>1. NextIdFree(queue'[current'], nextId', written')
      BY <1>2, <1>3, <1>6, <1>8
    <2>2. \A u \in Users : Mine(queue[u], written) = {}
      <3>1. ASSUME NEW u \in Users
            PROVE  Mine(queue[u], written) = {}
        <4>1. queue[u] \in Seq(Batch)
              /\ \A j \in 1..Len(queue[u]) : queue[u][j].write <= written
          BY <1>1, <1>4 DEF QueuesFine
        <4> QED BY <4>1, <1>1, NothingMine
      <3> QED BY <3>1
    <2>3. CallbacksMatch'
      BY <2>2, <1>2, <1>3 DEF CallbacksMatch, Mine
    <2>4. launchedAt' <= written'
      BY <1>1, <1>2, <1>3
    <2> QED BY <2>1, <2>3, <2>4, <1>3 DEF Inv, Stored
  <1>13. Streaming'
    BY <1>2, <1>3, <1>8, <1>9 DEF Streaming
  <1>14. Tracked'
    <2>1. /\ OneRequest(<<>>, <<>>, m, tokens)
          /\ TokensOwned(<<>>, <<>>, m, tokens, authUser)
          /\ Told(<<>>, <<>>, authUser, authUser)
      BY <1>1, <1>9, NewTracked
    <2> QED BY <2>1, <1>2, <1>3 DEF Tracked
  <1>15. Delivered'
    <2>1. LastAckedKept'
      BY <1>3, LastAckedSame DEF Inv, Delivered
    <2>2. RepliesApplied(m, applied, docs)
      BY <1>9, NewFields DEF RepliesApplied, SameReplies
    <2> QED BY <2>1, <2>2, <1>2, <1>3 DEF Delivered
  <1> QED BY <1>11, <1>12, <1>13, <1>14, <1>15 DEF Inv

-----------------------------------------------------------------------------
(* The theorems *)

\* The invariant holds when the app is first launched.
LEMMA InitInv ==
  ASSUME Init
  PROVE  Inv
  <1>1. /\ tokens \in Nat /\ authUser \in Users /\ current = authUser
        /\ main = <<>> /\ worker = <<>> /\ net = NewNet
    BY DEF Init
  <1>2. \A u \in Users : queue[u] = <<>> /\ callbacks[u] = {}
    BY DEF Init
  <1>3. Len(<<>>) = 0
    OBVIOUS
  <1>4. \A u \in Users : Len(queue[u]) = 0
    BY <1>2, <1>3
  <1>5. net \in Net /\ StreamFine(net) /\ ~net.handshake
        /\ net.pipeline = <<>>
    BY <1>1, NewFields
  <1>6. TypeOK
    <2>1. <<>> \in Seq(MainBlock) /\ <<>> \in Seq(WorkerOp)
          /\ <<>> \in Seq(Batch)
      BY EmptySeq
    <2>2. main \in Seq(MainBlock) /\ worker \in Seq(WorkerOp)
          /\ queue \in [Users -> Seq(Batch)]
      BY <2>1 DEF Init
    <2>3. /\ written \in 0..MaxWrites /\ launchedAt \in 0..MaxWrites
          /\ faults \in 0..MaxFaults /\ nextId \in Nat \ {0}
      BY PipelineAssumption DEF Init
    <2>4. /\ callbacks \in [Users -> SUBSET Batch]
          /\ docs \in [Docs -> Writes \cup {None}]
          /\ applied \subseteq Writes
          /\ lastAcked \in [Docs -> Writes \cup {None}]
          /\ answer \in [Writes -> {"none", "ok", "failed"}]
          /\ dropped \subseteq Writes
      BY DEF Init
    <2> QED BY <2>2, <2>3, <2>4, <1>1, <1>5
            DEF TypeOK, MainBlock, WorkerOp
  <1>7. Stored
    <2>1. QueuesFine(queue, written)
      BY <1>4 DEF QueuesFine, Ascending
    <2>2. NextIdFree(queue[current], nextId, written)
      BY <1>1, <1>4 DEF NextIdFree, Init
    <2>3. CallbacksMatch
      BY <1>2, <1>4 DEF CallbacksMatch
    <2>4. AnswersPast(answer, written)
      BY DEF AnswersPast, Init
    <2>5. launchedAt <= written
      BY DEF Init
    <2> QED BY <2>1, <2>2, <2>3, <2>4, <2>5 DEF Stored
  <1>8. Streaming
    <2>1. Len(net.pipeline) = 0 /\ Len(queue[current]) = 0
      BY <1>1, <1>3, <1>4, <1>5
    <2> QED BY <2>1, <1>5 DEF Streaming, Front
  <1>9. Tracked
    <2>1. Moved(NewNet, NewNet)
      BY NewFields DEF Moved
    <2>2. /\ OneRequest(<<>>, <<>>, NewNet, tokens)
          /\ TokensOwned(<<>>, <<>>, NewNet, tokens, authUser)
          /\ Told(<<>>, <<>>, authUser, authUser)
      BY <2>1, <1>1, NewFields, NewTracked
    <2> QED BY <2>2, <1>1 DEF Tracked
  <1>10. Delivered
    <2>1. RepliesApplied(net, applied, docs)
      BY <1>5 DEF RepliesApplied
    <2>2. LastAckedKept
      BY DEF Init, LastAckedKept
    <2> QED BY <2>1, <2>2 DEF Delivered
  <1> QED BY <1>6, <1>7, <1>8, <1>9, <1>10 DEF Inv

\* Every step keeps the invariant.
LEMMA NextInv ==
  ASSUME Inv, [Next]_vars
  PROVE  Inv'
  <1>1. CASE WriteMutations
    BY <1>1, WriteMutationsKept
  <1>2. CASE \E u \in Users : UpdateCurrentUser(u)
    BY <1>2, UpdateCurrentUserKept
  <1>3. CASE TokenStep
    <2>1. PICK r \in net.asks :
            ReadCurrentUser(r)
              \/ \E u \in Users \cup {None} : DeliverToken(r, u)
      BY <1>3 DEF TokenStep
    <2>2. CASE ReadCurrentUser(r)
      BY <2>2, ReadCurrentUserKept
    <2>3. CASE \E u \in Users \cup {None} : DeliverToken(r, u)
      BY <2>3, DeliverTokenKept
    <2> QED BY <2>1, <2>2, <2>3
  <1>4. CASE RunMain
    BY <1>4, RunMainKept
  <1>5. CASE HandleCredentialChange
    BY <1>5, HandleCredentialChangeKept
  <1>6. CASE ResumeStartWithCredentials
    BY <1>6, ResumeStartKept
  <1>7. CASE HandshakeReply
    BY <1>7, HandshakeReplyKept
  <1>8. CASE MutationReply
    BY <1>8, MutationReplyKept
  <1>9. CASE StreamRefused
    BY <1>9, StreamRefusedKept
  <1>10. CASE \/ StreamBreaks
              \/ BackoffElapsed
              \/ StreamEnds \/ IdleTimeout
              \/ ConnectivityChanged
    BY <1>10, StreamStepsKept
  <1>11. CASE Crash
    BY <1>11, CrashKept
  <1>12. CASE ServeHandshake
    BY <1>12, ServeHandshakeKept
  <1>13. CASE ServeWrite
    BY <1>13, ServeWriteKept
  <1>14. CASE RefuseWrite
    BY <1>14, RefuseWriteKept
  <1>15. CASE UNCHANGED vars
    <2>1. TypeOK'
      BY <1>15 DEF Inv, TypeOK, vars
    <2>2. Stored'
      BY <1>15, StoredKept DEF Inv, vars
    <2>3. Streaming' /\ Tracked'
      BY <1>15 DEF Inv, Streaming, Tracked, vars
    <2>4. Delivered'
      BY <1>15, LastAckedSame DEF Inv, Delivered, vars
    <2> QED BY <2>1, <2>2, <2>3, <2>4 DEF Inv
  <1> QED BY <1>1, <1>2, <1>3, <1>4, <1>5, <1>6, <1>7, <1>8, <1>9, <1>10,
             <1>11, <1>12, <1>13, <1>14, <1>15
          DEF Next, WorkerStep, Reply, Serve

\* The invariant holds always.
LEMMA InvHolds == Spec => []Inv
  <1>1. Init => Inv
    BY InitInv
  <1>2. Inv /\ [Next]_vars => Inv'
    BY NextInv
  <1> QED BY <1>1, <1>2, PTL DEF Spec

\* Every variable of the write path keeps its shape: no id is used up, no
\* bound is passed, and the Net that RemoteStore and Stream work on is always
\* one that their operations may be called on.
THEOREM TypeCorrect == Spec => []TypeOK
  <1>1. Inv => TypeOK
    BY DEF Inv
  <1> QED BY <1>1, InvHolds, PTL

\* A stream only ever sends writes under the token of the user whose writes
\* they are: token_counter, close_count_ and the order of the main queue are
\* enough for that, however sign-ins and tokens overtake each other.
THEOREM OwnerSends == Spec => []SentAsOwner
  <1>1. Inv => SentAsOwner
    BY DEF Inv, Tracked, TokensOwned, SentAsOwner
  <1> QED BY <1>1, InvHolds, PTL

\* OnWriteStreamMutationResult takes the front of the pipeline for what was
\* answered, and that is what was answered.
THEOREM AnswersStayInStep == Spec => []AnswersInStep
  <1>1. ASSUME Inv
        PROVE  AnswersInStep
    <2> DEFINE p == net.pipeline
               q == queue[current]
    <2>1. /\ net \in Net /\ q \in Seq(Batch) /\ StreamFine(net)
          /\ Front(p, q)
      BY <1>1, Facts
    <2>2. p \in Seq(Batch)
      BY <2>1, NetFields
    <2>3. net.as # None =>
            net.replies \o net.wire =
              IF net.handshake THEN net.pipeline ELSE <<Hello>>
      BY <2>1 DEF StreamFine
    <2> HIDE DEF p, q
    <2>4. p = SubSeq(q, 1, Len(p)) /\ Len(p) <= Len(q)
      BY <2>1, <2>2, FrontIsSubSeq DEF Front
    <2> QED BY <2>3, <2>4 DEF AnswersInStep, p, q
  <1>2. Inv => AnswersInStep
    BY <1>1
  <1> QED BY <1>2, InvHolds, PTL

\* The HARD_ASSERTs of Stream, WriteStream and RemoteStore hold whenever the
\* worker queue comes to them.
THEOREM AssertsHold == Spec => []HardAsserts
  <1>1. ASSUME Inv
        PROVE  HardAsserts
    <2>1. net \in Net /\ StreamFine(net)
      BY <1>1, Facts
    <2>2. ASSUME NEW j \in 1..Len(worker), worker[j].kind = "token",
                 ForThisStream(worker[j])
          PROVE  net.state = "Starting" /\ ~net.handshake
      <3>1. j \in InWorker(worker, net)
        BY <2>2 DEF InWorker, ForThisStream
      <3>2. net.state = "Starting"
        BY <3>1, <1>1 DEF Inv, Tracked, OneRequest
      <3> QED BY <3>2, <2>1 DEF StreamFine, IsOpen
    <2>3. net.idle => net.pipeline = <<>>
      BY <2>1 DEF StreamFine
    <2>4. (net.replies # <<>> /\ net.handshake) => net.pipeline # <<>>
      BY <2>1, RepliesHead
    <2> QED BY <2>2, <2>3, <2>4 DEF HardAsserts
  <1>2. Inv => HardAsserts
    BY <1>1
  <1> QED BY <1>2, InvHolds, PTL

\* NotifyUser calls the callback of the batch that was answered and no other,
\* and forgets none, although batch ids come back after a restart.
THEOREM CallbacksStayMatched == Spec => []CallbacksMatch
  <1>1. Inv => CallbacksMatch
    BY DEF Inv, Stored
  <1> QED BY <1>1, InvHolds, PTL

\* However often writes are sent again, a document with nothing more queued
\* and nothing refused holds the write that was acknowledged last.
THEOREM LastAckedStays == Spec => []LastAckedKept
  <1>1. Inv => LastAckedKept
    BY DEF Inv, Delivered
  <1> QED BY <1>1, InvHolds, PTL
=============================================================================
