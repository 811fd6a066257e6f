--------------------------- MODULE WritePipeline ---------------------------
(***************************************************************************)
(* How the Firestore SDK of one phone gets setData calls to the backend:   *)
(* SyncEngine and LocalStore with a LevelDB mutation queue per user, the   *)
(* write pipeline of RemoteStore, the WriteStream below it, and the way a  *)
(* stream gets its auth token.                                             *)
(*                                                                         *)
(* Everything in SyncEngine, RemoteStore and Stream runs on one worker     *)
(* queue, an operation at a time, so each operation is one action here.    *)
(* The races are with what is not on that queue: FirebaseAuth changes its  *)
(* user on a queue of its own and tells Firestore through the main queue,  *)
(* tokens come back through the main queue too, and the backend answers,   *)
(* refuses or vanishes when it likes.                                      *)
(*                                                                         *)
(* close_count_ and token_counter only grow when a stream closes and when  *)
(* FirebaseAuth posts; the bounds on faults and sign-ins bound them too.   *)
(***************************************************************************)
EXTENDS Naturals, Sequences, FiniteSets

CONSTANTS
  Users,             \* credentials::User, the unauthenticated one included
  Docs,              \* documents
  MaxWrites,         \* bound: setData calls in a behaviour
  Target,            \* write -> the document it sets
  MaxPendingWrites,  \* kMaxPendingWrites of RemoteStore
  MaxFaults,         \* bound: lost streams and tokens, sign-ins, sign-outs,
                     \* token refreshes and deaths of the process, together
  None               \* no document, no stream, no token

Writes == 1..MaxWrites

ASSUME PipelineAssumption ==
  /\ MaxWrites \in Nat
  /\ Target \in [Writes -> Docs]
  /\ MaxPendingWrites \in Nat \ {0}
  /\ MaxFaults \in Nat
  /\ None \notin Users /\ None \notin Nat

VARIABLES
  authUser,   \* Auth._currentUser
  tokens,     \* token_counter of FirebaseAuthCredentialsProvider
  main,       \* blocks FirebaseAuth dispatched to the main queue
  worker,     \* operations from outside waiting on Firestore's worker queue
  current,    \* current_user_ of SyncEngine, and whose mutation queue is open
  queue,      \* user -> mutation batches in LevelDB, by batch id
  nextId,     \* next_batch_id_ of the open LevelDbMutationQueue
  callbacks,  \* user -> mutation_callbacks_ of SyncEngine
  net,        \* write_pipeline_ of RemoteStore and its WriteStream
  docs,       \* the backend: document -> the write it holds, or None
  applied,    \* history: writes the backend has applied
  lastAcked,  \* history: document -> the write acknowledged last, or None
  answer,     \* history: write -> what the await of it got
  written,    \* history: setData calls so far
  dropped,    \* history: writes the SDK gave up as refused
  launchedAt, \* history: written when this process was started
  faults      \* history: faults so far

history == <<applied, lastAcked, answer, written, dropped, launchedAt, faults>>
vars == <<authUser, tokens, main, worker, current, queue, nextId, callbacks,
          net, docs, applied, lastAcked, answer, written, dropped, launchedAt,
          faults>>

-----------------------------------------------------------------------------
(* Types *)

Batch == [id : Nat \ {0}, write : Writes]

\* The handshake request on a stream, and its answer.
Hello == [id |-> 0, write |-> 0]

\* A token somebody asked for: close_count_ and token_counter as they were,
\* and the user FirebaseAuth found, None before it looked.
TokenRequest == [closes : Nat, tokens : Nat, user : Users \cup {None}]

Net == [pipeline : Seq(Batch),   \* write_pipeline_
        state : {"Initial", "Starting", "Open", "Error", "Backoff"},
        handshake : BOOLEAN,     \* handshake_complete_
        idle : BOOLEAN,          \* the idleness timer is running
        closes : Nat,            \* close_count_
        asks : SUBSET TokenRequest,         \* GetToken calls FirebaseAuth has
        as : Users \cup {None},             \* whose token the stream carries
        wire : Seq(Batch \cup {Hello}),     \* requests under way
        replies : Seq(Batch \cup {Hello}),  \* what is answered, under way
        refused : BOOLEAN]       \* the backend refused the head of the wire

NewNet == [pipeline |-> <<>>, state |-> "Initial", handshake |-> FALSE,
           idle |-> FALSE, closes |-> 0, asks |-> {}, as |-> None,
           wire |-> <<>>, replies |-> <<>>, refused |-> FALSE]

Init ==
  /\ authUser \in Users
  /\ tokens = 0
  /\ main = <<>>
  /\ worker = <<>>
  /\ current = authUser
  /\ queue = [u \in Users |-> <<>>]
  /\ nextId = 1
  /\ callbacks = [u \in Users |-> {}]
  /\ net = NewNet
  /\ docs = [k \in Docs |-> None]
  /\ applied = {}
  /\ lastAcked = [k \in Docs |-> None]
  /\ answer = [w \in Writes |-> "none"]
  /\ written = 0
  /\ dropped = {}
  /\ launchedAt = 0
  /\ faults = 0

-----------------------------------------------------------------------------
(* Stream and RemoteStore.  Each operator takes and returns a Net. *)

IsOpen(n) == n.state = "Open"
IsStarted(n) == n.state \in {"Starting", "Backoff", "Open"}

\* Stream::Start, with the RequestCredentials it makes.
Start(n) ==
  IF n.state = "Error" THEN [n EXCEPT !.state = "Backoff"]
  ELSE [n EXCEPT !.state = "Starting",
          !.asks = @ \cup {[closes |-> n.closes, tokens |-> tokens,
                            user |-> None]}]

ShouldStartWriteStream(n) == ~IsStarted(n) /\ n.pipeline # <<>>
StartIfNeeded(n) == IF ShouldStartWriteStream(n) THEN Start(n) ELSE n

\* Mutant: Write leaves the idleness timer running.
WriteKeepingTimer(n, requests) == [n EXCEPT !.wire = @ \o requests]

\* Mutant: several requests go out newest first.
WriteNewestFirst(n, requests) ==
  IF requests = <<>> THEN n
  ELSE [n EXCEPT !.idle = FALSE, !.wire = @ \o
          [j \in 1..Len(requests) |-> requests[Len(requests) + 1 - j]]]

\* Stream::Write of some requests, which also stops the idleness timer.
Write(n, requests) ==
  IF requests = <<>> THEN n
  ELSE [n EXCEPT !.wire = @ \o requests, !.idle = FALSE]

\* NextMutationBatchAfterBatchId, over and over: the batches of a queue that
\* come after batch id.
BatchesAfter(q, id) ==
  SubSeq(q, Cardinality({j \in 1..Len(q) : q[j].id <= id}) + 1, Len(q))

\* The batches that FillWritePipeline adds.
NextBatches(p, q) ==
  LET more == BatchesAfter(q, IF p = <<>> THEN 0 ELSE p[Len(p)].id)
      room == MaxPendingWrites - Len(p)
  IN SubSeq(more, 1, IF Len(more) <= room THEN Len(more) ELSE room)

\* Mutant: batches go out before the handshake is complete.
AddToWritePipelineEarly(n, added) ==
  LET m == [n EXCEPT !.pipeline = @ \o added]
  IN IF IsOpen(m) THEN Write(m, added) ELSE m

\* AddToWritePipeline for each of them.
AddToWritePipeline(n, added) ==
  LET m == [n EXCEPT !.pipeline = @ \o added]
  IN IF IsOpen(m) /\ m.handshake THEN Write(m, added) ELSE m

\* FillWritePipeline from queue q; with nothing to do it marks an open stream
\* idle.
FillWritePipeline(n, q) ==
  LET m == AddToWritePipeline(n, NextBatches(n.pipeline, q))
  IN StartIfNeeded([m EXCEPT !.idle = @ \/ (m.pipeline = <<>> /\ IsOpen(m))])

\* Stream::Close up to its notification: timers, close_count_, the gRPC
\* stream and what was under way on it.
Close(n, state) ==
  [n EXCEPT !.state = state, !.closes = @ + 1, !.idle = FALSE, !.as = None,
            !.wire = <<>>, !.replies = <<>>, !.refused = FALSE]

\* Stream::Stop; OnWriteStreamClose finds nothing to do.
Stop(n) ==
  IF IsStarted(n) THEN [Close(n, "Initial") EXCEPT !.handshake = FALSE]
  ELSE n

\* Mutant: the pipeline is filled anew but the stream stays.
RestartNetworkKeepingStream(n, q) ==
  FillWritePipeline([n EXCEPT !.pipeline = <<>>], q)

\* Mutant: the pipeline outlives the restart.
RestartNetworkKeepingPipeline(n, q) ==
  FillWritePipeline([Stop(n) EXCEPT !.state = "Initial"], q)

\* RestartNetwork: DisableNetworkInternal, InhibitBackoff, EnableNetwork.
RestartNetwork(n, q) ==
  FillWritePipeline([Stop(n) EXCEPT !.pipeline = <<>>, !.state = "Initial"],
                    q)

\* Mutant: a stream that broke is not started again.
RetryAfterNothing(n) == [Close(n, "Error") EXCEPT !.handshake = FALSE]

\* OnWriteStreamClose after an error that leaves the writes alone: it was not
\* permanent, or came before the handshake was complete.
RetryAfter(n) ==
  [StartIfNeeded(Close(n, "Error")) EXCEPT !.handshake = FALSE]

\* OnWriteStreamClose after a permanent error: HandleWriteError drops the
\* front of the pipeline, inhibits the backoff and refills from queue q.
DropFrontAfter(n, q) ==
  LET m == [Close(n, "Error") EXCEPT !.pipeline = Tail(@),
                                     !.state = "Initial"]
  IN [StartIfNeeded(FillWritePipeline(m, q)) EXCEPT !.handshake = FALSE]

\* A callback of mutation_callbacks_[current_user_] is called, if there is one.
NotifyUser(id, result) ==
  LET called == {c \in callbacks[current] : c.id = id}
  IN /\ answer' = [w \in Writes |->
                     IF \E c \in called : c.write = w THEN result
                     ELSE answer[w]]
     /\ callbacks' = [callbacks EXCEPT ![current] = @ \ called]

\* RemoveMutationBatch
Without(q, id) ==
  LET j == CHOOSE i \in 1..Len(q) : q[i].id = id
  IN SubSeq(q, 1, j - 1) \o SubSeq(q, j + 1, Len(q))

\* Mutant: ids start over.
LoadNextBatchIdFromScratch(q) == 1

\* Mutant: the largest id itself.
LoadLastBatchIdFromDb(q) ==
  LET ids == {0} \cup UNION {{q[u][j].id : j \in 1..Len(q[u])} : u \in Users}
  IN CHOOSE i \in ids : \A k \in ids : k <= i

\* LoadNextBatchIdFromDb: one more than any id in any user's queue.
LoadNextBatchIdFromDb(q) ==
  LET ids == {0} \cup UNION {{q[u][j].id : j \in 1..Len(q[u])} : u \in Users}
  IN (CHOOSE i \in ids : \A k \in ids : k <= i) + 1

-----------------------------------------------------------------------------
Fault == faults < MaxFaults /\ faults' = faults + 1

(* The app *)

\* SyncEngine::WriteMutations
WriteMutations ==
  /\ written < MaxWrites
  /\ LET batch == [id |-> nextId, write |-> written + 1]
     IN /\ queue' = [queue EXCEPT ![current] = Append(@, batch)]
        /\ callbacks' = [callbacks EXCEPT ![current] =
             IF \E c \in @ : c.id = nextId THEN @ ELSE @ \cup {batch}]
  /\ nextId' = nextId + 1
  /\ written' = written + 1
  /\ net' = FillWritePipeline(net, queue'[current])
  /\ UNCHANGED <<authUser, tokens, main, worker, current, docs, applied,
                 lastAcked, answer, dropped, faults, launchedAt>>

-----------------------------------------------------------------------------
(* FirebaseAuth and the main queue *)

\* Sign-in, sign-out or (for the user there is) a new token: _currentUser is
\* set on the auth queue and the notification dispatched to the main queue.
UpdateCurrentUser(u) ==
  /\ Fault
  /\ authUser' = u
  /\ main' = Append(main, [kind |-> "notify", user |-> u])
  /\ UNCHANGED <<tokens, worker, current, queue, nextId, callbacks, net, docs,
                 applied, lastAcked, answer, written, dropped, launchedAt>>

\* Auth.getToken on the auth queue: it picks the user it answers for.
ReadCurrentUser(r) ==
  /\ r \in net.asks
  /\ r.user = None
  /\ net' = [net EXCEPT !.asks =
       (@ \ {r}) \cup {[r EXCEPT !.user = authUser]}]
  /\ UNCHANGED <<authUser, tokens, main, worker, current, queue, nextId,
                 callbacks, docs, history>>

\* The token is there, or (None) fetching it failed.
DeliverToken(r, user) ==
  /\ r \in net.asks
  /\ r.user # None
  /\ \/ user = r.user /\ UNCHANGED faults
     \/ user = None /\ Fault
  /\ net' = [net EXCEPT !.asks = @ \ {r}]
  /\ main' = Append(main, [kind |-> "token", user |-> user,
                           tokens |-> r.tokens, closes |-> r.closes])
  /\ UNCHANGED <<authUser, tokens, worker, current, queue, nextId, callbacks,
                 docs, applied, lastAcked, answer, written, dropped,
                 launchedAt>>

\* get_token_callback: no notification came since the token was asked for.
StillCurrent(b) == b.tokens = tokens

\* The main queue runs its next block: a notification goes on to the worker
\* queue; a token does too, or is asked for again.
RunMain ==
  /\ main # <<>>
  /\ main' = Tail(main)
  /\ LET b == Head(main) IN
       \/ /\ b.kind = "notify"
          /\ tokens' = tokens + 1
          /\ worker' = Append(worker, [kind |-> "credential", user |-> b.user])
          /\ UNCHANGED net
       \/ /\ b.kind = "token"
          /\ StillCurrent(b)
          /\ worker' = Append(worker, [kind |-> "token", user |-> b.user,
                                       closes |-> b.closes])
          /\ UNCHANGED <<tokens, net>>
       \/ /\ b.kind = "token"
          /\ ~StillCurrent(b)
          /\ net' = [net EXCEPT !.asks = @ \cup
               {[closes |-> b.closes, tokens |-> tokens, user |-> None]}]
          /\ UNCHANGED <<tokens, worker>>
  /\ UNCHANGED <<authUser, current, queue, nextId, callbacks, docs, history>>

-----------------------------------------------------------------------------
(* Operations of the worker queue *)

\* SyncEngine::HandleCredentialChange
HandleCredentialChange ==
  /\ worker # <<>>
  /\ Head(worker).kind = "credential"
  /\ worker' = Tail(worker)
  /\ current' = Head(worker).user
  /\ nextId' = IF current' # current THEN LoadNextBatchIdFromDb(queue)
               ELSE nextId
  /\ net' = RestartNetwork(net, queue[current'])
  /\ UNCHANGED <<authUser, tokens, main, queue, callbacks, docs, history>>

\* The completion of RequestCredentials is for the stream there is now.
ForThisStream(op) == op.closes = net.closes

\* RequestCredentials completes: a token opens the stream, whose handshake
\* goes out at once; no token is a stream error.
ResumeStartWithCredentials ==
  /\ worker # <<>>
  /\ Head(worker).kind = "token"
  /\ worker' = Tail(worker)
  /\ LET op == Head(worker) IN
       net' = CASE ~ForThisStream(op) -> net
                [] ForThisStream(op) /\ op.user = None -> RetryAfter(net)
                [] OTHER -> [net EXCEPT !.state = "Open", !.as = op.user,
                                        !.wire = <<Hello>>]
  /\ UNCHANGED <<authUser, tokens, main, current, queue, nextId, callbacks,
                 docs, history>>

\* The first answer on a stream: OnWriteStreamHandshakeComplete.
HandshakeReply ==
  /\ net.replies # <<>>
  /\ ~net.handshake
  /\ net' = Write([net EXCEPT !.handshake = TRUE, !.replies = Tail(@)],
                  net.pipeline)
  /\ UNCHANGED <<authUser, tokens, main, worker, current, queue, nextId,
                 callbacks, docs, history>>

\* OnWriteStreamMutationResult: any later answer acknowledges the front of
\* the pipeline; HandleSuccessfulWrite, then the pipeline is refilled.
MutationReply ==
  /\ net.replies # <<>>
  /\ net.handshake
  /\ LET batch == Head(net.pipeline)
         n == [net EXCEPT !.replies = Tail(@), !.pipeline = Tail(@)]
     IN /\ NotifyUser(batch.id, "ok")
        /\ queue' = [queue EXCEPT ![current] = Without(@, batch.id)]
        /\ net' = FillWritePipeline(n, queue'[current])
        /\ lastAcked' = [lastAcked EXCEPT ![Target[batch.write]] =
                           batch.write]
  /\ UNCHANGED <<authUser, tokens, main, worker, current, nextId, docs,
                 applied, written, dropped, faults, launchedAt>>

\* The stream fails, with an error that is no write's fault.
StreamBreaks ==
  /\ Fault
  /\ net.as # None
  /\ net' = RetryAfter(net)
  /\ UNCHANGED <<authUser, tokens, main, worker, current, queue, nextId,
                 callbacks, docs, applied, lastAcked, answer, written,
                 dropped, launchedAt>>

\* The backend ends the stream with status OK: OnStreamFinish closes it as a
\* graceful stop.  With writes pending, the HARD_ASSERT of OnWriteStreamClose
\* would end the process instead, which is a Crash.
StreamEnds ==
  /\ net.as # None
  /\ net.pipeline = <<>>
  /\ net' = Stop(net)
  /\ UNCHANGED <<authUser, tokens, main, worker, current, queue, nextId,
                 callbacks, docs, history>>

\* The stream ends because the backend refused a write.  FinishGrpcCall drops
\* the answers not read yet, so the front of the pipeline, which takes the
\* blame, need not be the write that was refused.
StreamRefused ==
  /\ net.refused
  /\ net.handshake /\ net.pipeline # <<>>
  /\ LET batch == Head(net.pipeline)
     IN /\ NotifyUser(batch.id, "failed")
        /\ queue' = [queue EXCEPT ![current] = Without(@, batch.id)]
        /\ net' = DropFrontAfter(net, queue'[current])
        /\ dropped' = dropped \cup {batch.write}
  /\ UNCHANGED <<authUser, tokens, main, worker, current, nextId, docs,
                 applied, lastAcked, written, faults, launchedAt>>

\* The backoff is over.
BackoffElapsed ==
  /\ net.state = "Backoff"
  /\ net' = Start([net EXCEPT !.state = "Initial"])
  /\ UNCHANGED <<authUser, tokens, main, worker, current, queue, nextId,
                 callbacks, docs, history>>

\* The idleness timer fires.
IdleTimeout ==
  /\ net.idle
  /\ net' = Stop(net)
  /\ UNCHANGED <<authUser, tokens, main, worker, current, queue, nextId,
                 callbacks, docs, history>>

\* The connectivity monitor reports a network.
ConnectivityChanged ==
  /\ Fault
  /\ net' = RestartNetwork(net, queue[current])
  /\ UNCHANGED <<authUser, tokens, main, worker, current, queue, nextId,
                 callbacks, docs, applied, lastAcked, answer, written,
                 dropped, launchedAt>>

\* The process dies and is started again: FirestoreClient::Initialize, with
\* the user of the keychain and the queues of LevelDB.  token_counter starts
\* over, but so do the readings it is compared with, so tokens may stay.
Crash ==
  /\ Fault
  /\ current' = authUser
  /\ main' = <<>>
  /\ worker' = <<>>
  /\ callbacks' = [u \in Users |-> {}]
  /\ launchedAt' = written
  /\ nextId' = LoadNextBatchIdFromDb(queue)
  /\ net' = FillWritePipeline(NewNet, queue[authUser])
  /\ UNCHANGED <<authUser, tokens, queue, docs, applied, lastAcked, answer,
                 written, dropped>>

-----------------------------------------------------------------------------
(* The backend takes the requests of a stream in order. *)

ServeHandshake ==
  /\ net.wire # <<>>
  /\ Head(net.wire) = Hello
  /\ net' = [net EXCEPT !.wire = Tail(@), !.replies = Append(@, Hello)]
  /\ UNCHANGED <<authUser, tokens, main, worker, current, queue, nextId,
                 callbacks, docs, history>>

ServeWrite ==
  /\ net.wire # <<>>
  /\ Head(net.wire) # Hello
  /\ ~net.refused
  /\ LET w == Head(net.wire).write
     IN /\ docs' = [docs EXCEPT ![Target[w]] = w]
        /\ applied' = applied \cup {w}
  /\ net' = [net EXCEPT !.wire = Tail(@),
                        !.replies = Append(@, Head(net.wire))]
  /\ UNCHANGED <<authUser, tokens, main, worker, current, queue, nextId,
                 callbacks, lastAcked, answer, written, dropped, faults,
                 launchedAt>>

RefuseWrite ==
  /\ net.wire # <<>>
  /\ Head(net.wire) # Hello
  /\ ~net.refused
  /\ net' = [net EXCEPT !.refused = TRUE]
  /\ UNCHANGED <<authUser, tokens, main, worker, current, queue, nextId,
                 callbacks, docs, history>>

-----------------------------------------------------------------------------
TokenStep == \E r \in net.asks :
  ReadCurrentUser(r) \/ \E u \in Users \cup {None} : DeliverToken(r, u)
WorkerStep == HandleCredentialChange \/ ResumeStartWithCredentials
Serve == ServeHandshake \/ ServeWrite \/ RefuseWrite
Reply == HandshakeReply \/ MutationReply \/ StreamRefused

Next ==
  \/ WriteMutations
  \/ \E u \in Users : UpdateCurrentUser(u)
  \/ TokenStep
  \/ RunMain
  \/ WorkerStep
  \/ Reply
  \/ StreamBreaks
  \/ StreamEnds
  \/ BackoffElapsed
  \/ IdleTimeout
  \/ ConnectivityChanged
  \/ Crash
  \/ Serve

Spec == Init /\ [][Next]_vars

\* Fairness: FirebaseAuth answers, queues and timers run, the backend takes
\* requests and its answers arrive.  Nothing forces faults, sign-ins, writes
\* or the idleness timer.
Fairness ==
  /\ WF_vars(TokenStep) /\ WF_vars(RunMain) /\ WF_vars(WorkerStep)
  /\ WF_vars(BackoffElapsed) /\ WF_vars(Serve) /\ WF_vars(Reply)

FairSpec == Spec /\ Fairness

-----------------------------------------------------------------------------
(* Properties *)

\* Every variable keeps the shape its declaration gives it.
TypeOK ==
  /\ authUser \in Users /\ current \in Users
  /\ tokens \in Nat /\ nextId \in Nat \ {0}
  /\ main \in Seq([kind : {"notify"}, user : Users] \cup
                  [kind : {"token"}, user : Users \cup {None}, tokens : Nat,
                   closes : Nat])
  /\ worker \in Seq([kind : {"credential"}, user : Users] \cup
                    [kind : {"token"}, user : Users \cup {None},
                     closes : Nat])
  /\ queue \in [Users -> Seq(Batch)]
  /\ callbacks \in [Users -> SUBSET Batch]
  /\ net \in Net
  /\ docs \in [Docs -> Writes \cup {None}]
  /\ applied \subseteq Writes
  /\ lastAcked \in [Docs -> Writes \cup {None}]
  /\ answer \in [Writes -> {"none", "ok", "failed"}]
  /\ written \in 0..MaxWrites
  /\ dropped \subseteq Writes
  /\ launchedAt \in 0..MaxWrites
  /\ faults \in 0..MaxFaults

\* RemoteStore matches answers to writes by position alone.  That is right
\* because the pipeline is always the front part of the open queue, and what
\* is under way on a stream is, in order, exactly the pipeline: an answer is
\* never taken for one to another write, through breaks, re-sent writes,
\* refused writes and changes of user.
AnswersInStep ==
  /\ Len(net.pipeline) <= Len(queue[current])
  /\ net.pipeline = SubSeq(queue[current], 1, Len(net.pipeline))
  /\ net.as # None =>
       net.replies \o net.wire =
         IF net.handshake THEN net.pipeline ELSE <<Hello>>

\* A stream carries the token of the user whose writes it sends, although
\* FirebaseAuth changes its user at any time and Firestore hears of it late:
\* the order of the main queue, token_counter and close_count_ see to that.
SentAsOwner == net.as \in {None, current}

\* The HARD_ASSERTs that the SDK's own steps must keep:
\* ResumeStartWithCredentials finds the stream starting and its handshake
\* open; the graceful stop of the idleness timer finds no writes to send; an
\* answer finds a write that waits for it.  (That no stream is ended with
\* status OK while writes are pending is up to the backend.)
HardAsserts ==
  /\ \A j \in 1..Len(worker) :
       (worker[j].kind = "token" /\ ForThisStream(worker[j]))
         => net.state = "Starting" /\ ~net.handshake
  /\ net.idle => net.pipeline = <<>>
  /\ (net.replies # <<>> /\ net.handshake) => net.pipeline # <<>>

\* The await that resumes is the one of the write that was answered, and no
\* await is forgotten: batch ids are used again after a restart or a change
\* of user, but a user's callbacks always belong to exactly those batches of
\* its queue that this process wrote.
CallbacksMatch ==
  \A u \in Users :
    callbacks[u] = {queue[u][j] : j \in
                      {i \in 1..Len(queue[u]) :
                         queue[u][i].write > launchedAt}}

\* Re-sending leaves no document behind the times: once nothing is queued for
\* a document, and none of its writes was refused, it holds the write that
\* was acknowledged last, even though an older one may have been applied
\* again in between.
LastAckedKept ==
  \A k \in Docs :
    (/\ \A u \in Users : \A j \in 1..Len(queue[u]) :
          Target[queue[u][j].write] # k
     /\ \A w \in dropped : Target[w] # k)
    => docs[k] = lastAcked[k]

\* The SDK keeps the promise the app relies on.
Promise == INSTANCE WriteQueue WITH
  pending <- [u \in Users |-> [j \in 1..Len(queue[u]) |-> queue[u][j].write]],
  active <- current,
  waiting <- UNION {{c.write : c \in callbacks[u]} : u \in Users}
KeepsPromise == Promise!Spec

\* A write does not wait for ever: once the faults are over, every queued
\* write of the user who stays signed in is sent and answered.
QueueDrains ==
  \A u \in Users :
    queue[u] # <<>> ~> (queue[u] = <<>> \/ authUser # u)
=============================================================================
