------------------------ MODULE GamePlayStreakProofs ------------------------
(***************************************************************************)
(* Theorems about GamePlay that follow a submission from its tap to the    *)
(* streak: the answer is stored before the streak goes on, every streak    *)
(* has been earned, and the documents behave as AnswerBook promises.       *)
(***************************************************************************)
EXTENDS GamePlayProofs, FiniteSetTheorems

-----------------------------------------------------------------------------
(***************************************************************************)
(* Writes and the tasks that await them.  A write remembers the slot of    *)
(* its task, and settling it wakes whatever is in that slot; this is right *)
(* only because a slot is not used again while a write of its task is in   *)
(* some queue of the phone, served or parked.                              *)
(***************************************************************************)

\* A submission awaits a write.
Awaiting(t) == t.io = "sent" /\ t.pc \in {"response", "streak"}

\* Write w is the one that submission t awaits.
Awaited(w, t) ==
  /\ t.io = "sent"
  /\ w.kind = "response" => /\ t.pc = "response"
                            /\ w.name = t.name
                            /\ w.day = t.day
                            /\ w.answer = t.answer
  /\ w.kind = "streak" => t.pc = "streak"

\* Every write of a submission is the one it awaits ...
WritesAwaited ==
  \A d \in Devices, u \in Accounts : \A j \in 1..Len(outbox[d][u]) :
    outbox[d][u][j].by \in SubmitSlots =>
      Awaited(outbox[d][u][j], submit[d][outbox[d][u][j].by])

\* ... and the only one in any queue of its phone.
OneWriteEach ==
  \A d \in Devices, u, v \in Accounts :
    \A j \in 1..Len(outbox[d][u]), k \in 1..Len(outbox[d][v]) :
      (/\ outbox[d][u][j].by \in SubmitSlots
       /\ outbox[d][u][j].by = outbox[d][v][k].by)
        => u = v /\ j = k

\* A response the backend has is on file.
AppliedOnFile ==
  \A d \in Devices, u \in Accounts : \A j \in 1..Len(outbox[d][u]) :
    (outbox[d][u][j].kind = "response" /\ outbox[d][u][j].applied)
      => responses[outbox[d][u][j].name][outbox[d][u][j].day] # None

\* The answer of submission t was acknowledged.
Acknowledged(t) ==
  \/ t.pc \in {"hop", "streak", "back"}
  \/ t.pc = "response" /\ t.io = "done"

\* An acknowledged answer is on file.
AcknowledgedOnFile ==
  \A d \in Devices, i \in SubmitSlots :
    Acknowledged(submit[d][i]) =>
      responses[submit[d][i].name][submit[d][i].day] # None

Delivery ==
  WritesAwaited /\ OneWriteEach /\ AppliedOnFile /\ AcknowledgedOnFile

-----------------------------------------------------------------------------
(***************************************************************************)
(* Streaks are paid for.  StreakEarned is not inductive: two phones with   *)
(* the same streak may both be about to add 1 to it.  Each of them holds a *)
(* correct answer that is stored and not yet credited, so every streak     *)
(* anywhere leaves room for all of those.                                  *)
(***************************************************************************)

\* Some write of submission i of phone d has reached the backend.
Delivering(d, i) ==
  \E u \in Accounts : \E j \in 1..Len(outbox[d][u]) :
    outbox[d][u][j].by = i /\ outbox[d][u][j].applied

\* The correct answer of submission i of phone d is stored but not yet in a
\* streak.
Owed(d, i) ==
  LET t == submit[d][i] IN
    /\ t.pc = "response"
    /\ t.answer.answerOutcome
    /\ t.io = "done" \/ (t.io = "sent" /\ Delivering(d, i))

Uncredited == {x \in Devices \X SubmitSlots : Owed(x[1], x[2])}

\* Streaks that the other stored correct answers pay for.
Covered == {n \in Nat : n + Cardinality(Uncredited) <= stored}

\* Every streak, wherever it is held, is one of C: in the documents, on the
\* screens, in the replies and the tasks under way, in the writes queued.
CloudIn(C) == \A p \in Players : streaks[p] \in C \cup {None}
UsersIn(C) == \A d \in Devices : user[d].streak \in C \cup {None}
LoginsIn(C) ==
  \A d \in Devices, i \in LoginSlots : login[d][i].reply \in C \cup {None}
SubmitsIn(C) == \A d \in Devices, i \in SubmitSlots : submit[d][i].streak \in C
QueuesIn(C) ==
  \A d \in Devices, u \in Accounts : \A j \in 1..Len(outbox[d][u]) :
    outbox[d][u][j].kind = "streak" => outbox[d][u][j].streak \in C

StreaksCovered ==
  /\ IsFiniteSet(Uncredited)
  /\ 0 \in Covered
  /\ CloudIn(Covered)
  /\ UsersIn(Covered)
  /\ LoginsIn(Covered)
  /\ SubmitsIn(Covered)
  /\ QueuesIn(Covered)

-----------------------------------------------------------------------------
(* Where the writes of a phone's queues come from in a step. *)

\* Write w joins the queue in use on phone d.
Pushes(d, w) ==
  outbox' = [outbox EXCEPT ![d][authUser[d]] = Append(Queue(d), w)]

\* The oldest write leaves the queue in use on phone d.
Pops(d) ==
  /\ Queue(d) # <<>>
  /\ outbox' = [outbox EXCEPT ![d][authUser[d]] = Tail(Queue(d))]

\* A write joins the queue in use; the others stay where they are.
LEMMA PushPositions ==
  ASSUME TypeOK, NEW d \in Devices, NEW w \in Write, Pushes(d, w)
  PROVE  \A e \in Devices, v \in Accounts : \A j \in 1..Len(outbox'[e][v]) :
         \/ /\ j \in 1..Len(outbox[e][v])
            /\ outbox'[e][v][j] = outbox[e][v][j]
         \/ /\ e = d /\ v = authUser[d] /\ j = Len(Queue(d)) + 1
            /\ outbox'[e][v][j] = w
  <1> TAKE e \in Devices, v \in Accounts
  <1> TAKE j \in 1..Len(outbox'[e][v])
  <1>1. CASE e = d /\ v = authUser[d]
    <2>1. outbox'[e][v] = Append(Queue(d), w) /\ outbox[e][v] = Queue(d)
      BY <1>1 DEF TypeOK, Queue, Pushes
    <2>2. Queue(d) \in Seq(Write)
      BY QueueType
    <2> QED BY <1>1, <2>1, <2>2
  <1>2. CASE ~(e = d /\ v = authUser[d])
    <2>1. outbox'[e][v] = outbox[e][v]
      BY <1>2 DEF TypeOK, Pushes
    <2> QED BY <2>1
  <1> QED BY <1>1, <1>2

\* The oldest write of the queue in use leaves it; the others move up.
LEMMA PopPositions ==
  ASSUME TypeOK, NEW d \in Devices, Pops(d)
  PROVE  \A e \in Devices, v \in Accounts : \A j \in 1..Len(outbox'[e][v]) :
         LET k == IF e = d /\ v = authUser[d] THEN j + 1 ELSE j
         IN /\ k \in 1..Len(outbox[e][v])
            /\ outbox'[e][v][j] = outbox[e][v][k]
  <1> TAKE e \in Devices, v \in Accounts
  <1> TAKE j \in 1..Len(outbox'[e][v])
  <1>1. CASE e = d /\ v = authUser[d]
    <2>1. outbox'[e][v] = Tail(Queue(d)) /\ outbox[e][v] = Queue(d)
      BY <1>1 DEF TypeOK, Queue, Pops
    <2>2. Queue(d) \in Seq(Write) /\ Len(Queue(d)) \in Nat
      BY QueueType
    <2>3. /\ Len(Tail(Queue(d))) = Len(Queue(d)) - 1
          /\ \A k \in 1..Len(Tail(Queue(d))) :
               Tail(Queue(d))[k] = Queue(d)[k + 1]
      BY <2>2, HeadTailProperties DEF Pops
    <2>4. j \in 1..(Len(Queue(d)) - 1)
      BY <2>1, <2>3
    <2>5. j + 1 \in 1..Len(Queue(d))
      BY <2>2, <2>4
    <2> QED BY <1>1, <2>1, <2>3, <2>5
  <1>2. CASE ~(e = d /\ v = authUser[d])
    <2>1. outbox'[e][v] = outbox[e][v]
      BY <1>2 DEF TypeOK, Pops
    <2> QED BY <1>2, <2>1
  <1> QED BY <1>1, <1>2

\* A delivered write gets its mark; nothing else changes.
LEMMA MarkPositions ==
  ASSUME TypeOK, NEW d \in Devices, NEW m, Delivered(d, m)
  PROVE  \A e \in Devices, v \in Accounts :
         /\ Len(outbox'[e][v]) = Len(outbox[e][v])
         /\ \A j \in 1..Len(outbox[e][v]) :
              outbox'[e][v][j] =
                IF e = d /\ v = authUser[d] /\ j = m
                THEN [outbox[e][v][j] EXCEPT !.applied = TRUE]
                ELSE outbox[e][v][j]
  <1> TAKE e \in Devices, v \in Accounts
  <1>1. CASE e = d /\ v = authUser[d]
    <2>1. /\ outbox'[e][v] = [Queue(d) EXCEPT ![m].applied = TRUE]
          /\ outbox[e][v] = Queue(d)
          /\ m \in 1..Len(Queue(d))
      BY <1>1 DEF TypeOK, Delivered, Queue
    <2>2. Queue(d) \in Seq(Write)
      BY QueueType
    <2>3. DOMAIN Queue(d) = 1..Len(Queue(d))
      BY <2>2
    <2>4. Len([Queue(d) EXCEPT ![m].applied = TRUE]) = Len(Queue(d))
      BY <2>1, <2>2, MarkType
    <2>5. \A j \in 1..Len(Queue(d)) :
            [Queue(d) EXCEPT ![m].applied = TRUE][j] =
              IF j = m THEN [Queue(d)[j] EXCEPT !.applied = TRUE]
              ELSE Queue(d)[j]
      BY <2>1, <2>3
    <2> QED BY <1>1, <2>1, <2>4, <2>5
  <1>2. CASE ~(e = d /\ v = authUser[d])
    <2>1. outbox'[e][v] = outbox[e][v]
      BY <1>2 DEF TypeOK, Delivered
    <2> QED BY <1>2, <2>1
  <1> QED BY <1>1, <1>2

\* A crash takes the tasks from the writes of its phone.
LEMMA CrashPositions ==
  ASSUME TypeOK, NEW d \in Devices, Crash(d)
  PROVE  \A e \in Devices, v \in Accounts :
         /\ Len(outbox'[e][v]) = Len(outbox[e][v])
         /\ \A j \in 1..Len(outbox[e][v]) :
              outbox'[e][v][j] =
                IF e = d THEN [outbox[e][v][j] EXCEPT !.by = None]
                ELSE outbox[e][v][j]
  <1> TAKE e \in Devices, v \in Accounts
  <1>1. outbox[e][v] \in Seq(Write)
    BY DEF TypeOK
  <1>2. outbox'[e][v] = IF e = d THEN Orphaned(outbox[e][v])
                        ELSE outbox[e][v]
    BY DEF TypeOK, Crash
  <1> QED BY <1>1, <1>2, OrphanedType

\* Every write in a queue is a response or a streak.
LEMMA WriteInQueue ==
  ASSUME TypeOK, NEW d \in Devices, NEW u \in Accounts,
         NEW j \in 1..Len(outbox[d][u])
  PROVE  /\ outbox[d][u][j] \in Write
         /\ outbox[d][u][j].kind \in {"response", "streak"}
  <1>1. outbox[d][u] \in Seq(Write)
    BY DEF TypeOK
  <1>2. outbox[d][u][j] \in Write
    BY <1>1
  <1> QED BY <1>2 DEF Write, ResponseWrite, StreakWrite

-----------------------------------------------------------------------------
(* Delivery is kept. *)

\* A submission goes from t to v without a word from the network: what it
\* awaits stays what it was, and nothing is acknowledged.
Moves(t, v) ==
  /\ Awaiting(t) => /\ v.pc = t.pc /\ v.io = t.io
                    /\ v.name = t.name /\ v.day = t.day
                    /\ v.answer = t.answer
  /\ Acknowledged(v) => /\ Acknowledged(t)
                        /\ v.name = t.name /\ v.day = t.day
  /\ (v.pc = "response" /\ v.io = "done") =>
       t.pc = "response" /\ t.io = "done" /\ v.answer = t.answer

TasksMove ==
  \A d \in Devices, i \in SubmitSlots : Moves(submit[d][i], submit'[d][i])

\* A write that a submission awaits goes on being awaited.
LEMMA AwaitedMoves ==
  ASSUME NEW w, NEW t, NEW v, w.kind \in {"response", "streak"},
         Awaited(w, t), Moves(t, v)
  PROVE  Awaited(w, v)
  BY DEF Awaited, Moves, Awaiting

\* Two places with a write of one submission are the same place.
LEMMA OneWrite ==
  ASSUME OneWriteEach, NEW d \in Devices,
         NEW u \in Accounts, NEW j \in 1..Len(outbox[d][u]),
         NEW v \in Accounts, NEW k \in 1..Len(outbox[d][v]),
         outbox[d][u][j].by \in SubmitSlots,
         outbox[d][u][j].by = outbox[d][v][k].by
  PROVE  u = v /\ j = k
  BY DEF OneWriteEach

\* So it does when no queue changes.
LEMMA LinksFrame ==
  ASSUME TypeOK, WritesAwaited, OneWriteEach, TasksMove, UNCHANGED outbox
  PROVE  (WritesAwaited /\ OneWriteEach)'
  <1>1. OneWriteEach'
    BY DEF OneWriteEach
  <1>2. WritesAwaited'
    <2> SUFFICES ASSUME NEW d \in Devices, NEW u \in Accounts,
                        NEW j \in 1..Len(outbox'[d][u]),
                        outbox'[d][u][j].by \in SubmitSlots
                 PROVE  Awaited(outbox[d][u][j],
                                submit[d][outbox[d][u][j].by])'
      BY Zenon DEF WritesAwaited
    <2> DEFINE w == outbox[d][u][j]
    <2>1. w.kind \in {"response", "streak"}
      BY WriteInQueue
    <2>2. Awaited(w, submit[d][w.by])
      BY DEF WritesAwaited
    <2>3. Moves(submit[d][w.by], submit'[d][w.by])
      BY DEF TasksMove
    <2> HIDE DEF w
    <2>4. Awaited(w, submit'[d][w.by])
      BY <2>1, <2>2, <2>3, AwaitedMoves
    <2> QED BY <2>4 DEF w, Awaited
  <1> QED BY <1>1, <1>2

\* A new write joins a queue: of a sign-in, or the one that a submission that
\* awaited nothing now awaits.
LEMMA LinksPush ==
  ASSUME TypeOK, WritesAwaited, OneWriteEach, TasksMove,
         NEW d \in Devices, NEW w \in Write,
         Pushes(d, w),
         w.by \in SubmitSlots => /\ ~Awaiting(submit[d][w.by])
                                 /\ Awaited(w, submit'[d][w.by])
  PROVE  (WritesAwaited /\ OneWriteEach)'
  <1>p. \A e \in Devices, v \in Accounts : \A j \in 1..Len(outbox'[e][v]) :
         \/ /\ j \in 1..Len(outbox[e][v])
            /\ outbox'[e][v][j] = outbox[e][v][j]
         \/ /\ e = d /\ v = authUser[d] /\ j = Len(Queue(d)) + 1
            /\ outbox'[e][v][j] = w
    BY PushPositions
  <1>0. ASSUME NEW u \in Accounts, NEW j \in 1..Len(outbox[d][u]),
               w.by \in SubmitSlots
        PROVE  outbox[d][u][j].by # w.by
    <2>1. outbox[d][u][j].kind \in {"response", "streak"}
      BY WriteInQueue
    <2> QED BY <1>0, <2>1 DEF WritesAwaited, Awaited, Awaiting
  <1>1. OneWriteEach'
    <2> SUFFICES
          \A e \in Devices, u, v \in Accounts :
            \A j \in 1..Len(outbox'[e][u]), k \in 1..Len(outbox'[e][v]) :
              (/\ outbox'[e][u][j].by \in SubmitSlots
               /\ outbox'[e][u][j].by = outbox'[e][v][k].by)
                => u = v /\ j = k
      BY DEF OneWriteEach
    <2> TAKE e \in Devices, u, v \in Accounts
    <2> TAKE j \in 1..Len(outbox'[e][u]), k \in 1..Len(outbox'[e][v])
    <2> HAVE /\ outbox'[e][u][j].by \in SubmitSlots
             /\ outbox'[e][u][j].by = outbox'[e][v][k].by
    <2>1. \/ /\ j \in 1..Len(outbox[e][u])
             /\ outbox'[e][u][j] = outbox[e][u][j]
          \/ /\ e = d /\ u = authUser[d] /\ j = Len(Queue(d)) + 1
             /\ outbox'[e][u][j] = w
      BY <1>p
    <2>2. \/ /\ k \in 1..Len(outbox[e][v])
             /\ outbox'[e][v][k] = outbox[e][v][k]
          \/ /\ e = d /\ v = authUser[d] /\ k = Len(Queue(d)) + 1
             /\ outbox'[e][v][k] = w
      BY <1>p
    <2>3. CASE /\ j \in 1..Len(outbox[e][u])
               /\ outbox'[e][u][j] = outbox[e][u][j]
               /\ k \in 1..Len(outbox[e][v])
               /\ outbox'[e][v][k] = outbox[e][v][k]
      BY <2>3 DEF OneWriteEach
    <2>4. CASE /\ e = d /\ outbox'[e][u][j] = w
               /\ k \in 1..Len(outbox[e][v])
               /\ outbox'[e][v][k] = outbox[e][v][k]
      <3>1. outbox[d][v][k].by # w.by
        BY <1>0, <2>4
      <3> QED BY <2>4, <3>1
    <2>5. CASE /\ e = d /\ outbox'[e][v][k] = w
               /\ j \in 1..Len(outbox[e][u])
               /\ outbox'[e][u][j] = outbox[e][u][j]
      <3>1. outbox[d][u][j].by # w.by
        BY <1>0, <2>5
      <3> QED BY <2>5, <3>1
    <2> QED BY <2>1, <2>2, <2>3, <2>4, <2>5
  <1>2. WritesAwaited'
    <2> SUFFICES ASSUME NEW e \in Devices, NEW u \in Accounts,
                        NEW j \in 1..Len(outbox'[e][u]),
                        outbox'[e][u][j].by \in SubmitSlots
                 PROVE  Awaited(outbox[e][u][j],
                                submit[e][outbox[e][u][j].by])'
      BY Zenon DEF WritesAwaited
    <2>1. CASE /\ j \in 1..Len(outbox[e][u])
               /\ outbox'[e][u][j] = outbox[e][u][j]
      <3> DEFINE x == outbox[e][u][j]
      <3>1. x.kind \in {"response", "streak"}
        BY <2>1, WriteInQueue
      <3>2. Awaited(x, submit[e][x.by])
        BY <2>1 DEF WritesAwaited
      <3>3. Moves(submit[e][x.by], submit'[e][x.by])
        BY <2>1 DEF TasksMove
      <3> HIDE DEF x
      <3>4. Awaited(x, submit'[e][x.by])
        BY <3>1, <3>2, <3>3, AwaitedMoves
      <3> QED BY <2>1, <3>4 DEF x, Awaited
    <2>2. CASE e = d /\ outbox'[e][u][j] = w
      BY <2>2 DEF Awaited
    <2> QED BY <1>p, <2>1, <2>2
  <1> QED BY <1>1, <1>2

\* The responses on file stay on file while they do not change.
LEMMA OnFileFrame ==
  ASSUME TypeOK, AppliedOnFile, UNCHANGED responses,
         \A e \in Devices, v \in Accounts : \A j \in 1..Len(outbox'[e][v]) :
           \/ \E k \in 1..Len(outbox[e][v]) :
                outbox'[e][v][j] = outbox[e][v][k]
           \/ ~outbox'[e][v][j].applied
  PROVE  AppliedOnFile'
  <1> SUFFICES ASSUME NEW e \in Devices, NEW v \in Accounts,
                      NEW j \in 1..Len(outbox'[e][v]),
                      outbox'[e][v][j].kind = "response",
                      outbox'[e][v][j].applied
               PROVE  (responses[outbox[e][v][j].name][outbox[e][v][j].day]
                         # None)'
    BY Zenon DEF AppliedOnFile
  <1>1. PICK k \in 1..Len(outbox[e][v]) : outbox'[e][v][j] = outbox[e][v][k]
    OBVIOUS
  <1> QED BY <1>1 DEF AppliedOnFile

\* A step that hears nothing from the network keeps acknowledged answers.
LEMMA AcknowledgedFrame ==
  ASSUME AcknowledgedOnFile, TasksMove, UNCHANGED responses
  PROVE  AcknowledgedOnFile'
  BY DEF AcknowledgedOnFile, TasksMove, Moves

\* Steps that change no queue.
LEMMA DeliveryFrame ==
  ASSUME TypeOK, Delivery, TasksMove, UNCHANGED <<outbox, responses>>
  PROVE  Delivery'
  <1>1. (WritesAwaited /\ OneWriteEach)'
    BY LinksFrame DEF Delivery
  <1>2. AppliedOnFile'
    BY DEF Delivery, AppliedOnFile
  <1>3. AcknowledgedOnFile'
    BY AcknowledgedFrame DEF Delivery
  <1> QED BY <1>1, <1>2, <1>3 DEF Delivery

\* Steps that put a write in a queue.
LEMMA DeliveryPush ==
  ASSUME TypeOK, Delivery, TasksMove, UNCHANGED responses,
         NEW d \in Devices, NEW w \in Write, ~w.applied,
         Pushes(d, w),
         w.by \in SubmitSlots => /\ ~Awaiting(submit[d][w.by])
                                 /\ Awaited(w, submit'[d][w.by])
  PROVE  Delivery'
  <1>1. (WritesAwaited /\ OneWriteEach)'
    BY LinksPush DEF Delivery
  <1>2. AppliedOnFile'
    <2>1. \A e \in Devices, v \in Accounts : \A j \in 1..Len(outbox'[e][v]) :
            \/ \E k \in 1..Len(outbox[e][v]) :
                 outbox'[e][v][j] = outbox[e][v][k]
            \/ ~outbox'[e][v][j].applied
      BY PushPositions
    <2> QED BY <2>1, OnFileFrame DEF Delivery
  <1>3. AcknowledgedOnFile'
    BY AcknowledgedFrame DEF Delivery
  <1> QED BY <1>1, <1>2, <1>3 DEF Delivery

-----------------------------------------------------------------------------
(* What the backend and a crash leave of a write. *)

\* x writes what w writes.
SameContent(x, w) ==
  /\ x.kind = w.kind
  /\ x.name = w.name
  /\ w.kind = "response" => x.day = w.day /\ x.answer = w.answer
  /\ w.kind = "streak" => x.streak = w.streak

\* Marking or orphaning a write keeps what it writes.
LEMMA ContentKept ==
  ASSUME NEW w \in Write
  PROVE  /\ SameContent(w, w)
         /\ LET x == [w EXCEPT !.applied = TRUE]
            IN SameContent(x, w) /\ x.by = w.by /\ x.applied
         /\ LET x == [w EXCEPT !.by = None]
            IN SameContent(x, w) /\ x.by = None /\ x.applied = w.applied
  <1>1. CASE w \in ResponseWrite
    BY <1>1 DEF ResponseWrite, SameContent
  <1>2. CASE w \in StreakWrite
    BY <1>2 DEF StreakWrite, SameContent
  <1> QED BY <1>1, <1>2 DEF Write

\* The queues after a delivery.
LEMMA MarkedWrites ==
  ASSUME TypeOK, NEW d \in Devices, NEW m, Delivered(d, m)
  PROVE  \A e \in Devices, v \in Accounts : \A j \in 1..Len(outbox'[e][v]) :
           /\ j \in 1..Len(outbox[e][v])
           /\ SameContent(outbox'[e][v][j], outbox[e][v][j])
           /\ outbox'[e][v][j].by = outbox[e][v][j].by
           /\ outbox'[e][v][j].applied =>
                \/ outbox[e][v][j].applied
                \/ e = d /\ v = authUser[d] /\ j = m
  <1> TAKE e \in Devices, v \in Accounts
  <1> TAKE j \in 1..Len(outbox'[e][v])
  <1>1. /\ j \in 1..Len(outbox[e][v])
        /\ outbox'[e][v][j] =
             IF e = d /\ v = authUser[d] /\ j = m
             THEN [outbox[e][v][j] EXCEPT !.applied = TRUE]
             ELSE outbox[e][v][j]
    BY MarkPositions
  <1>2. outbox[e][v][j] \in Write
    BY <1>1, WriteInQueue
  <1> DEFINE w == outbox[e][v][j]
             x == [w EXCEPT !.applied = TRUE]
  <1>3. SameContent(w, w) /\ SameContent(x, w) /\ x.by = w.by
    BY <1>2, ContentKept
  <1> HIDE DEF x
  <1> QED BY <1>1, <1>3 DEF x

\* The queues after a crash.
LEMMA CrashedWrites ==
  ASSUME TypeOK, NEW d \in Devices, Crash(d)
  PROVE  \A e \in Devices, v \in Accounts : \A j \in 1..Len(outbox'[e][v]) :
           /\ j \in 1..Len(outbox[e][v])
           /\ SameContent(outbox'[e][v][j], outbox[e][v][j])
           /\ outbox'[e][v][j].applied = outbox[e][v][j].applied
           /\ outbox'[e][v][j].by = IF e = d THEN None
                                    ELSE outbox[e][v][j].by
  <1> TAKE e \in Devices, v \in Accounts
  <1> TAKE j \in 1..Len(outbox'[e][v])
  <1>1. /\ j \in 1..Len(outbox[e][v])
        /\ outbox'[e][v][j] =
             IF e = d THEN [outbox[e][v][j] EXCEPT !.by = None]
             ELSE outbox[e][v][j]
    BY CrashPositions
  <1>2. outbox[e][v][j] \in Write
    BY <1>1, WriteInQueue
  <1> DEFINE w == outbox[e][v][j]
             x == [w EXCEPT !.by = None]
  <1>3. /\ SameContent(w, w) /\ SameContent(x, w)
        /\ x.by = None /\ x.applied = w.applied
    BY <1>2, ContentKept
  <1> HIDE DEF x
  <1> QED BY <1>1, <1>3 DEF x

\* Links survive a step that keeps, or orphans, every write and its task.
LEMMA LinksKept ==
  ASSUME TypeOK, WritesAwaited, OneWriteEach,
         \A e \in Devices, v \in Accounts : \A j \in 1..Len(outbox'[e][v]) :
           /\ j \in 1..Len(outbox[e][v])
           /\ SameContent(outbox'[e][v][j], outbox[e][v][j])
           /\ outbox'[e][v][j].by \in SubmitSlots =>
                /\ outbox'[e][v][j].by = outbox[e][v][j].by
                /\ submit'[e] = submit[e]
  PROVE  (WritesAwaited /\ OneWriteEach)'
  <1>1. OneWriteEach'
    <2> SUFFICES
          \A e \in Devices, u, v \in Accounts :
            \A j \in 1..Len(outbox'[e][u]), k \in 1..Len(outbox'[e][v]) :
              (/\ outbox'[e][u][j].by \in SubmitSlots
               /\ outbox'[e][u][j].by = outbox'[e][v][k].by)
                => u = v /\ j = k
      BY DEF OneWriteEach
    <2> TAKE e \in Devices, u, v \in Accounts
    <2> TAKE j \in 1..Len(outbox'[e][u]), k \in 1..Len(outbox'[e][v])
    <2> HAVE /\ outbox'[e][u][j].by \in SubmitSlots
             /\ outbox'[e][u][j].by = outbox'[e][v][k].by
    <2>1. /\ j \in 1..Len(outbox[e][u]) /\ k \in 1..Len(outbox[e][v])
          /\ outbox'[e][u][j].by = outbox[e][u][j].by
          /\ outbox'[e][v][k].by = outbox[e][v][k].by
      OBVIOUS
    <2>2. /\ outbox[e][u][j].by \in SubmitSlots
          /\ outbox[e][u][j].by = outbox[e][v][k].by
      BY <2>1
    <2> QED BY <2>1, <2>2, OneWrite
  <1>2. WritesAwaited'
    <2> SUFFICES ASSUME NEW e \in Devices, NEW u \in Accounts,
                        NEW j \in 1..Len(outbox'[e][u]),
                        outbox'[e][u][j].by \in SubmitSlots
                 PROVE  Awaited(outbox[e][u][j],
                                submit[e][outbox[e][u][j].by])'
      BY Zenon DEF WritesAwaited
    <2>1. /\ j \in 1..Len(outbox[e][u])
          /\ SameContent(outbox'[e][u][j], outbox[e][u][j])
          /\ outbox'[e][u][j].by = outbox[e][u][j].by
          /\ submit'[e] = submit[e]
      OBVIOUS
    <2>2. Awaited(outbox[e][u][j], submit[e][outbox[e][u][j].by])
      BY <2>1 DEF WritesAwaited
    <2> QED BY <2>1, <2>2 DEF Awaited, SameContent
  <1> QED BY <1>1, <1>2

\* A delivery: responses may be replaced, never removed, and the one
\* delivered is on file.
LEMMA DeliveryMark ==
  ASSUME TypeOK, Delivery, NEW d \in Devices, NEW m, Delivered(d, m),
         UNCHANGED submit,
         \A p \in Players, k \in Days :
           responses[p][k] # None => responses'[p][k] # None,
         Queue(d)[m].kind = "response" =>
           responses'[Queue(d)[m].name][Queue(d)[m].day] # None
  PROVE  Delivery'
  <1>p. \A e \in Devices, v \in Accounts : \A j \in 1..Len(outbox'[e][v]) :
           /\ j \in 1..Len(outbox[e][v])
           /\ SameContent(outbox'[e][v][j], outbox[e][v][j])
           /\ outbox'[e][v][j].by = outbox[e][v][j].by
           /\ outbox'[e][v][j].applied =>
                \/ outbox[e][v][j].applied
                \/ e = d /\ v = authUser[d] /\ j = m
    BY MarkedWrites
  <1>1. (WritesAwaited /\ OneWriteEach)'
    BY <1>p, LinksKept DEF Delivery
  <1>2. AppliedOnFile'
    <2> SUFFICES ASSUME NEW e \in Devices, NEW v \in Accounts,
                        NEW j \in 1..Len(outbox'[e][v]),
                        outbox'[e][v][j].kind = "response",
                        outbox'[e][v][j].applied
                 PROVE  (responses[outbox[e][v][j].name][outbox[e][v][j].day]
                           # None)'
      BY Zenon DEF AppliedOnFile
    <2>1. /\ j \in 1..Len(outbox[e][v])
          /\ outbox[e][v][j].kind = "response"
          /\ outbox'[e][v][j].name = outbox[e][v][j].name
          /\ outbox'[e][v][j].day = outbox[e][v][j].day
          /\ \/ outbox[e][v][j].applied
             \/ e = d /\ v = authUser[d] /\ j = m
      BY <1>p DEF SameContent
    <2>2. outbox[e][v][j].name \in Players /\ outbox[e][v][j].day \in Days
      BY <2>1, WriteInQueue DEF Write, ResponseWrite, StreakWrite
    <2>3. CASE outbox[e][v][j].applied
      BY <2>1, <2>2, <2>3 DEF Delivery, AppliedOnFile
    <2>4. CASE e = d /\ v = authUser[d] /\ j = m
      BY <2>1, <2>4 DEF Queue
    <2> QED BY <2>1, <2>3, <2>4
  <1>3. AcknowledgedOnFile'
    <2> SUFFICES ASSUME NEW e \in Devices, NEW i \in SubmitSlots,
                        Acknowledged(submit[e][i])
                 PROVE  responses'[submit[e][i].name][submit[e][i].day]
                          # None
      BY DEF AcknowledgedOnFile
    <2>1. submit[e][i] \in SubmitTask
      BY DEF TypeOK
    <2>2. submit[e][i].name \in Players /\ submit[e][i].day \in Days
      BY <2>1 DEF SubmitTask, Acknowledged
    <2> QED BY <2>2 DEF Delivery, AcknowledgedOnFile
  <1> QED BY <1>1, <1>2, <1>3 DEF Delivery

\* A crash: the phone's writes stay, without their tasks.
LEMMA DeliveryCrash ==
  ASSUME TypeOK, Delivery, NEW d \in Devices, Crash(d)
  PROVE  Delivery'
  <1>p. \A e \in Devices, v \in Accounts : \A j \in 1..Len(outbox'[e][v]) :
          /\ j \in 1..Len(outbox[e][v])
          /\ SameContent(outbox'[e][v][j], outbox[e][v][j])
          /\ outbox'[e][v][j].applied = outbox[e][v][j].applied
          /\ outbox'[e][v][j].by = IF e = d THEN None
                                   ELSE outbox[e][v][j].by
    BY CrashedWrites
  <1>s. \A e \in Devices :
          submit'[e] = IF e = d THEN [i \in SubmitSlots |-> NoSubmit]
                       ELSE submit[e]
    BY DEF Crash, TypeOK
  <1>r. responses' = responses
    BY DEF Crash, cloud
  <1>1. (WritesAwaited /\ OneWriteEach)'
    <2>1. \A e \in Devices, v \in Accounts : \A j \in 1..Len(outbox'[e][v]) :
            /\ j \in 1..Len(outbox[e][v])
            /\ SameContent(outbox'[e][v][j], outbox[e][v][j])
            /\ outbox'[e][v][j].by \in SubmitSlots =>
                 /\ outbox'[e][v][j].by = outbox[e][v][j].by
                 /\ submit'[e] = submit[e]
      BY <1>p, <1>s, SlotsAssumption
    <2> QED BY <2>1, LinksKept DEF Delivery
  <1>2. AppliedOnFile'
    <2> SUFFICES ASSUME NEW e \in Devices, NEW v \in Accounts,
                        NEW j \in 1..Len(outbox'[e][v]),
                        outbox'[e][v][j].kind = "response",
                        outbox'[e][v][j].applied
                 PROVE  (responses[outbox[e][v][j].name][outbox[e][v][j].day]
                           # None)'
      BY Zenon DEF AppliedOnFile
    <2>1. /\ j \in 1..Len(outbox[e][v])
          /\ outbox[e][v][j].kind = "response"
          /\ outbox[e][v][j].applied
          /\ outbox'[e][v][j].name = outbox[e][v][j].name
          /\ outbox'[e][v][j].day = outbox[e][v][j].day
      BY <1>p DEF SameContent
    <2> QED BY <1>r, <2>1 DEF Delivery, AppliedOnFile
  <1>3. AcknowledgedOnFile'
    BY <1>s, <1>r DEF Delivery, AcknowledgedOnFile, Acknowledged, NoSubmit
  <1> QED BY <1>1, <1>2, <1>3 DEF Delivery

\* The oldest write of a queue in use.
LEMMA HeadPosition ==
  ASSUME TypeOK, NEW d \in Devices, Queue(d) # <<>>
  PROVE  /\ authUser[d] \in Accounts
         /\ 1 \in 1..Len(outbox[d][authUser[d]])
         /\ Head(Queue(d)) = outbox[d][authUser[d]][1]
  <1>1. Queue(d) \in Seq(Write)
    BY QueueType
  <1>2. Queue(d) = outbox[d][authUser[d]] /\ authUser[d] \in Accounts
    BY DEF Queue, TypeOK
  <1>3. 1 \in 1..Len(Queue(d)) /\ Head(Queue(d)) = Queue(d)[1]
    BY <1>1, HeadTailProperties
  <1> QED BY <1>2, <1>3

\* When a write leaves, only its own task hears of it: the writes that stay
\* belong to others.
LEMMA OthersHearNothing ==
  ASSUME TypeOK, OneWriteEach, NEW d \in Devices, NEW result,
         Leave(d, result),
         NEW e \in Devices, NEW v \in Accounts,
         NEW j \in 1..Len(outbox'[e][v]),
         outbox'[e][v][j].by \in SubmitSlots
  PROVE  submit'[e][outbox'[e][v][j].by] = submit[e][outbox'[e][v][j].by]
  <1> DEFINE k == IF e = d /\ v = authUser[d] THEN j + 1 ELSE j
             h == Head(Queue(d))
  <1>1. Pops(d)
    BY DEF Leave, Pops, Queue
  <1>2. k \in 1..Len(outbox[e][v]) /\ outbox'[e][v][j] = outbox[e][v][k]
    BY <1>1, PopPositions
  <1>3. /\ authUser[d] \in Accounts
        /\ 1 \in 1..Len(outbox[d][authUser[d]])
        /\ h = outbox[d][authUser[d]][1]
    BY <1>1, HeadPosition DEF Pops
  <1>4. submit' = IF h.by \in SubmitSlots
                  THEN [submit EXCEPT ![d][h.by].io = result] ELSE submit
    BY DEF Leave, Settle
  <1>5. j \in Nat /\ 1 <= j
    OBVIOUS
  <1>6. ~(e = d /\ outbox[e][v][k].by = h.by)
    <2> SUFFICES ASSUME e = d, outbox[e][v][k].by = h.by PROVE FALSE
      OBVIOUS
    <2> HIDE DEF k, h
    <2>1. authUser[d] = v /\ 1 = k
      BY <1>2, <1>3, OneWrite
    <2> QED BY <1>5, <2>1 DEF k
  <1> HIDE DEF k, h
  <1> QED BY <1>2, <1>4, <1>6 DEF TypeOK

\* An acknowledgement or a refusal.
LEMMA DeliveryPop ==
  ASSUME TypeOK, Delivery, NEW d \in Devices, NEW result,
         Leave(d, result), result = "done" => Head(Queue(d)).applied
  PROVE  Delivery'
  <1> DEFINE h == Head(Queue(d))
  <1>1. Pops(d) /\ responses' = responses
    BY DEF Leave, Pops, Queue, cloud
  <1>p. \A e \in Devices, v \in Accounts : \A j \in 1..Len(outbox'[e][v]) :
         LET k == IF e = d /\ v = authUser[d] THEN j + 1 ELSE j
         IN /\ k \in 1..Len(outbox[e][v])
            /\ outbox'[e][v][j] = outbox[e][v][k]
    BY <1>1, PopPositions
  <1>2. /\ authUser[d] \in Accounts
        /\ 1 \in 1..Len(outbox[d][authUser[d]])
        /\ h = outbox[d][authUser[d]][1]
    BY <1>1, HeadPosition DEF Pops
  <1>3. submit' = IF h.by \in SubmitSlots
                  THEN [submit EXCEPT ![d][h.by].io = result] ELSE submit
    BY DEF Leave, Settle
  <1>4. OneWriteEach'
    <2> SUFFICES
          \A e \in Devices, u, v \in Accounts :
            \A j \in 1..Len(outbox'[e][u]), k \in 1..Len(outbox'[e][v]) :
              (/\ outbox'[e][u][j].by \in SubmitSlots
               /\ outbox'[e][u][j].by = outbox'[e][v][k].by)
                => u = v /\ j = k
      BY DEF OneWriteEach
    <2> TAKE e \in Devices, u, v \in Accounts
    <2> TAKE j \in 1..Len(outbox'[e][u]), k \in 1..Len(outbox'[e][v])
    <2> HAVE /\ outbox'[e][u][j].by \in SubmitSlots
             /\ outbox'[e][u][j].by = outbox'[e][v][k].by
    <2> DEFINE J == IF e = d /\ u = authUser[d] THEN j + 1 ELSE j
               K == IF e = d /\ v = authUser[d] THEN k + 1 ELSE k
    <2>1. J \in 1..Len(outbox[e][u]) /\ outbox'[e][u][j] = outbox[e][u][J]
      BY <1>p
    <2>2. K \in 1..Len(outbox[e][v]) /\ outbox'[e][v][k] = outbox[e][v][K]
      BY <1>p
    <2> HIDE DEF J, K
    <2>3. u = v /\ J = K
      BY <2>1, <2>2, OneWrite DEF Delivery
    <2> QED BY <2>3 DEF J, K
  <1>5. WritesAwaited'
    <2> SUFFICES ASSUME NEW e \in Devices, NEW v \in Accounts,
                        NEW j \in 1..Len(outbox'[e][v]),
                        outbox'[e][v][j].by \in SubmitSlots
                 PROVE  Awaited(outbox[e][v][j],
                                submit[e][outbox[e][v][j].by])'
      BY Zenon DEF WritesAwaited
    <2>1. PICK k \in 1..Len(outbox[e][v]) :
            outbox'[e][v][j] = outbox[e][v][k]
      BY <1>p
    <2>2. submit'[e][outbox[e][v][k].by] = submit[e][outbox[e][v][k].by]
      <3>1. OneWriteEach
        BY DEF Delivery
      <3>2. submit'[e][outbox'[e][v][j].by] = submit[e][outbox'[e][v][j].by]
        BY <3>1, OthersHearNothing
      <3> QED BY <2>1, <3>2
    <2>3. Awaited(outbox[e][v][k], submit[e][outbox[e][v][k].by])
      BY <2>1 DEF Delivery, WritesAwaited
    <2> QED BY <2>1, <2>2, <2>3 DEF Awaited
  <1>6. AppliedOnFile'
    <2>1. \A e \in Devices, v \in Accounts : \A j \in 1..Len(outbox'[e][v]) :
            \/ \E k \in 1..Len(outbox[e][v]) :
                 outbox'[e][v][j] = outbox[e][v][k]
            \/ ~outbox'[e][v][j].applied
      BY <1>p
    <2> QED BY <1>1, <2>1, OnFileFrame DEF Delivery
  <1>7. AcknowledgedOnFile'
    <2> SUFFICES ASSUME NEW e \in Devices, NEW i \in SubmitSlots,
                        Acknowledged(submit'[e][i])
                 PROVE  responses[submit'[e][i].name][submit'[e][i].day]
                          # None
      BY <1>1, Zenon DEF AcknowledgedOnFile, Acknowledged
    <2> DEFINE t == submit[e][i]
    <2>0. t \in SubmitTask
      BY DEF TypeOK
    <2>1. CASE submit'[e][i] = t
      BY <2>1 DEF Delivery, AcknowledgedOnFile
    <2>2. CASE submit'[e][i] # t
      <3>1. e = d /\ i = h.by /\ submit'[e][i] = [t EXCEPT !.io = result]
        <4> HIDE DEF h
        <4> QED BY <1>3, <2>2 DEF TypeOK
      <3>2. Awaited(h, t)
        BY <1>2, <3>1 DEF Delivery, WritesAwaited
      <3>3. h.kind \in {"response", "streak"}
        BY <1>2, WriteInQueue
      <3>4. /\ submit'[e][i].pc = t.pc /\ submit'[e][i].io = result
            /\ submit'[e][i].name = t.name /\ submit'[e][i].day = t.day
        BY <2>0, <3>1 DEF SubmitTask
      <3>5. CASE t.pc \in {"hop", "streak", "back"}
        BY <3>4, <3>5 DEF Delivery, AcknowledgedOnFile, Acknowledged
      <3>6. CASE t.pc = "response" /\ result = "done"
        <4>1. h.kind = "response" /\ h.applied
          BY <3>2, <3>3, <3>6 DEF Awaited
        <4>2. responses[h.name][h.day] # None
          BY <1>2, <4>1 DEF Delivery, AppliedOnFile
        <4> QED BY <3>2, <3>4, <4>1, <4>2 DEF Awaited
      <3> QED BY <3>4, <3>5, <3>6 DEF Acknowledged
    <2> QED BY <2>1, <2>2
  <1> QED BY <1>4, <1>5, <1>6, <1>7 DEF Delivery

-----------------------------------------------------------------------------
(* Every action keeps Delivery. *)

\* One submission moves, the others stay.
LEMMA OneTaskMoves ==
  ASSUME TypeOK, NEW d \in Devices, NEW i \in SubmitSlots, NEW v,
         submit' = [submit EXCEPT ![d][i] = v], Moves(submit[d][i], v)
  PROVE  TasksMove
  <1>1. \A e \in Devices, k \in SubmitSlots :
          submit'[e][k] = IF e = d /\ k = i THEN v ELSE submit[e][k]
    BY DEF TypeOK
  <1>2. \A t : Moves(t, t)
    BY DEF Moves
  <1> QED BY <1>1, <1>2 DEF TasksMove

\* No submission moves.
LEMMA TasksStay ==
  ASSUME UNCHANGED submit
  PROVE  TasksMove
  BY DEF TasksMove, Moves

\* The steps that leave queues, responses and submissions alone.
LEMMA QuietDelivery ==
  ASSUME TypeOK, Delivery, UNCHANGED <<outbox, responses, submit>>
  PROVE  Delivery'
  BY TasksStay, DeliveryFrame

\* Logging out detaches the submissions from their view, and that is all.
LEMMA LogoutMoves ==
  ASSUME TypeOK, NEW d \in Devices, Logout(d)
  PROVE  TasksMove
  <1> SUFFICES ASSUME NEW e \in Devices, NEW i \in SubmitSlots
               PROVE  Moves(submit[e][i], submit'[e][i])
    BY DEF TasksMove
  <1>1. submit'[e][i] \in {submit[e][i],
                           [submit[e][i] EXCEPT !.live = FALSE]}
    BY DEF Logout, TypeOK
  <1>2. submit[e][i] \in SubmitTask
    BY DEF TypeOK
  <1> QED BY <1>1, <1>2 DEF Moves, Acknowledged, SubmitTask

\* The steps of a submission between two awaits that send nothing.
LEMMA SubmissionMoves ==
  ASSUME TypeOK, NEW d \in Devices, NEW i \in SubmitSlots,
         \/ \E a \in Texts : TapSubmit(d, i, a)
         \/ AnswerReply(d, i)
         \/ StreakSaved(d, i)
         \/ SubmitReturns(d, i)
  PROVE  TasksMove /\ UNCHANGED <<outbox, responses>>
  <1> DEFINE t == submit[d][i]
  <1>0. t \in SubmitTask
    BY DEF TypeOK
  <1>1. UNCHANGED <<outbox, responses>>
    BY DEF TapSubmit, AnswerReply, StreakSaved, SubmitReturns, cloud
  <1>2. CASE \E a \in Texts : TapSubmit(d, i, a)
    <2> DEFINE v == [NoSubmit EXCEPT !.pc = "queued", !.live = TRUE]
    <2>1. Moves(t, v)
      BY <1>2 DEF TapSubmit, Moves, Awaiting, Acknowledged, NoSubmit
    <2>2. submit' = [submit EXCEPT ![d][i] = v]
      BY <1>2 DEF TapSubmit
    <2> HIDE DEF v
    <2> QED BY <1>1, <2>1, <2>2, OneTaskMoves
  <1>3. CASE AnswerReply(d, i)
    <2>1. t.pc = "response"
      BY <1>3 DEF AnswerReply
    <2>2. CASE t.io = "failed"
      <3>1. submit' = [submit EXCEPT ![d][i] = NoSubmit]
        BY <1>3, <2>2 DEF AnswerReply, Succeeded
      <3>2. Moves(t, NoSubmit)
        BY <2>2 DEF Moves, Awaiting, Acknowledged, NoSubmit
      <3> QED BY <1>1, <3>1, <3>2, OneTaskMoves
    <2>3. CASE t.io = "done"
      <3> DEFINE n == NewStreak(user[d], t.answer.answerOutcome)
                 v == [t EXCEPT !.pc = "hop", !.io = "none", !.streak = n]
      <3>1. submit' = [submit EXCEPT ![d][i] = v]
        BY <1>3, <2>3 DEF AnswerReply
      <3> HIDE DEF n
      <3>2. Moves(t, v)
        BY <1>0, <2>1, <2>3 DEF Moves, Awaiting, Acknowledged, SubmitTask
      <3> HIDE DEF v
      <3> QED BY <1>1, <3>1, <3>2, OneTaskMoves
    <2>4. t.io = "done" \/ t.io = "failed"
      <3>1. Succeeded(t.io) \/ t.io = "failed"
        BY <1>3 DEF AnswerReply
      <3> QED BY <3>1 DEF Succeeded
    <2> QED BY <2>2, <2>3, <2>4
  <1>4. CASE StreakSaved(d, i)
    <2> DEFINE v == [t EXCEPT !.pc = "back", !.io = "none", !.streak = 0]
    <2>1. Moves(t, v)
      BY <1>0, <1>4 DEF StreakSaved, Arrived, Moves, Awaiting, Acknowledged,
                        SubmitTask
    <2>2. submit' = [submit EXCEPT ![d][i] = v]
      BY <1>4 DEF StreakSaved
    <2> HIDE DEF v
    <2> QED BY <1>1, <2>1, <2>2, OneTaskMoves
  <1>5. CASE SubmitReturns(d, i)
    <2>1. Moves(t, NoSubmit)
      BY <1>5 DEF SubmitReturns, Moves, Awaiting, Acknowledged, NoSubmit
    <2>2. submit' = [submit EXCEPT ![d][i] = NoSubmit]
      BY <1>5 DEF SubmitReturns
    <2> QED BY <1>1, <2>1, <2>2, OneTaskMoves
  <1> QED BY <1>2, <1>3, <1>4, <1>5

\* A submission sends its answer, or returns at once.
LEMMA SubmitAnswerSends ==
  ASSUME TypeOK, NEW d \in Devices, NEW i \in SubmitSlots, SubmitAnswer(d, i)
  PROVE  /\ TasksMove
         /\ UNCHANGED responses
         /\ \/ UNCHANGED outbox
            \/ \E w \in Write :
                 /\ Pushes(d, w)
                 /\ w.kind = "response" /\ w.by = i /\ ~w.applied
                 /\ ~Awaiting(submit[d][i])
                 /\ Awaited(w, submit'[d][i])
  <1> DEFINE t == submit[d][i]
             q == game[d].currentQuestion
             answer == Answer(q, game[d].answerText)
             w == [kind |-> "response", name |-> user[d].username,
                   day |-> today[d], answer |-> answer, by |-> i,
                   applied |-> FALSE]
             v == [t EXCEPT !.pc = "response", !.io = "sent",
                            !.answer = answer, !.name = user[d].username,
                            !.day = today[d]]
             sends == q # None /\ HasName(user[d])
  <1>1. /\ t \in SubmitTask
        /\ game[d] \in Game
        /\ user[d] \in User
        /\ today[d] \in Days
    BY DEF TypeOK
  <1>2. t.pc = "queued" /\ responses' = responses
    BY DEF SubmitAnswer, cloud
  <1>3. sends => answer \in SubmittedAnswer
    BY <1>1, AnswerType DEF Game
  <1>4. \/ /\ sends
           /\ submit' = [submit EXCEPT ![d][i] = v]
           /\ Pushes(d, w)
        \/ submit' = [submit EXCEPT ![d][i] = NoSubmit] /\ outbox' = outbox
    BY Zenon DEF SubmitAnswer, SendResponse, SetData, Queue, Pushes
  <1> HIDE DEF answer
  <1>5. /\ sends => w \in Write
        /\ w.kind = "response" /\ w.by = i /\ ~w.applied
    BY <1>1, <1>3 DEF Write, ResponseWrite, User, HasName
  <1>6. ~Awaiting(t) /\ Moves(t, NoSubmit) /\ Moves(t, v) /\ Awaited(w, v)
    BY <1>1, <1>2 DEF Awaiting, Moves, Acknowledged, NoSubmit, Awaited,
                      SubmitTask
  <1> HIDE DEF v, w, sends
  <1>7. TasksMove
    BY <1>4, <1>6, OneTaskMoves
  <1>8. submit' = [submit EXCEPT ![d][i] = v] => submit'[d][i] = v
    BY DEF TypeOK
  <1> QED BY <1>2, <1>4, <1>5, <1>6, <1>7, <1>8

\* A submission sends the streak, or goes back at once for want of a name.
LEMMA UpdateStreakSends ==
  ASSUME TypeOK, NEW d \in Devices, NEW i \in SubmitSlots,
         UpdateCurrentUsersStreak(d, i)
  PROVE  /\ TasksMove
         /\ UNCHANGED responses
         /\ \/ UNCHANGED outbox
            \/ \E w \in Write :
                 /\ Pushes(d, w)
                 /\ w.kind = "streak" /\ w.by = i /\ ~w.applied
                 /\ w.streak = submit[d][i].streak
                 /\ ~Awaiting(submit[d][i])
                 /\ Awaited(w, submit'[d][i])
  <1> DEFINE t == submit[d][i]
             w == [kind |-> "streak", name |-> user[d].username,
                   streak |-> t.streak, by |-> i, applied |-> FALSE]
             v == [t EXCEPT !.pc = "streak", !.io = "sent"]
             x == [t EXCEPT !.pc = "back", !.streak = 0]
  <1>1. t \in SubmitTask /\ user[d] \in User
    BY DEF TypeOK
  <1>2. t.pc = "hop" /\ responses' = responses
    BY DEF UpdateCurrentUsersStreak, cloud
  <1>4. \/ /\ HasName(user[d])
           /\ submit' = [submit EXCEPT ![d][i] = v]
           /\ Pushes(d, w)
        \/ submit' = [submit EXCEPT ![d][i] = x] /\ outbox' = outbox
    BY Zenon DEF UpdateCurrentUsersStreak, SendStreak, SetData, Queue, Pushes
  <1>5. /\ HasName(user[d]) => w \in Write
        /\ w.kind = "streak" /\ w.by = i /\ ~w.applied
        /\ w.streak = t.streak
    BY <1>1 DEF Write, StreakWrite, User, HasName, SubmitTask
  <1>6. ~Awaiting(t) /\ Moves(t, x) /\ Moves(t, v) /\ Awaited(w, v)
    BY <1>1, <1>2 DEF Awaiting, Moves, Acknowledged, Awaited, SubmitTask
  <1> HIDE DEF v, w, x
  <1>7. TasksMove
    BY <1>4, <1>6, OneTaskMoves
  <1>8. submit' = [submit EXCEPT ![d][i] = v] => submit'[d][i] = v
    BY DEF TypeOK
  <1> QED BY <1>2, <1>4, <1>5, <1>6, <1>7, <1>8

\* A sign-in of a player without a streak sends 0.
LEMMA StreakReplySends ==
  ASSUME TypeOK, NEW d \in Devices, NEW i \in LoginSlots, StreakReply(d, i)
  PROVE  /\ UNCHANGED <<responses, submit>>
         /\ \/ UNCHANGED outbox
            \/ \E w \in Write :
                 /\ Pushes(d, w)
                 /\ w.kind = "streak" /\ w.by = i /\ ~w.applied
                 /\ w.streak = 0
  <1> DEFINE w == [kind |-> "streak", name |-> user[d].username,
                   streak |-> 0, by |-> i, applied |-> FALSE]
  <1>1. user[d] \in User
    BY DEF TypeOK
  <1>2. UNCHANGED <<responses, submit>>
    BY DEF StreakReply, cloud
  <1>3. \/ HasName(user[d]) /\ Pushes(d, w)
        \/ outbox' = outbox
    BY Zenon DEF StreakReply, SendStreak, SetData, Queue, Pushes
  <1>4. /\ HasName(user[d]) => w \in Write
        /\ w.kind = "streak" /\ w.by = i /\ ~w.applied /\ w.streak = 0
    BY <1>1 DEF Write, StreakWrite, User, HasName
  <1> HIDE DEF w
  <1> QED BY <1>2, <1>3, <1>4

\* A delivery files its response, or leaves the responses alone.
LEMMA ApplyDelivery ==
  ASSUME TypeOK, Delivery, NEW d \in Devices, Apply(d)
  PROVE  Delivery'
  <1>1. PICK j \in 1..Len(Queue(d)) : ApplyResponse(d, j) \/ ApplyStreak(d, j)
    BY DEF Apply
  <1> DEFINE w == Queue(d)[j]
  <1>2. Delivered(d, j) /\ submit' = submit
    BY <1>1 DEF ApplyResponse, ApplyStreak, tasks
  <1>3. CASE ApplyStreak(d, j)
    <2>1. w.kind = "streak" /\ responses' = responses
      BY <1>3 DEF ApplyStreak
    <2> QED BY <1>2, <2>1, DeliveryMark
  <1>4. CASE ApplyResponse(d, j)
    <2>1. /\ w.kind = "response"
          /\ responses' = [responses EXCEPT ![w.name][w.day] = w.answer]
      BY <1>4 DEF ApplyResponse
    <2>2. w \in Write
      BY QueueType
    <2>3. /\ w.name \in Players /\ w.day \in Days
          /\ w.answer \in SubmittedAnswer
      BY <2>1, <2>2 DEF Write, ResponseWrite, StreakWrite
    <2> HIDE DEF w
    <2>4. \A p \in Players, k \in Days :
            responses'[p][k] = IF p = w.name /\ k = w.day THEN w.answer
                               ELSE responses[p][k]
      BY <2>1 DEF TypeOK
    <2>5. \A p \in Players, k \in Days :
            responses[p][k] # None => responses'[p][k] # None
      BY <2>3, <2>4, NoneAssumption
    <2>6. responses'[w.name][w.day] # None
      BY <2>3, <2>4, NoneAssumption
    <2> QED BY <1>2, <2>5, <2>6, DeliveryMark DEF w
  <1> QED BY <1>1, <1>3, <1>4

\* Every step keeps Delivery.
LEMMA NextDelivery == TypeOK /\ Delivery /\ [Next]_vars => Delivery'
  <1> SUFFICES ASSUME TypeOK, Delivery, [Next]_vars PROVE Delivery'
    OBVIOUS
  <1>1. CASE UNCHANGED vars
    BY <1>1, QuietDelivery DEF vars
  <1>2. CASE Next
    <2>1. PICK d \in Devices :
            \/ Midnight(d) \/ Apply(d) \/ Acknowledge(d) \/ Reject(d)
            \/ Crash(d) \/ Logout(d)
            \/ \E i \in LoginSlots :
                 \/ Appear(d, i)
                 \/ \E p \in Players, button \in Buttons :
                      TapSignIn(d, i, p, button)
                 \/ LoginStep(d, i)
            \/ \E i \in LoadSlots :
                 OpenGame(d, i) \/ Reappear(d, i) \/ LoadStep(d, i)
            \/ \E i \in SubmitSlots :
                 (\E a \in Texts : TapSubmit(d, i, a)) \/ SubmitStep(d, i)
      BY <1>2, Zenon DEF Next
    <2>2. CASE Midnight(d)
      BY <2>2, QuietDelivery DEF Midnight, cloud, tasks
    <2>3. CASE Apply(d) \/ Crash(d)
      BY <2>3, ApplyDelivery, DeliveryCrash
    <2>4. CASE Acknowledge(d) \/ Reject(d)
      BY <2>4, DeliveryPop DEF Acknowledge, Reject
    <2>5. CASE Logout(d)
      BY <2>5, LogoutMoves, DeliveryFrame DEF Logout, cloud
    <2>6. ASSUME NEW i \in LoginSlots,
                 \/ Appear(d, i)
                 \/ \E p \in Players, button \in Buttons :
                      TapSignIn(d, i, p, button)
                 \/ LoginStep(d, i)
          PROVE  Delivery'
      <3>1. CASE ~StreakReply(d, i)
        BY <2>6, <3>1, QuietDelivery
           DEF Appear, TapSignIn, LoginStep, ServeSignIn, ServeLogin, GetReply,
               Enter, NameReply, FetchUserStreak, StreakCreated, cloud
      <3>2. CASE StreakReply(d, i)
        <4>1. CASE UNCHANGED outbox
          BY <3>2, <4>1, StreakReplySends, QuietDelivery
        <4>2. CASE outbox' # outbox
          <5>1. PICK w \in Write : Pushes(d, w) /\ w.by = i /\ ~w.applied
            BY <3>2, <4>2, StreakReplySends
          <5>2. w.by \notin SubmitSlots
            BY <5>1, SlotsAssumption
          <5>3. TasksMove /\ responses' = responses
            BY <3>2, StreakReplySends, TasksStay
          <5> QED BY <5>1, <5>2, <5>3, DeliveryPush
        <4> QED BY <4>1, <4>2
      <3> QED BY <3>1, <3>2
    <2>7. ASSUME NEW i \in LoadSlots,
                 OpenGame(d, i) \/ Reappear(d, i) \/ LoadStep(d, i)
          PROVE  Delivery'
      BY <2>7, QuietDelivery
         DEF OpenGame, Reappear, LoadStep, ServeLoad, QuestionReply,
             Unchecked, ResponseReply, FinishLoad, ResponseFailed, cloud
    <2>8. ASSUME NEW i \in SubmitSlots,
                 (\E a \in Texts : TapSubmit(d, i, a)) \/ SubmitStep(d, i)
          PROVE  Delivery'
      <3>1. CASE SubmitAnswer(d, i) \/ UpdateCurrentUsersStreak(d, i)
        <4>1. TasksMove /\ UNCHANGED responses
          BY <3>1, SubmitAnswerSends, UpdateStreakSends
        <4>2. CASE UNCHANGED outbox
          BY <4>1, <4>2, DeliveryFrame
        <4>3. CASE outbox' # outbox
          <5>1. PICK w \in Write :
                  /\ Pushes(d, w) /\ w.by = i /\ ~w.applied
                  /\ ~Awaiting(submit[d][i]) /\ Awaited(w, submit'[d][i])
            BY <3>1, <4>3, SubmitAnswerSends, UpdateStreakSends
          <5> QED BY <4>1, <5>1, DeliveryPush
        <4> QED BY <4>2, <4>3
      <3>2. CASE ~(SubmitAnswer(d, i) \/ UpdateCurrentUsersStreak(d, i))
        BY <2>8, <3>2, SubmissionMoves, DeliveryFrame DEF SubmitStep
      <3> QED BY <3>1, <3>2
    <2> QED BY <2>1, <2>2, <2>3, <2>4, <2>5, <2>6, <2>7, <2>8
  <1> QED BY <1>1, <1>2

\* Delivery always holds.
LEMMA DeliveryCorrect == Spec => []Delivery
  <1>1. Init => Delivery
    BY DEF Init, Delivery, WritesAwaited, OneWriteEach, AppliedOnFile,
           AcknowledgedOnFile, Acknowledged, NoSubmit
  <1>2. TypeOK /\ Delivery /\ [Next]_vars => Delivery'
    BY NextDelivery
  <1> QED BY <1>1, <1>2, TypeCorrect, PTL DEF Spec

\* A submission that has gone on to the streak has its answer on file, however
\* writes are refused, lost, parked for another account or sent again, and
\* whatever other phones and tasks do.
THEOREM AnswerFirst == Spec => []AnswerBeforeStreak
  <1>1. Delivery => AnswerBeforeStreak
    BY DEF Delivery, AcknowledgedOnFile, Acknowledged, AnswerBeforeStreak
  <1> QED BY <1>1, DeliveryCorrect, PTL

-----------------------------------------------------------------------------
(* How many answers are owed a streak. *)

\* No submission comes to be owed a streak: streaks stay covered.
LEMMA CoverageKept ==
  ASSUME TypeOK, TypeOK', IsFiniteSet(Uncredited), stored <= stored',
         \A d \in Devices, i \in SubmitSlots : Owed(d, i)' => Owed(d, i)
  PROVE  IsFiniteSet(Uncredited)' /\ Covered \subseteq Covered'
  <1>1. Uncredited' \in SUBSET Uncredited
    BY DEF Uncredited
  <1>2. IsFiniteSet(Uncredited') /\ Cardinality(Uncredited') \in Nat
    BY <1>1, FS_Subset, FS_CardinalityType
  <1>3. /\ Cardinality(Uncredited') <= Cardinality(Uncredited)
        /\ Cardinality(Uncredited) \in Nat
    BY <1>1, FS_Subset, FS_CardinalityType
  <1>4. stored \in Nat /\ stored' \in Nat
    BY DEF TypeOK
  <1> QED BY <1>2, <1>3, <1>4 DEF Covered

\* A correct answer is stored and its submission comes to be owed a streak.
LEMMA CoverageAdded ==
  ASSUME TypeOK, IsFiniteSet(Uncredited), stored' = stored + 1,
         NEW d \in Devices, NEW i \in SubmitSlots,
         \A e \in Devices, k \in SubmitSlots :
           Owed(e, k)' => Owed(e, k) \/ (e = d /\ k = i)
  PROVE  IsFiniteSet(Uncredited)' /\ Covered \subseteq Covered'
  <1> DEFINE S == Uncredited \cup {<<d, i>>}
  <1>1. Uncredited' \in SUBSET S
    BY DEF Uncredited
  <1>2. /\ IsFiniteSet(S)
        /\ Cardinality(S) \in {Cardinality(Uncredited),
                               Cardinality(Uncredited) + 1}
        /\ Cardinality(Uncredited) \in Nat
    BY FS_AddElement, FS_CardinalityType
  <1> HIDE DEF S
  <1>3. /\ IsFiniteSet(Uncredited')
        /\ Cardinality(Uncredited') <= Cardinality(S)
        /\ Cardinality(Uncredited') \in Nat
    BY <1>1, <1>2, FS_Subset, FS_CardinalityType
  <1>4. stored \in Nat
    BY DEF TypeOK
  <1> QED BY <1>2, <1>3, <1>4 DEF Covered

\* A submission that was owed a streak gets it: there is room for 1 more.
LEMMA CoverageSpent ==
  ASSUME TypeOK, IsFiniteSet(Uncredited), UNCHANGED stored,
         NEW d \in Devices, NEW i \in SubmitSlots, Owed(d, i), ~Owed(d, i)',
         \A e \in Devices, k \in SubmitSlots : Owed(e, k)' => Owed(e, k)
  PROVE  \A n \in Covered : n + 1 \in Covered'
  <1> DEFINE S == Uncredited \ {<<d, i>>}
  <1>1. Uncredited' \in SUBSET S
    BY DEF Uncredited
  <1>2. <<d, i>> \in Uncredited
    BY DEF Uncredited
  <1>3. /\ IsFiniteSet(S)
        /\ Cardinality(S) = Cardinality(Uncredited) - 1
        /\ Cardinality(Uncredited) \in Nat
    BY <1>2, FS_RemoveElement, FS_CardinalityType
  <1> HIDE DEF S
  <1>4. /\ Cardinality(Uncredited') <= Cardinality(S)
        /\ Cardinality(Uncredited') \in Nat
    BY <1>1, <1>3, FS_Subset, FS_CardinalityType
  <1>5. stored \in Nat
    BY DEF TypeOK
  <1> QED BY <1>3, <1>4, <1>5 DEF Covered

\* A move of submissions makes none of them owed a streak.
LEMMA OwedFrame ==
  ASSUME TypeOK, Delivery, TasksMove, NEW d \in Devices, NEW i \in SubmitSlots,
         Owed(d, i)', Delivering(d, i)' => Delivering(d, i)
  PROVE  Owed(d, i)
  <1> DEFINE t == submit[d][i]
             v == submit'[d][i]
  <1>1. Moves(t, v)
    BY DEF TasksMove
  <1>2. /\ v.pc = "response" /\ v.answer.answerOutcome
        /\ v.io = "done" \/ (v.io = "sent" /\ Delivering(d, i)')
    BY DEF Owed
  <1>3. CASE v.io = "done"
    BY <1>1, <1>2, <1>3 DEF Moves, Owed
  <1>4. CASE v.io = "sent" /\ Delivering(d, i)
    <2>1. PICK u \in Accounts : \E j \in 1..Len(outbox[d][u]) :
            outbox[d][u][j].by = i
      BY <1>4 DEF Delivering
    <2>2. PICK j \in 1..Len(outbox[d][u]) : outbox[d][u][j].by = i
      BY <2>1
    <2>3. Awaited(outbox[d][u][j], t)
      BY <2>2 DEF Delivery, WritesAwaited
    <2>4. outbox[d][u][j].kind \in {"response", "streak"}
      BY WriteInQueue
    <2>5. Awaiting(t)
      BY <2>3, <2>4 DEF Awaited, Awaiting
    <2> QED BY <1>1, <1>2, <1>4, <2>5 DEF Moves, Owed
  <1> QED BY <1>2, <1>3, <1>4

\* A new write that is not applied delivers nothing.
LEMMA PushDelivers ==
  ASSUME TypeOK, NEW d \in Devices, NEW w \in Write, Pushes(d, w), ~w.applied,
         NEW e \in Devices, NEW i, Delivering(e, i)'
  PROVE  Delivering(e, i)
  <1>1. PICK u \in Accounts : \E j \in 1..Len(outbox'[e][u]) :
          outbox'[e][u][j].by = i /\ outbox'[e][u][j].applied
    BY DEF Delivering
  <1>2. PICK j \in 1..Len(outbox'[e][u]) :
          outbox'[e][u][j].by = i /\ outbox'[e][u][j].applied
    BY <1>1
  <1>3. \/ /\ j \in 1..Len(outbox[e][u])
           /\ outbox'[e][u][j] = outbox[e][u][j]
        \/ outbox'[e][u][j] = w
    BY PushPositions
  <1> QED BY <1>2, <1>3 DEF Delivering

\* A write that leaves makes nothing owed: the task it wakes had been
\* delivered before.
LEMMA OwedPop ==
  ASSUME TypeOK, Delivery, NEW d \in Devices, NEW result,
         Leave(d, result), result = "done" => Head(Queue(d)).applied,
         result \in {"done", "failed"},
         NEW e \in Devices, NEW i \in SubmitSlots, Owed(e, i)'
  PROVE  Owed(e, i)
  <1> DEFINE h == Head(Queue(d))
             t == submit[e][i]
             v == submit'[e][i]
  <1>0. t \in SubmitTask
    BY DEF TypeOK
  <1>1. Pops(d)
    BY DEF Leave, Pops, Queue
  <1>2. /\ authUser[d] \in Accounts
        /\ 1 \in 1..Len(outbox[d][authUser[d]])
        /\ h = outbox[d][authUser[d]][1]
    BY <1>1, HeadPosition DEF Pops
  <1>3. submit' = IF h.by \in SubmitSlots
                  THEN [submit EXCEPT ![d][h.by].io = result] ELSE submit
    BY DEF Leave, Settle
  <1>4. /\ v.pc = "response" /\ v.answer.answerOutcome
        /\ v.io = "done" \/ (v.io = "sent" /\ Delivering(e, i)')
    BY DEF Owed
  <1>5. Delivering(e, i)' => Delivering(e, i)
    <2> SUFFICES ASSUME Delivering(e, i)' PROVE Delivering(e, i)
      OBVIOUS
    <2>1. PICK u \in Accounts : \E j \in 1..Len(outbox'[e][u]) :
            outbox'[e][u][j].by = i /\ outbox'[e][u][j].applied
      BY DEF Delivering
    <2>2. PICK j \in 1..Len(outbox'[e][u]) :
            outbox'[e][u][j].by = i /\ outbox'[e][u][j].applied
      BY <2>1
    <2>3. \E k \in 1..Len(outbox[e][u]) : outbox'[e][u][j] = outbox[e][u][k]
      BY <1>1, PopPositions
    <2> QED BY <2>2, <2>3 DEF Delivering
  <1>6. CASE v = t
    BY <1>4, <1>5, <1>6 DEF Owed
  <1>7. CASE v # t
    <2>1. e = d /\ i = h.by /\ v = [t EXCEPT !.io = result]
      <3> HIDE DEF h
      <3> QED BY <1>3, <1>7 DEF TypeOK
    <2>2. v.pc = t.pc /\ v.io = result /\ v.answer = t.answer
      BY <1>0, <2>1 DEF SubmitTask
    <2>3. t.io = "sent"
      BY <1>2, <2>1 DEF Delivery, WritesAwaited, Awaited
    <2>4. h.applied
      BY <1>4, <2>2
    <2>5. Delivering(e, i)
      BY <1>2, <2>1, <2>4 DEF Delivering
    <2> QED BY <1>4, <2>2, <2>3, <2>5 DEF Owed
  <1> QED BY <1>6, <1>7

\* A crash makes nothing owed.
LEMMA OwedCrash ==
  ASSUME TypeOK, NEW d \in Devices, Crash(d),
         NEW e \in Devices, NEW i \in SubmitSlots, Owed(e, i)'
  PROVE  Owed(e, i)
  <1>1. submit'[e] = IF e = d THEN [k \in SubmitSlots |-> NoSubmit]
                     ELSE submit[e]
    BY DEF Crash, TypeOK
  <1>2. e # d
    BY <1>1 DEF Owed, NoSubmit
  <1>3. outbox'[e] = outbox[e]
    BY <1>2 DEF Crash, TypeOK
  <1> QED BY <1>1, <1>2, <1>3 DEF Owed, Delivering

\* A delivery makes at most the submission of the write delivered owed a
\* streak, and only if that write is a correct response delivered for the
\* first time.
LEMMA OwedMark ==
  ASSUME TypeOK, Delivery, NEW d \in Devices, NEW m, Delivered(d, m),
         UNCHANGED submit,
         NEW e \in Devices, NEW i \in SubmitSlots, Owed(e, i)'
  PROVE  LET w == Queue(d)[m] IN
         \/ Owed(e, i)
         \/ /\ e = d /\ i = w.by
            /\ w.kind = "response" /\ w.answer.answerOutcome /\ ~w.applied
  <1> DEFINE w == Queue(d)[m]
             t == submit[e][i]
  <1> SUFFICES ASSUME ~Owed(e, i)
               PROVE  /\ e = d /\ i = w.by
                      /\ w.kind = "response" /\ w.answer.answerOutcome
                      /\ ~w.applied
    BY Zenon
  <1>1. /\ t.pc = "response" /\ t.answer.answerOutcome
        /\ t.io = "sent" /\ Delivering(e, i)' /\ ~Delivering(e, i)
    BY DEF Owed
  <1>2. PICK u \in Accounts : \E j \in 1..Len(outbox'[e][u]) :
          outbox'[e][u][j].by = i /\ outbox'[e][u][j].applied
    BY <1>1 DEF Delivering
  <1>3. PICK j \in 1..Len(outbox'[e][u]) :
          outbox'[e][u][j].by = i /\ outbox'[e][u][j].applied
    BY <1>2
  <1>4. /\ j \in 1..Len(outbox[e][u])
        /\ outbox[e][u][j].by = i
        /\ \/ outbox[e][u][j].applied
           \/ e = d /\ u = authUser[d] /\ j = m
    BY <1>3, MarkedWrites
  <1>5. ~outbox[e][u][j].applied
    BY <1>1, <1>4 DEF Delivering
  <1>6. e = d /\ outbox[e][u][j] = w
    BY <1>4, <1>5 DEF Queue
  <1>7. Awaited(w, t)
    BY <1>4, <1>6 DEF Delivery, WritesAwaited
  <1>8. w.kind \in {"response", "streak"}
    BY <1>4, <1>6, WriteInQueue
  <1> QED BY <1>1, <1>4, <1>5, <1>6, <1>7, <1>8 DEF Awaited

-----------------------------------------------------------------------------
(* Every action keeps the streaks covered. *)

\* Places that a step leaves alone, while no streak loses its cover.
LEMMA PlacesFrame ==
  ASSUME Covered \subseteq Covered'
  PROVE  /\ UNCHANGED streaks /\ CloudIn(Covered) => CloudIn(Covered)'
         /\ UNCHANGED user /\ UsersIn(Covered) => UsersIn(Covered)'
         /\ UNCHANGED login /\ LoginsIn(Covered) => LoginsIn(Covered)'
         /\ UNCHANGED submit /\ SubmitsIn(Covered) => SubmitsIn(Covered)'
         /\ UNCHANGED outbox /\ QueuesIn(Covered) => QueuesIn(Covered)'
  BY DEF CloudIn, UsersIn, LoginsIn, SubmitsIn, QueuesIn

\* The user of a phone gets a covered streak, or none.
LEMMA UserPlace ==
  ASSUME TypeOK, Covered \subseteq Covered', UsersIn(Covered),
         NEW d \in Devices, NEW v, v.streak \in Covered \cup {None},
         user' = [user EXCEPT ![d] = v]
  PROVE  UsersIn(Covered)'
  <1>1. \A e \in Devices : user'[e] \in {v, user[e]}
    BY DEF TypeOK
  <1> QED BY <1>1 DEF UsersIn

\* A sign-in task gets a covered reply, or none.
LEMMA LoginPlace ==
  ASSUME TypeOK, Covered \subseteq Covered', LoginsIn(Covered),
         NEW d \in Devices, NEW i \in LoginSlots,
         NEW v, v.reply \in Covered \cup {None},
         login' = [login EXCEPT ![d][i] = v]
  PROVE  LoginsIn(Covered)'
  <1>1. \A e \in Devices, k \in LoginSlots : login'[e][k] \in {v, login[e][k]}
    BY DEF TypeOK
  <1> QED BY <1>1 DEF LoginsIn

\* A submission gets a covered streak.
LEMMA SubmitPlace ==
  ASSUME TypeOK, Covered \subseteq Covered', SubmitsIn(Covered),
         NEW d \in Devices, NEW i \in SubmitSlots,
         NEW v, v.streak \in Covered',
         submit' = [submit EXCEPT ![d][i] = v]
  PROVE  SubmitsIn(Covered)'
  <1>1. \A e \in Devices, k \in SubmitSlots :
          submit'[e][k] \in {v, submit[e][k]}
    BY DEF TypeOK
  <1> QED BY <1>1 DEF SubmitsIn

\* The queues get no streak that is not covered.
LEMMA QueuePlaces ==
  ASSUME Covered \subseteq Covered', QueuesIn(Covered),
         \A e \in Devices, v \in Accounts : \A j \in 1..Len(outbox'[e][v]) :
           \/ \E k \in 1..Len(outbox[e][v]) :
                SameContent(outbox'[e][v][j], outbox[e][v][k])
           \/ outbox'[e][v][j].kind = "response"
           \/ outbox'[e][v][j].streak \in Covered
  PROVE  QueuesIn(Covered)'
  <1> SUFFICES ASSUME NEW e \in Devices, NEW v \in Accounts,
                      NEW j \in 1..Len(outbox'[e][v]),
                      outbox'[e][v][j].kind = "streak"
               PROVE  outbox'[e][v][j].streak \in Covered'
    BY DEF QueuesIn
  <1>1. CASE outbox'[e][v][j].streak \in Covered
    BY <1>1
  <1>2. CASE \E k \in 1..Len(outbox[e][v]) :
               SameContent(outbox'[e][v][j], outbox[e][v][k])
    <2>1. PICK k \in 1..Len(outbox[e][v]) :
            SameContent(outbox'[e][v][j], outbox[e][v][k])
      BY <1>2
    <2> QED BY <2>1 DEF SameContent, QueuesIn
  <1> QED BY <1>1, <1>2

\* Joining a queue.
LEMMA PushPlaces ==
  ASSUME TypeOK, Covered \subseteq Covered', QueuesIn(Covered),
         NEW d \in Devices, NEW w \in Write, Pushes(d, w),
         w.kind = "response" \/ w.streak \in Covered
  PROVE  QueuesIn(Covered)'
  <1>1. ASSUME NEW e \in Devices, NEW v \in Accounts,
               NEW j \in 1..Len(outbox'[e][v])
        PROVE  \/ \E k \in 1..Len(outbox[e][v]) :
                    SameContent(outbox'[e][v][j], outbox[e][v][k])
               \/ outbox'[e][v][j].kind = "response"
               \/ outbox'[e][v][j].streak \in Covered
    <2>1. \/ /\ j \in 1..Len(outbox[e][v])
             /\ outbox'[e][v][j] = outbox[e][v][j]
          \/ outbox'[e][v][j] = w
      BY PushPositions
    <2> QED BY <2>1, WriteInQueue, ContentKept
  <1> QED BY <1>1, QueuePlaces

\* Leaving a queue.
LEMMA PopPlaces ==
  ASSUME TypeOK, Covered \subseteq Covered', QueuesIn(Covered),
         NEW d \in Devices, Pops(d)
  PROVE  QueuesIn(Covered)'
  <1>1. ASSUME NEW e \in Devices, NEW v \in Accounts,
               NEW j \in 1..Len(outbox'[e][v])
        PROVE  \E k \in 1..Len(outbox[e][v]) :
                 SameContent(outbox'[e][v][j], outbox[e][v][k])
    <2>1. PICK k \in 1..Len(outbox[e][v]) : outbox'[e][v][j] = outbox[e][v][k]
      BY PopPositions
    <2> QED BY <2>1, WriteInQueue, ContentKept
  <1> QED BY <1>1, QueuePlaces

\* Steps that send nothing, hear nothing and touch no streak.
LEMMA QuietCovered ==
  ASSUME TypeOK, TypeOK', Delivery, StreaksCovered,
         UNCHANGED <<outbox, submit, stored, streaks, user, login>>
  PROVE  StreaksCovered'
  <1>1. \A d \in Devices, i \in SubmitSlots : Owed(d, i)' => Owed(d, i)
    BY DEF Owed, Delivering
  <1>2. stored <= stored'
    BY DEF TypeOK
  <1>3. IsFiniteSet(Uncredited)' /\ Covered \subseteq Covered'
    BY <1>1, <1>2, CoverageKept DEF StreaksCovered
  <1> QED BY <1>3, PlacesFrame DEF StreaksCovered

\* A step that moves submissions and sends at most one write covers what it
\* covered.
LEMMA CoverageMoves ==
  ASSUME TypeOK, TypeOK', Delivery, StreaksCovered, TasksMove,
         UNCHANGED stored, NEW d \in Devices,
         outbox' = outbox \/ \E w \in Write : Pushes(d, w) /\ ~w.applied
  PROVE  IsFiniteSet(Uncredited)' /\ Covered \subseteq Covered'
  <1>1. ASSUME NEW e \in Devices, NEW i \in SubmitSlots, Owed(e, i)'
        PROVE  Owed(e, i)
    <2>1. Delivering(e, i)' => Delivering(e, i)
      <3>1. CASE outbox' = outbox
        BY <3>1 DEF Delivering
      <3>2. CASE \E w \in Write : Pushes(d, w) /\ ~w.applied
        BY <3>2, PushDelivers
      <3> QED BY <3>1, <3>2
    <2> QED BY <1>1, <2>1, OwedFrame
  <1>2. stored <= stored'
    BY DEF TypeOK
  <1> QED BY <1>1, <1>2, CoverageKept DEF StreaksCovered

\* What the app does to the user of a phone, as far as the streak goes.
LEMMA UserStreak ==
  ASSUME NEW u \in User, NEW n
  PROVE  /\ SetUsername(u, n).streak = u.streak
         /\ SetStreak(u, n).streak \in {u.streak, n}
         /\ [NoUser EXCEPT !.account = n].streak = None
         /\ NoUser.streak = None
  BY DEF SetUsername, SetStreak, User, NoUser

\* What a read of a streak returns is covered.
LEMMA StreakSeenCovered ==
  ASSUME TypeOK, StreaksCovered, NEW d \in Devices, NEW p \in Players,
         NEW n \in StreakSeen(d, p)
  PROVE  n \in Covered \cup {None}
  <1> DEFINE Y == Youngest(WritesStreak(Queue(d), p))
  <1>1. authUser[d] \in Accounts /\ Queue(d) = outbox[d][authUser[d]]
    BY DEF TypeOK, Queue
  <1>2. \A j \in Y : j \in 1..Len(Queue(d)) /\ Queue(d)[j].kind = "streak"
    BY DEF Youngest, WritesStreak
  <1>3. \A j \in Y : Queue(d)[j].streak \in Covered
    BY <1>1, <1>2 DEF StreaksCovered, QueuesIn
  <1>4. streaks[p] \in Covered \cup {None}
    BY DEF StreaksCovered, CloudIn
  <1>5. \/ n = streaks[p]
        \/ \E j \in Y : n = Queue(d)[j].streak
    BY DEF StreakSeen
  <1> QED BY <1>3, <1>4, <1>5

\* The user and the task of a sign-in after one of its steps.
LEMMA LoginPlaces ==
  ASSUME TypeOK, StreaksCovered, NEW d \in Devices, NEW i \in LoginSlots,
         \/ Appear(d, i)
         \/ \E p \in Players, button \in Buttons : TapSignIn(d, i, p, button)
         \/ LoginStep(d, i)
  PROVE  /\ \/ UNCHANGED user
            \/ \E v : /\ v.streak \in Covered \cup {None}
                      /\ user' = [user EXCEPT ![d] = v]
         /\ \E v : /\ v.reply \in Covered \cup {None}
                   /\ login' = [login EXCEPT ![d][i] = v]
  <1> DEFINE t == login[d][i]
             Good(v) == v.streak \in Covered \cup {None}
             Fine(v) == v.reply \in Covered \cup {None}
  <1>0. t \in LoginTask /\ user[d] \in User
    BY DEF TypeOK
  <1>1. /\ 0 \in Covered
        /\ user[d].streak \in Covered \cup {None}
        /\ t.reply \in Covered \cup {None}
    BY DEF StreaksCovered, UsersIn, LoginsIn
  <1>2. /\ \A p : Good([NoUser EXCEPT !.account = p])
        /\ \A p, n : Good([NoUser EXCEPT !.account = p, !.username = n])
        /\ \A n : Good(SetUsername(user[d], n))
        /\ \A n \in Covered : Good(SetStreak(user[d], n))
    BY <1>0, <1>1, UserStreak
  <1>3. /\ \A x, y, p : Fine([NoLogin EXCEPT !.pc = x, !.io = y,
                                             !.player = p])
        /\ \A p : Fine([NoLogin EXCEPT !.pc = "enter", !.player = p])
        /\ Fine([NoLogin EXCEPT !.pc = "putStreak", !.io = "sent"])
        /\ Fine(NoLogin)
        /\ Fine(t)
        /\ \A x : Fine([t EXCEPT !.io = x])
        /\ \A x : Fine([t EXCEPT !.pc = x])
        /\ \A x, y : Fine([t EXCEPT !.pc = x, !.io = y])
        /\ \A n \in Covered \cup {None} :
             Fine([t EXCEPT !.io = "done", !.reply = n])
    BY <1>0, <1>1 DEF NoLogin, LoginTask
  <1> SUFFICES /\ \/ user' = user
                  \/ \E v : Good(v) /\ user' = [user EXCEPT ![d] = v]
               /\ \E v : Fine(v) /\ login' = [login EXCEPT ![d][i] = v]
    OBVIOUS
  <1> HIDE DEF Good, Fine
  <1>4. CASE Appear(d, i)
    <2>1. /\ user' = user
          /\ \/ login' = login
             \/ \E p : login' = [login EXCEPT ![d][i] =
                          [NoLogin EXCEPT !.pc = "enter", !.player = p]]
      BY <1>4, Zenon DEF Appear
    <2>2. login = [login EXCEPT ![d][i] = t]
      BY DEF TypeOK
    <2>3. CASE login' = login
      BY <1>3, <2>1, <2>2, <2>3, Zenon
    <2> QED BY <1>3, <2>1, <2>3, Zenon
  <1>5. CASE \/ \E p \in Players, button \in Buttons :
                  TapSignIn(d, i, p, button)
             \/ ServeSignIn(d, i)
    BY <1>3, <1>5, Zenon DEF TapSignIn, ServeSignIn
  <1>11. CASE GetReply(d, i) \/ Enter(d, i)
    BY <1>2, <1>3, <1>11, Zenon DEF GetReply, Enter
  <1>6. CASE ServeLogin(d, i)
    <2>1. user' = user
      BY <1>6 DEF ServeLogin
    <2>2. CASE t.pc = "getStreak"
      <3>1. t.player \in Players
        BY <1>0, <2>2 DEF LoginTask
      <3>2. \/ \E n \in StreakSeen(d, t.player) :
                 login' = [login EXCEPT ![d][i] =
                             [t EXCEPT !.io = "done", !.reply = n]]
            \/ login' = [login EXCEPT ![d][i] = [t EXCEPT !.io = "failed"]]
        BY <1>6, <2>2 DEF ServeLogin
      <3> QED BY <1>3, <2>1, <3>1, <3>2, StreakSeenCovered
    <2>3. CASE t.pc # "getStreak"
      <3>1. \E x : login' = [login EXCEPT ![d][i] = [t EXCEPT !.io = x]]
        BY <1>6, <2>3, Zenon DEF ServeLogin
      <3> QED BY <1>3, <2>1, <3>1
    <2> QED BY <2>2, <2>3
  <1>7. CASE NameReply(d, i)
    BY <1>2, <1>3, <1>7, Zenon DEF NameReply
  <1>8. CASE FetchUserStreak(d, i)
    BY <1>3, <1>8, Zenon DEF FetchUserStreak
  <1>9. CASE StreakReply(d, i)
    <2>1. \/ user' = user
          \/ /\ t.reply # None
             /\ user' = [user EXCEPT ![d] = SetStreak(user[d], t.reply)]
      BY <1>9, Zenon DEF StreakReply
    <2>2. \/ login' = [login EXCEPT ![d][i] = NoLogin]
          \/ login' = [login EXCEPT ![d][i] =
                         [NoLogin EXCEPT !.pc = "putStreak", !.io = "sent"]]
      BY <1>9, Zenon DEF StreakReply
    <2>3. t.reply # None => t.reply \in Covered
      BY <1>1
    <2> QED BY <1>2, <1>3, <2>1, <2>2, <2>3, Zenon
  <1>10. CASE StreakCreated(d, i)
    <2>1. \/ user' = user
          \/ user' = [user EXCEPT ![d] = SetStreak(user[d], 0)]
      BY <1>10, Zenon DEF StreakCreated
    <2>2. login' = [login EXCEPT ![d][i] = NoLogin]
      BY <1>10, Zenon DEF StreakCreated
    <2> QED BY <1>1, <1>2, <1>3, <2>1, <2>2, Zenon
  <1> QED BY <1>4, <1>5, <1>6, <1>7, <1>8, <1>9, <1>10, <1>11 DEF LoginStep

\* The steps of a sign-in.
LEMMA LoginCovered ==
  ASSUME TypeOK, TypeOK', Delivery, StreaksCovered,
         NEW d \in Devices, NEW i \in LoginSlots,
         \/ Appear(d, i)
         \/ \E p \in Players, button \in Buttons : TapSignIn(d, i, p, button)
         \/ LoginStep(d, i)
  PROVE  StreaksCovered'
  <1>1. UNCHANGED <<submit, stored, streaks>>
    BY DEF Appear, TapSignIn, LoginStep, ServeSignIn, ServeLogin, GetReply,
           Enter, NameReply, FetchUserStreak, StreakReply, StreakCreated,
           cloud
  <1>2. \/ outbox' = outbox
        \/ \E w \in Write :
             Pushes(d, w) /\ ~w.applied /\ w.streak = 0
    <2>1. CASE StreakReply(d, i)
      BY <2>1, StreakReplySends
    <2>2. CASE ~StreakReply(d, i)
      BY <2>2 DEF Appear, TapSignIn, LoginStep, ServeSignIn, ServeLogin,
                  GetReply, Enter, NameReply, FetchUserStreak, StreakCreated
    <2> QED BY <2>1, <2>2
  <1>3. IsFiniteSet(Uncredited)' /\ Covered \subseteq Covered'
    <2>1. outbox' = outbox \/ \E w \in Write : Pushes(d, w) /\ ~w.applied
      BY <1>2
    <2>2. TasksMove /\ stored' = stored
      BY <1>1, TasksStay
    <2> QED BY <2>1, <2>2, CoverageMoves
  <1>4. UsersIn(Covered)'
    BY <1>3, LoginPlaces, UserPlace, PlacesFrame DEF StreaksCovered
  <1>5. LoginsIn(Covered)'
    BY <1>3, LoginPlaces, LoginPlace DEF StreaksCovered
  <1>6. QueuesIn(Covered)'
    BY <1>2, <1>3, PushPlaces, PlacesFrame DEF StreaksCovered
  <1>7. (0 \in Covered)' /\ CloudIn(Covered)' /\ SubmitsIn(Covered)'
    BY <1>1, <1>3, PlacesFrame DEF StreaksCovered
  <1> QED BY <1>3, <1>4, <1>5, <1>6, <1>7 DEF StreaksCovered

\* An acknowledged correct answer adds 1 to the streak shown, any other one
\* makes it 0, and either way the new streak is covered.
LEMMA AnswerReplyCovered ==
  ASSUME TypeOK, TypeOK', Delivery, StreaksCovered,
         NEW d \in Devices, NEW i \in SubmitSlots, AnswerReply(d, i)
  PROVE  StreaksCovered'
  <1> DEFINE t == submit[d][i]
             n == NewStreak(user[d], t.answer.answerOutcome)
             x == [t EXCEPT !.pc = "hop", !.io = "none", !.streak = n]
  <1>0. t \in SubmitTask /\ user[d] \in User
    BY DEF TypeOK
  <1>1. UNCHANGED <<stored, streaks, user, login, outbox>>
    BY DEF AnswerReply, cloud
  <1>2. TasksMove
    BY SubmissionMoves
  <1>3. IsFiniteSet(Uncredited)' /\ Covered \subseteq Covered'
    BY <1>1, <1>2, CoverageMoves
  <1>4. \/ t.io = "done" /\ submit' = [submit EXCEPT ![d][i] = x]
        \/ submit' = [submit EXCEPT ![d][i] = NoSubmit]
    BY DEF AnswerReply, Succeeded
  <1>5. CASE submit' = [submit EXCEPT ![d][i] = NoSubmit]
    <2>1. NoSubmit.streak \in Covered'
      BY <1>3 DEF NoSubmit, StreaksCovered
    <2> QED BY <1>1, <1>3, <1>5, <2>1, SubmitPlace, PlacesFrame
            DEF StreaksCovered
  <1>6. CASE t.io = "done" /\ submit' = [submit EXCEPT ![d][i] = x]
    <2>1. n \in Covered'
      <3>1. CASE ~t.answer.answerOutcome
        BY <1>3, <3>1 DEF NewStreak, StreaksCovered
      <3>2. CASE t.answer.answerOutcome
        <4>1. Owed(d, i)
          BY <1>6, <3>2 DEF Owed, AnswerReply
        <4>2. submit'[d][i] = x
          BY <1>6 DEF TypeOK
        <4>3. ~Owed(d, i)'
          <5> HIDE DEF n
          <5>1. x.pc = "hop"
            BY <1>0 DEF SubmitTask
          <5> QED BY <4>2, <5>1 DEF Owed
        <4>4. \A e \in Devices, k \in SubmitSlots : Owed(e, k)' => Owed(e, k)
          <5>1. \A e \in Devices, k \in SubmitSlots :
                  Delivering(e, k)' => Delivering(e, k)
            BY <1>1 DEF Delivering
          <5> QED BY <1>2, <5>1, OwedFrame
        <4>5. \A m \in Covered : m + 1 \in Covered'
          BY <1>1, <4>1, <4>3, <4>4, CoverageSpent DEF StreaksCovered
        <4>6. user[d].streak \in Covered \cup {None} /\ 0 \in Covered
          BY DEF StreaksCovered, UsersIn
        <4> QED BY <3>2, <4>5, <4>6 DEF NewStreak
      <3> QED BY <3>1, <3>2
    <2>2. x.streak = n
      <3> HIDE DEF n
      <3> QED BY <1>0 DEF SubmitTask
    <2> HIDE DEF x, n
    <2>3. SubmitsIn(Covered)'
      BY <1>3, <1>6, <2>1, <2>2, SubmitPlace DEF StreaksCovered
    <2> QED BY <1>1, <1>3, <2>3, PlacesFrame DEF StreaksCovered
  <1> QED BY <1>4, <1>5, <1>6

\* The other steps of a submission carry covered streaks along.
LEMMA SubmissionCovered ==
  ASSUME TypeOK, TypeOK', Delivery, StreaksCovered,
         NEW d \in Devices, NEW i \in SubmitSlots,
         \/ \E a \in Texts : TapSubmit(d, i, a)
         \/ SubmitAnswer(d, i)
         \/ UpdateCurrentUsersStreak(d, i)
         \/ StreakSaved(d, i)
         \/ SubmitReturns(d, i)
  PROVE  StreaksCovered'
  <1> DEFINE t == submit[d][i]
  <1>0. t \in SubmitTask /\ user[d] \in User
    BY DEF TypeOK
  <1>1. UNCHANGED <<stored, streaks, login>>
    BY DEF TapSubmit, SubmitAnswer, UpdateCurrentUsersStreak, StreakSaved,
           SubmitReturns, cloud
  <1>2. t.streak \in Covered /\ 0 \in Covered
    BY DEF StreaksCovered, SubmitsIn
  <1>3. TasksMove
    BY SubmissionMoves, SubmitAnswerSends, UpdateStreakSends
  <1>4. \/ outbox' = outbox
        \/ \E w \in Write :
             /\ Pushes(d, w) /\ ~w.applied
             /\ w.kind = "response" \/ w.streak = t.streak
    <2>1. CASE SubmitAnswer(d, i) \/ UpdateCurrentUsersStreak(d, i)
      BY <2>1, SubmitAnswerSends, UpdateStreakSends
    <2>2. CASE ~(SubmitAnswer(d, i) \/ UpdateCurrentUsersStreak(d, i))
      BY <2>2, SubmissionMoves
    <2> QED BY <2>1, <2>2
  <1>5. IsFiniteSet(Uncredited)' /\ Covered \subseteq Covered'
    <2>1. outbox' = outbox \/ \E w \in Write : Pushes(d, w) /\ ~w.applied
      BY <1>4
    <2> QED BY <1>1, <1>3, <2>1, CoverageMoves
  <1>6. QueuesIn(Covered)'
    BY <1>2, <1>4, <1>5, PushPlaces, PlacesFrame DEF StreaksCovered
  <1>7. UsersIn(Covered)'
    <2>1. \/ user' = user
          \/ user' = [user EXCEPT ![d] = SetStreak(user[d], t.streak)]
      BY DEF TapSubmit, SubmitAnswer, UpdateCurrentUsersStreak, StreakSaved,
             SubmitReturns
    <2>2. SetStreak(user[d], t.streak).streak \in Covered \cup {None}
      BY <1>0, <1>2, UserStreak DEF StreaksCovered, UsersIn
    <2> QED BY <1>5, <2>1, <2>2, UserPlace, PlacesFrame DEF StreaksCovered
  <1>8. SubmitsIn(Covered)'
    <2> DEFINE Fine(v) == v.streak \in Covered
    <2>1. /\ Fine(NoSubmit)
          /\ Fine([NoSubmit EXCEPT !.pc = "queued", !.live = TRUE])
          /\ \A a, p, k : Fine([t EXCEPT !.pc = "response", !.io = "sent",
                                         !.answer = a, !.name = p, !.day = k])
          /\ Fine([t EXCEPT !.pc = "streak", !.io = "sent"])
          /\ Fine([t EXCEPT !.pc = "back", !.streak = 0])
          /\ Fine([t EXCEPT !.pc = "back", !.io = "none", !.streak = 0])
      BY <1>0, <1>2 DEF NoSubmit, SubmitTask
    <2>2. \E v : Fine(v) /\ submit' = [submit EXCEPT ![d][i] = v]
      <3> HIDE DEF Fine
      <3>1. CASE \E a \in Texts : TapSubmit(d, i, a)
        BY <2>1, <3>1, Zenon DEF TapSubmit
      <3>2. CASE SubmitAnswer(d, i)
        BY <2>1, <3>2, Zenon DEF SubmitAnswer
      <3>3. CASE UpdateCurrentUsersStreak(d, i)
        BY <2>1, <3>3, Zenon DEF UpdateCurrentUsersStreak
      <3>4. CASE StreakSaved(d, i)
        BY <2>1, <3>4, Zenon DEF StreakSaved
      <3>5. CASE SubmitReturns(d, i)
        BY <2>1, <3>5, Zenon DEF SubmitReturns
      <3> QED BY <3>1, <3>2, <3>3, <3>4, <3>5
    <2> QED BY <1>5, <2>2, SubmitPlace DEF StreaksCovered
  <1> QED BY <1>1, <1>5, <1>6, <1>7, <1>8, PlacesFrame DEF StreaksCovered

\* Logging out and crashing forget streaks and keep the writes.
LEMMA ForgetCovered ==
  ASSUME TypeOK, TypeOK', Delivery, StreaksCovered, NEW d \in Devices,
         Logout(d) \/ Crash(d)
  PROVE  StreaksCovered'
  <1>1. UNCHANGED <<stored, streaks>> /\ user' = [user EXCEPT ![d] = NoUser]
    BY DEF Logout, Crash, cloud
  <1>2. \A e \in Devices, i \in SubmitSlots : Owed(e, i)' => Owed(e, i)
    <2>1. CASE Crash(d)
      BY <2>1, OwedCrash
    <2>2. CASE Logout(d)
      <3>1. \A e \in Devices, i \in SubmitSlots :
              Delivering(e, i)' => Delivering(e, i)
        BY <2>2 DEF Logout, Delivering
      <3> QED BY <2>2, <3>1, LogoutMoves, OwedFrame
    <2> QED BY <2>1, <2>2
  <1>3. IsFiniteSet(Uncredited)' /\ Covered \subseteq Covered'
    <2>1. stored <= stored'
      BY <1>1 DEF TypeOK
    <2> QED BY <1>2, <2>1, CoverageKept DEF StreaksCovered
  <1>4. UsersIn(Covered)'
    BY <1>1, <1>3, UserPlace DEF StreaksCovered, NoUser
  <1>5. LoginsIn(Covered)'
    <2>1. \A e \in Devices, i \in LoginSlots :
            login'[e][i] \in {login[e][i], NoLogin}
      <3>1. CASE Logout(d)
        BY <3>1 DEF Logout
      <3>2. CASE Crash(d)
        BY <3>2 DEF Crash, TypeOK
      <3> QED BY <3>1, <3>2
    <2> QED BY <1>3, <2>1 DEF StreaksCovered, LoginsIn, NoLogin
  <1>6. SubmitsIn(Covered)'
    <2>1. ASSUME NEW e \in Devices, NEW i \in SubmitSlots
          PROVE  submit'[e][i].streak \in {submit[e][i].streak, 0}
      <3>1. submit'[e][i] \in {submit[e][i], NoSubmit,
                               [submit[e][i] EXCEPT !.live = FALSE]}
        <4>1. CASE Logout(d)
          <5>1. submit' = [submit EXCEPT ![d] =
                  [k \in SubmitSlots |-> [submit[d][k] EXCEPT !.live = FALSE]]]
            BY <4>1 DEF Logout
          <5> QED BY <5>1 DEF TypeOK
        <4>2. CASE Crash(d)
          BY <4>2 DEF Crash, TypeOK
        <4> QED BY <4>1, <4>2
      <3>2. submit[e][i] \in SubmitTask
        BY DEF TypeOK
      <3> QED BY <3>1, <3>2 DEF SubmitTask, NoSubmit
    <2> QED BY <1>3, <2>1 DEF StreaksCovered, SubmitsIn
  <1>7. QueuesIn(Covered)'
    <2>1. CASE Logout(d)
      BY <1>3, <2>1, PlacesFrame DEF Logout, StreaksCovered
    <2>2. CASE Crash(d)
      BY <1>3, <2>2, CrashedWrites, QueuePlaces DEF StreaksCovered
    <2> QED BY <2>1, <2>2
  <1> QED BY <1>1, <1>3, <1>4, <1>5, <1>6, <1>7, PlacesFrame
          DEF StreaksCovered

\* Acknowledging or refusing a write.
LEMMA LeaveCovered ==
  ASSUME TypeOK, TypeOK', Delivery, StreaksCovered, NEW d \in Devices,
         Acknowledge(d) \/ Reject(d)
  PROVE  StreaksCovered'
  <1>1. PICK result \in {"done", "failed"} :
          Leave(d, result) /\ (result = "done" => Head(Queue(d)).applied)
    BY DEF Acknowledge, Reject
  <1> DEFINE h == Head(Queue(d))
  <1>2. Pops(d) /\ UNCHANGED <<stored, streaks, user>>
    BY <1>1 DEF Leave, Pops, Queue, cloud
  <1>3. IsFiniteSet(Uncredited)' /\ Covered \subseteq Covered'
    <2>1. \A e \in Devices, i \in SubmitSlots : Owed(e, i)' => Owed(e, i)
      BY <1>1, OwedPop
    <2>2. stored <= stored'
      BY <1>2 DEF TypeOK
    <2> QED BY <2>1, <2>2, CoverageKept DEF StreaksCovered
  <1>4. /\ submit' = IF h.by \in SubmitSlots
                     THEN [submit EXCEPT ![d][h.by].io = result] ELSE submit
        /\ login' = IF h.by \in LoginSlots
                    THEN [login EXCEPT ![d][h.by].io = result] ELSE login
    BY <1>1 DEF Leave, Settle
  <1> HIDE DEF h
  <1>5. SubmitsIn(Covered)'
    <2>1. ASSUME NEW e \in Devices, NEW i \in SubmitSlots
          PROVE  submit'[e][i].streak = submit[e][i].streak
      <3>1. submit'[e][i] \in {submit[e][i],
                               [submit[e][i] EXCEPT !.io = result]}
        BY <1>4 DEF TypeOK
      <3>2. submit[e][i] \in SubmitTask
        BY DEF TypeOK
      <3> QED BY <3>1, <3>2 DEF SubmitTask
    <2> QED BY <1>3, <2>1 DEF StreaksCovered, SubmitsIn
  <1>6. LoginsIn(Covered)'
    <2>1. ASSUME NEW e \in Devices, NEW i \in LoginSlots
          PROVE  login'[e][i].reply = login[e][i].reply
      <3>1. login'[e][i] \in {login[e][i], [login[e][i] EXCEPT !.io = result]}
        BY <1>4 DEF TypeOK
      <3>2. login[e][i] \in LoginTask
        BY DEF TypeOK
      <3> QED BY <3>1, <3>2 DEF LoginTask
    <2> QED BY <1>3, <2>1 DEF StreaksCovered, LoginsIn
  <1>7. QueuesIn(Covered)'
    BY <1>2, <1>3, PopPlaces DEF StreaksCovered
  <1> QED BY <1>2, <1>3, <1>5, <1>6, <1>7, PlacesFrame DEF StreaksCovered

\* A delivery: the one submission that it may come to owe a streak is paid
\* for by the correct answer it stores.
LEMMA ApplyCovered ==
  ASSUME TypeOK, TypeOK', Delivery, StreaksCovered, NEW d \in Devices,
         Apply(d)
  PROVE  StreaksCovered'
  <1>1. PICK j \in 1..Len(Queue(d)) : ApplyResponse(d, j) \/ ApplyStreak(d, j)
    BY DEF Apply
  <1> DEFINE w == Queue(d)[j]
  <1>2. Delivered(d, j) /\ UNCHANGED <<submit, login, user>>
    BY <1>1 DEF ApplyResponse, ApplyStreak, tasks
  <1>3. \A e \in Devices, i \in SubmitSlots :
          Owed(e, i)' =>
            \/ Owed(e, i)
            \/ /\ e = d /\ i = w.by
               /\ w.kind = "response" /\ w.answer.answerOutcome /\ ~w.applied
    BY <1>2, OwedMark
  <1>4. w \in Write
    BY QueueType
  <1>5. IsFiniteSet(Uncredited)' /\ Covered \subseteq Covered'
    <2>1. CASE /\ ApplyResponse(d, j)
               /\ w.answer.answerOutcome /\ ~w.applied
      <3>1. stored' = stored + 1
        BY <2>1 DEF ApplyResponse
      <3>2. CASE w.by \in SubmitSlots
        <4>1. \A e \in Devices, i \in SubmitSlots :
                Owed(e, i)' => Owed(e, i) \/ (e = d /\ i = w.by)
          BY <1>3
        <4> HIDE DEF w
        <4> QED BY <3>1, <3>2, <4>1, CoverageAdded DEF StreaksCovered
      <3>3. CASE w.by \notin SubmitSlots
        <4>1. \A e \in Devices, i \in SubmitSlots : Owed(e, i)' => Owed(e, i)
          BY <1>3, <3>3
        <4>2. stored <= stored'
          BY <3>1 DEF TypeOK
        <4> QED BY <4>1, <4>2, CoverageKept DEF StreaksCovered
      <3> QED BY <3>2, <3>3
    <2>2. CASE ApplyStreak(d, j) \/ ~w.answer.answerOutcome \/ w.applied
      <3>1. stored' = stored
        BY <1>1, <2>2 DEF ApplyResponse, ApplyStreak
      <3>2. ApplyStreak(d, j) => w.kind = "streak"
        BY DEF ApplyStreak
      <3>3. \A e \in Devices, i \in SubmitSlots : Owed(e, i)' => Owed(e, i)
        BY <1>3, <2>2, <3>2
      <3>4. stored <= stored'
        BY <3>1 DEF TypeOK
      <3> QED BY <3>3, <3>4, CoverageKept DEF StreaksCovered
    <2> QED BY <1>1, <2>1, <2>2
  <1>6. CloudIn(Covered)'
    <2>1. CASE ApplyResponse(d, j)
      BY <1>5, <2>1, PlacesFrame DEF ApplyResponse, StreaksCovered
    <2>2. CASE ApplyStreak(d, j)
      <3>1. /\ w.kind = "streak"
            /\ streaks' = [streaks EXCEPT ![w.name] = w.streak]
        BY <2>2 DEF ApplyStreak
      <3>2. authUser[d] \in Accounts /\ Queue(d) = outbox[d][authUser[d]]
        BY DEF TypeOK, Queue
      <3>3. w.streak \in Covered
        BY <3>1, <3>2 DEF StreaksCovered, QueuesIn
      <3>4. \A p \in Players : streaks'[p] \in {streaks[p], w.streak}
        BY <3>1 DEF TypeOK
      <3> QED BY <1>5, <3>3, <3>4 DEF StreaksCovered, CloudIn
    <2> QED BY <1>1, <2>1, <2>2
  <1>7. QueuesIn(Covered)'
    <2>1. \A e \in Devices, v \in Accounts : \A k \in 1..Len(outbox'[e][v]) :
            /\ k \in 1..Len(outbox[e][v])
            /\ SameContent(outbox'[e][v][k], outbox[e][v][k])
      BY <1>2, MarkedWrites
    <2> QED BY <1>5, <2>1, QueuePlaces DEF StreaksCovered
  <1> QED BY <1>2, <1>5, <1>6, <1>7, PlacesFrame DEF StreaksCovered

\* Every step keeps the streaks covered.
LEMMA NextCovered ==
  TypeOK /\ Delivery /\ StreaksCovered /\ [Next]_vars => StreaksCovered'
  <1> SUFFICES ASSUME TypeOK, Delivery, StreaksCovered, [Next]_vars
               PROVE  StreaksCovered'
    OBVIOUS
  <1>0. TypeOK'
    BY NextTypeOK
  <1>1. CASE UNCHANGED vars
    BY <1>0, <1>1, QuietCovered DEF vars
  <1>2. CASE Next
    <2>1. PICK d \in Devices :
            \/ Midnight(d) \/ Apply(d) \/ Acknowledge(d) \/ Reject(d)
            \/ Crash(d) \/ Logout(d)
            \/ \E i \in LoginSlots :
                 \/ Appear(d, i)
                 \/ \E p \in Players, button \in Buttons :
                      TapSignIn(d, i, p, button)
                 \/ LoginStep(d, i)
            \/ \E i \in LoadSlots :
                 OpenGame(d, i) \/ Reappear(d, i) \/ LoadStep(d, i)
            \/ \E i \in SubmitSlots :
                 (\E a \in Texts : TapSubmit(d, i, a)) \/ SubmitStep(d, i)
      BY <1>2, Zenon DEF Next
    <2>2. CASE Midnight(d)
      BY <1>0, <2>2, QuietCovered DEF Midnight, cloud, tasks
    <2>3. CASE Apply(d) \/ Acknowledge(d) \/ Reject(d) \/ Crash(d) \/ Logout(d)
      BY <1>0, <2>3, ApplyCovered, LeaveCovered, ForgetCovered
    <2>4. ASSUME NEW i \in LoginSlots,
                 \/ Appear(d, i)
                 \/ \E p \in Players, button \in Buttons :
                      TapSignIn(d, i, p, button)
                 \/ LoginStep(d, i)
          PROVE  StreaksCovered'
      BY <1>0, <2>4, LoginCovered
    <2>5. ASSUME NEW i \in LoadSlots,
                 OpenGame(d, i) \/ Reappear(d, i) \/ LoadStep(d, i)
          PROVE  StreaksCovered'
      BY <1>0, <2>5, QuietCovered
         DEF OpenGame, Reappear, LoadStep, ServeLoad, QuestionReply,
             Unchecked, ResponseReply, FinishLoad, ResponseFailed, cloud
    <2>6. ASSUME NEW i \in SubmitSlots,
                 (\E a \in Texts : TapSubmit(d, i, a)) \/ SubmitStep(d, i)
          PROVE  StreaksCovered'
      BY <1>0, <2>6, SubmissionCovered, AnswerReplyCovered DEF SubmitStep
    <2> QED BY <2>1, <2>2, <2>3, <2>4, <2>5, <2>6
  <1> QED BY <1>1, <1>2

\* StreaksCovered always holds.
LEMMA CoverCorrect == Spec => []StreaksCovered
  <1>1. Init => StreaksCovered
    <2> SUFFICES ASSUME Init PROVE StreaksCovered
      OBVIOUS
    <2>1. Uncredited = {}
      BY DEF Init, Uncredited, Owed, NoSubmit
    <2>2. IsFiniteSet(Uncredited) /\ Cardinality(Uncredited) = 0
      BY <2>1, FS_EmptySet
    <2>3. 0 \in Covered
      BY <2>2 DEF Covered, Init
    <2>4. /\ CloudIn(Covered) /\ UsersIn(Covered) /\ LoginsIn(Covered)
          /\ SubmitsIn(Covered) /\ QueuesIn(Covered)
      BY <2>3 DEF Init, CloudIn, UsersIn, LoginsIn, SubmitsIn, QueuesIn,
                  NoUser, NoLogin, NoSubmit
    <2> QED BY <2>2, <2>3, <2>4 DEF StreaksCovered
  <1>2. TypeOK /\ Delivery /\ StreaksCovered /\ [Next]_vars
          => StreaksCovered'
    BY NextCovered
  <1> QED BY <1>1, <1>2, TypeCorrect, DeliveryCorrect, PTL DEF Spec

\* What is covered does not exceed the correct answers stored.
LEMMA CoveredIsEarned ==
  ASSUME TypeOK, IsFiniteSet(Uncredited), NEW n \in Covered
  PROVE  n \in Nat /\ n <= stored
  <1>1. Cardinality(Uncredited) \in Nat
    BY FS_CardinalityType
  <1> QED BY <1>1 DEF Covered, TypeOK

\* No streak, stored or shown, exceeds the number of correct answers stored,
\* whatever the taps, crashes, retries and late replies: each +1 is backed by
\* a correct answer of its own.
THEOREM StreaksAreEarned == Spec => []StreakEarned
  <1>1. TypeOK /\ StreaksCovered => StreakEarned
    BY CoveredIsEarned DEF StreaksCovered, CloudIn, UsersIn, StreakEarned
  <1> QED BY <1>1, TypeCorrect, CoverCorrect, PTL

-----------------------------------------------------------------------------
(* The documents implement AnswerBook. *)

\* A response that reaches the backend is a graded answer, filed on its day or
\* later, and counts at most once and only when correct.
LEMMA ApplyResponseFiles ==
  ASSUME TypeOK, Filing, NEW d \in Devices, NEW j, ApplyResponse(d, j)
  PROVE  \E p \in Players, k \in Days : Book!File(p, k)
  <1> DEFINE w == Queue(d)[j]
             text == w.answer.userAnswer
  <1>1. j \in 1..Len(Queue(d)) /\ w.kind = "response"
    BY DEF ApplyResponse, Delivered
  <1>2. w \in Write
    BY <1>1, QueueType
  <1>3. w.name \in Players /\ w.day \in Days /\ w.answer \in SubmittedAnswer
    BY <1>1, <1>2 DEF Write, ResponseWrite, StreakWrite
  <1>4. QueueGraded(Queue(d))
    BY DEF Filing, WritesGraded, TypeOK, Queue
  <1>5. Graded(w.answer) /\ w.answer.date <= w.day
    BY <1>1, <1>4 DEF QueueGraded
  <1>6. /\ responses' = [responses EXCEPT ![w.name][w.day] = w.answer]
        /\ stored' = IF w.answer.answerOutcome /\ ~w.applied
                     THEN stored + 1 ELSE stored
        /\ streaks' = streaks
    BY DEF ApplyResponse
  <1> HIDE DEF w
  <1>7. /\ w.answer.date \in Days /\ text \in Texts
        /\ HasQuestion(w.answer.date)
        /\ w.answer = Answer(w.answer.date, text)
    BY <1>3, <1>5 DEF SubmittedAnswer, Graded
  <1>8. w.answer.answerOutcome => IsCorrect(w.answer.date, text)
    BY <1>7 DEF Answer
  <1>9. Book!File(w.name, w.day)
    BY <1>5, <1>6, <1>7, <1>8
       DEF Book!File, Book!Days, Days, Book!HasQuestion, HasQuestion,
           Book!Answer, Answer, Book!IsCorrect, IsCorrect
  <1> QED BY <1>3, <1>9

\* A streak that reaches the backend is one the correct answers pay for.
LEMMA ApplyStreakKeeps ==
  ASSUME TypeOK, StreaksCovered, NEW d \in Devices, NEW j, ApplyStreak(d, j)
  PROVE  \E p \in Players : Book!Keep(p)
  <1> DEFINE w == Queue(d)[j]
  <1>1. j \in 1..Len(Queue(d)) /\ w.kind = "streak"
    BY DEF ApplyStreak, Delivered
  <1>2. w \in Write
    BY <1>1, QueueType
  <1>3. w.name \in Players
    BY <1>2 DEF Write, ResponseWrite, StreakWrite
  <1>4. authUser[d] \in Accounts /\ Queue(d) = outbox[d][authUser[d]]
    BY DEF TypeOK, Queue
  <1>5. w.streak \in Covered
    BY <1>1, <1>4 DEF StreaksCovered, QueuesIn
  <1>6. w.streak \in Nat /\ w.streak <= stored /\ stored \in Nat
    BY <1>5, CoveredIsEarned DEF StreaksCovered, TypeOK
  <1>7. /\ streaks' = [streaks EXCEPT ![w.name] = w.streak]
        /\ UNCHANGED <<responses, stored>>
    BY DEF ApplyStreak
  <1> HIDE DEF w
  <1>8. w.streak \in 0..stored
    BY <1>6
  <1> QED BY <1>3, <1>7, <1>8 DEF Book!Keep

\* No other step touches the documents.
LEMMA OthersKeepBook ==
  ASSUME [Next]_vars
  PROVE  \/ \E d \in Devices : Apply(d)
         \/ UNCHANGED <<responses, streaks, stored>>
  <1>1. CASE UNCHANGED vars
    BY <1>1 DEF vars
  <1>2. CASE Next
    <2>1. PICK d \in Devices :
            \/ Midnight(d) \/ Apply(d) \/ Acknowledge(d) \/ Reject(d)
            \/ Crash(d) \/ Logout(d)
            \/ \E i \in LoginSlots :
                 \/ Appear(d, i)
                 \/ \E p \in Players, button \in Buttons :
                      TapSignIn(d, i, p, button)
                 \/ LoginStep(d, i)
            \/ \E i \in LoadSlots :
                 OpenGame(d, i) \/ Reappear(d, i) \/ LoadStep(d, i)
            \/ \E i \in SubmitSlots :
                 (\E a \in Texts : TapSubmit(d, i, a)) \/ SubmitStep(d, i)
      BY <1>2, Zenon DEF Next
    <2>2. CASE Midnight(d) \/ Acknowledge(d) \/ Reject(d) \/ Crash(d)
               \/ Logout(d)
      BY <2>2 DEF Midnight, Acknowledge, Reject, Leave, Crash, Logout, cloud
    <2>3. ASSUME NEW i \in LoginSlots,
                 \/ Appear(d, i)
                 \/ \E p \in Players, button \in Buttons :
                      TapSignIn(d, i, p, button)
                 \/ LoginStep(d, i)
          PROVE  UNCHANGED <<responses, streaks, stored>>
      BY <2>3 DEF Appear, TapSignIn, LoginStep, ServeSignIn, ServeLogin,
                  GetReply, Enter, NameReply, FetchUserStreak, StreakReply,
                  StreakCreated, cloud
    <2>4. ASSUME NEW i \in LoadSlots,
                 OpenGame(d, i) \/ Reappear(d, i) \/ LoadStep(d, i)
          PROVE  UNCHANGED <<responses, streaks, stored>>
      BY <2>4 DEF OpenGame, Reappear, LoadStep, ServeLoad, QuestionReply,
                  Unchecked, ResponseReply, FinishLoad, ResponseFailed, cloud
    <2>5. ASSUME NEW i \in SubmitSlots,
                 (\E a \in Texts : TapSubmit(d, i, a)) \/ SubmitStep(d, i)
          PROVE  UNCHANGED <<responses, streaks, stored>>
      BY <2>5 DEF TapSubmit, SubmitStep, SubmitAnswer, AnswerReply,
                  UpdateCurrentUsersStreak, StreakSaved, SubmitReturns, cloud
    <2> QED BY <2>1, <2>2, <2>3, <2>4, <2>5
  <1> QED BY <1>1, <1>2

\* The app implements AnswerBook: of all that the phones, the SDK and the
\* backend do, the documents show only graded answers being filed and earned
\* streaks being kept.
THEOREM BookImplemented == Spec => ImplementsBook
  <1>1. Init => Book!Init
    BY DEF Init, Book!Init, Days, Book!Days
  <1>2. TypeOK /\ Filing /\ StreaksCovered /\ [Next]_vars
          => [Book!Next]_(Book!book)
    <2> SUFFICES ASSUME TypeOK, Filing, StreaksCovered, [Next]_vars
                 PROVE  [Book!Next]_(Book!book)
      OBVIOUS
    <2>1. CASE UNCHANGED <<responses, streaks, stored>>
      BY <2>1 DEF Book!book
    <2>2. ASSUME NEW d \in Devices, Apply(d)
          PROVE  Book!Next
      <3>1. PICK j \in 1..Len(Queue(d)) :
              ApplyResponse(d, j) \/ ApplyStreak(d, j)
        BY <2>2 DEF Apply
      <3>2. CASE ApplyResponse(d, j)
        BY <3>2, ApplyResponseFiles DEF Book!Next, Book!Days, Days
      <3>3. CASE ApplyStreak(d, j)
        BY <3>3, ApplyStreakKeeps DEF Book!Next
      <3> QED BY <3>1, <3>2, <3>3
    <2> QED BY <2>1, <2>2, OthersKeepBook
  <1> QED
    BY <1>1, <1>2, TypeCorrect, FilingAlways, CoverCorrect, PTL
       DEF Spec, ImplementsBook, Book!Spec
=============================================================================
