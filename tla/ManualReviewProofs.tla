------------------------- MODULE ManualReviewProofs -------------------------
(***************************************************************************)
(* Theorems about ManualReview, for every number of phones, names,         *)
(* submissions in flight, days and taps.                                   *)
(***************************************************************************)
EXTENDS ManualReview, TLAPS, SequenceTheorems

-----------------------------------------------------------------------------
(* Queues *)

Write == [by : Slots \cup {None}, review : Review, due : BOOLEAN]

\* What ApplyWrite and Crash make of a queue.
Marked(q, j) ==
  [k \in 1..Len(q) |-> [q[k] EXCEPT !.due = k <= j]]

Orphaned(q) == [j \in 1..Len(q) |-> [q[j] EXCEPT !.by = None]]

\* The elements of a queue are writes, of reviews.
LEMMA QueueType ==
  ASSUME NEW q \in Seq(Write)
  PROVE  /\ Len(q) \in Nat
         /\ \A k \in 1..Len(q) :
              /\ q[k] \in Write
              /\ q[k].review \in Review /\ q[k].review # None
              /\ q[k].review.date \in 1..MaxDay
         /\ q # <<>> => 1 \in 1..Len(q) /\ Len(q) \in 1..Len(q)
  <1>1. Len(q) \in Nat /\ \A k \in 1..Len(q) : q[k] \in Write
    OBVIOUS
  <1>2. \A w \in Write : /\ w.review \in Review /\ w.review # None
                         /\ w.review.date \in 1..MaxDay
    BY NoneAssumption DEF Write, Review
  <1>3. q # <<>> => Len(q) > 0
    BY EmptySeq
  <1> QED BY <1>1, <1>2, <1>3

\* A delivery marks a write and says which ones are due.
LEMMA MarkedQueue ==
  ASSUME NEW q \in Seq(Write), NEW j \in 1..Len(q)
  PROVE  /\ Marked(q, j) \in Seq(Write)
         /\ Len(Marked(q, j)) = Len(q)
         /\ \A k \in 1..Len(q) :
              /\ Marked(q, j)[k].review = q[k].review
              /\ Marked(q, j)[k].by = q[k].by
              /\ Marked(q, j)[k].due <=> k <= j
  <1> DEFINE e(k) == [q[k] EXCEPT !.due = k <= j]
  <1>1. ASSUME NEW k \in 1..Len(q)
        PROVE  /\ e(k) \in Write
               /\ e(k).review = q[k].review
               /\ e(k).by = q[k].by
               /\ e(k).due <=> k <= j
    <2> DEFINE b == k <= j
    <2>1. q[k] \in Write /\ b \in BOOLEAN
      BY QueueType
    <2>2. e(k) = [q[k] EXCEPT !.due = b]
      BY Zenon
    <2> HIDE DEF b
    <2>3. /\ e(k) \in Write
          /\ e(k).review = q[k].review
          /\ e(k).by = q[k].by
          /\ e(k).due = b
      BY <2>1, <2>2 DEF Write
    <2>4. e(k).due <=> b
      BY <2>3, Zenon
    <2> QED BY <2>3, <2>4 DEF b
  <1>2. Marked(q, j) = [k \in 1..Len(q) |-> e(k)]
    BY Zenon DEF Marked
  <1> HIDE DEF e
  <1>3. /\ Marked(q, j) \in Seq(Write) /\ Len(Marked(q, j)) = Len(q)
        /\ \A k \in 1..Len(q) : Marked(q, j)[k] = e(k)
    BY <1>1, <1>2, QueueType
  <1> QED BY <1>1, <1>3

\* After a crash nobody awaits the writes; else they are the same.
LEMMA OrphanedQueue ==
  ASSUME NEW q \in Seq(Write)
  PROVE  /\ Orphaned(q) \in Seq(Write)
         /\ Len(Orphaned(q)) = Len(q)
         /\ \A k \in 1..Len(q) :
              /\ Orphaned(q)[k].review = q[k].review
              /\ Orphaned(q)[k].by = None
              /\ Orphaned(q)[k].due = q[k].due
  <1> DEFINE m == [k \in 1..Len(q) |-> [q[k] EXCEPT !.by = None]]
  <1>1. ASSUME NEW k \in 1..Len(q)
        PROVE  /\ [q[k] EXCEPT !.by = None] \in Write
               /\ m[k].review = q[k].review
               /\ m[k].by = None
               /\ m[k].due = q[k].due
    BY QueueType DEF Write
  <1>2. m \in Seq(Write) /\ Len(m) = Len(q)
    BY <1>1, QueueType
  <1> QED BY <1>1, <1>2 DEF Orphaned

-----------------------------------------------------------------------------
(* Type correctness *)

Task == [pc : {"idle", "query", "write"},
         io : {"none", "sent", "done", "failed"}, name : Names \cup {None},
         note : 0..MaxTaps, date : 0..MaxDay, found : Review \cup {None},
         live : BOOLEAN]

\* A task knows what it needs when it needs it, and reports only to a sheet
\* that is still open.
Ready(t, open) ==
  /\ t \in Task
  /\ t.pc # "idle" => t.name # None /\ t.note # 0
  /\ t.pc = "write" => t.date # 0
  /\ t.live => open # None

TasksReady == \A d \in Devices, i \in Slots : Ready(task[d][i], sheet[d])

Alerts == {"none", "error", "recordExists", "confirmation"}

Shaped ==
  /\ today \in [Devices -> 1..MaxDay]
  /\ reviews \in [Names -> Review \cup {None}]
  /\ seen \in [Devices -> [Names -> Review \cup {None}]]
  /\ outbox \in [Devices -> [Names -> Seq(Write)]]
  /\ sheet \in [Devices -> Names \cup {None}]
  /\ alert \in [Devices -> Alerts]
  /\ task \in [Devices -> [Slots -> Task]]
  /\ \A d \in Devices : alert[d] # "none" => sheet[d] # None
  /\ confirmed \subseteq [name : Names, review : Review]
  /\ taps \in 0..MaxTaps
  /\ TasksReady

\* No task is ready for anything.
LEMMA NoTaskReady == \A open : Ready(NoTask, open)
  BY ReviewAssumption DEF Ready, NoTask, Task

\* Initially nothing is there.
LEMMA InitShaped == Init => Shaped
  <1> SUFFICES ASSUME Init PROVE Shaped
    OBVIOUS
  <1>1. NoTask \in Task
    BY ReviewAssumption DEF NoTask, Task
  <1>2. TasksReady
    BY NoTaskReady DEF Init, TasksReady
  <1> QED BY <1>1, <1>2, ReviewAssumption DEF Init, Shaped, Alerts

\* A table by device and by name or slot gets an entry.
LEMMA TableUpdate ==
  ASSUME NEW S, NEW T, NEW f \in [Devices -> [S -> T]],
         NEW d \in Devices, NEW n \in S, NEW v \in T
  PROVE  [f EXCEPT ![d][n] = v] \in [Devices -> [S -> T]]
  OBVIOUS

\* A task that is past its start has a name and a note, a writing one a date.
LEMMA ReadyParts ==
  ASSUME NEW t, NEW open, Ready(t, open), t.pc # "idle"
  PROVE  /\ t.name \in Names /\ t.note \in 1..MaxTaps
         /\ t.pc = "write" => t.date \in 1..MaxDay
  BY ReviewAssumption DEF Ready, Task

\* The state of one device, by name.
LEMMA DeviceType ==
  ASSUME Shaped, NEW d \in Devices
  PROVE  /\ today[d] \in 1..MaxDay
         /\ \A n \in Names : /\ outbox[d][n] \in Seq(Write)
                             /\ seen[d][n] \in Review \cup {None}
                             /\ reviews[n] \in Review \cup {None}
         /\ sheet[d] \in Names \cup {None}
         /\ \A i \in Slots : task[d][i] \in Task
                               /\ Ready(task[d][i], sheet[d])
         /\ taps \in 0..MaxTaps
  BY DEF Shaped, TasksReady

\* A slot gets a task that is ready, and the alert stays one of an open
\* sheet.
LEMMA TaskStepShaped ==
  ASSUME Shaped, NEW d \in Devices, NEW i \in Slots, NEW t,
         Ready(t, sheet[d]), task' = [task EXCEPT ![d][i] = t],
         UNCHANGED sheet
  PROVE  /\ task' \in [Devices -> [Slots -> Task]]
         /\ TasksReady'
  <1>1. t \in Task /\ task \in [Devices -> [Slots -> Task]]
    BY DEF Ready, Shaped
  <1>2. task' \in [Devices -> [Slots -> Task]]
    BY <1>1
  <1>3. ASSUME NEW e \in Devices, NEW k \in Slots
        PROVE  Ready(task'[e][k], sheet'[e])
    <2>1. CASE e = d /\ k = i
      BY <1>1, <2>1
    <2>2. CASE ~(e = d /\ k = i)
      <3>1. task'[e][k] = task[e][k]
        BY <1>1, <2>2
      <3> QED BY <3>1 DEF Shaped, TasksReady
    <2> QED BY <2>1, <2>2
  <1> QED BY <1>2, <1>3 DEF TasksReady

\* A day more.
LEMMA MidnightShaped ==
  ASSUME Shaped, NEW d \in Devices, Midnight(d)
  PROVE  Shaped'
  <1>1. today' \in [Devices -> 1..MaxDay]
    BY ReviewAssumption DEF Shaped, Midnight
  <1>2. UNCHANGED <<reviews, seen, outbox, sheet, alert, task, confirmed,
                    taps>>
    BY DEF Midnight
  <1> QED BY <1>1, <1>2 DEF Shaped, TasksReady

\* A query sees a document of the name, or none.
LEMMA OverlaidType ==
  ASSUME Shaped, NEW d \in Devices, NEW n \in Names,
         NEW doc \in Review \cup {None}
  PROVE  Overlaid(d, n, doc) \in Review \cup {None}
  BY DeviceType, QueueType DEF Overlaid

\* What is found for a task that is querying.
LEMMA ServeQueryShaped ==
  ASSUME Shaped, NEW d \in Devices, NEW i \in Slots, ServeQuery(d, i)
  PROVE  Shaped'
  <1> DEFINE t == task[d][i]
  <1>1. /\ t \in Task /\ Ready(t, sheet[d]) /\ t.pc = "query"
        /\ t.name \in Names
        /\ UNCHANGED <<today, reviews, outbox, sheet, alert, confirmed, taps>>
    BY DeviceType DEF ServeQuery, Ready, Task
  <1>2. \E io \in {"done", "failed"}, doc \in Review \cup {None} :
          task' = [task EXCEPT ![d][i] = [t EXCEPT !.io = io, !.found = doc]]
    BY <1>1, DeviceType, OverlaidType DEF ServeQuery
  <1>3. PICK io \in {"done", "failed"}, doc \in Review \cup {None} :
          task' = [task EXCEPT ![d][i] = [t EXCEPT !.io = io, !.found = doc]]
    BY <1>2
  <1>4. Ready([t EXCEPT !.io = io, !.found = doc], sheet[d])
    BY <1>1 DEF Ready, Task
  <1>5. task' \in [Devices -> [Slots -> Task]] /\ TasksReady'
    BY <1>1, <1>3, <1>4, TaskStepShaped
  <1>6. seen' \in [Devices -> [Names -> Review \cup {None}]]
    <2>1. \/ seen' = seen
          \/ seen' = [seen EXCEPT ![d][t.name] = reviews[t.name]]
      BY DEF ServeQuery
    <2>2. reviews[t.name] \in Review \cup {None}
      BY <1>1 DEF Shaped
    <2> HIDE DEF t
    <2>3. seen \in [Devices -> [Names -> Review \cup {None}]]
      BY DEF Shaped
    <2>4. [seen EXCEPT ![d][t.name] = reviews[t.name]]
            \in [Devices -> [Names -> Review \cup {None}]]
      BY <1>1, <2>2, <2>3, TableUpdate, Zenon
    <2> QED BY <2>1, <2>3, <2>4
  <1> QED BY <1>1, <1>5, <1>6 DEF Shaped

\* Nothing but one queue of one device is replaced.
LEMMA QueueUpdate ==
  ASSUME Shaped, NEW d \in Devices, NEW n \in Names, NEW q \in Seq(Write),
         outbox' = [outbox EXCEPT ![d][n] = q]
  PROVE  /\ outbox' \in [Devices -> [Names -> Seq(Write)]]
         /\ outbox'[d][n] = q
         /\ \A m \in Names : m # n => outbox'[d][m] = outbox[d][m]
  BY DEF Shaped

\* A delivery files the review and marks the queue.
LEMMA ApplyWriteShaped ==
  ASSUME Shaped, NEW d \in Devices, NEW n \in Names, NEW j,
         ApplyWrite(d, n, j)
  PROVE  Shaped'
  <1> DEFINE q == outbox[d][n]
  <1>1. /\ q \in Seq(Write) /\ j \in 1..Len(q)
        /\ outbox' = [outbox EXCEPT ![d][n] = Marked(q, j)]
        /\ reviews' = [reviews EXCEPT ![n] = q[j].review]
        /\ UNCHANGED <<today, seen, sheet, alert, task, confirmed, taps>>
    BY DeviceType DEF ApplyWrite, Marked
  <1> HIDE DEF q
  <1>2. outbox' \in [Devices -> [Names -> Seq(Write)]]
    BY <1>1, MarkedQueue, QueueUpdate
  <1>3. reviews' \in [Names -> Review \cup {None}]
    BY <1>1, QueueType DEF Shaped
  <1> QED BY <1>1, <1>2, <1>3 DEF Shaped, TasksReady

\* A write leaves its queue and its task resumes.
LEMMA LeaveQueueShaped ==
  ASSUME Shaped, NEW d \in Devices, NEW n \in Names, LeaveQueue(d, n)
  PROVE  Shaped'
  <1> DEFINE q == outbox[d][n]
             w == Head(q)
  <1>1. /\ q \in Seq(Write) /\ q # <<>> /\ w \in Write
        /\ Tail(q) \in Seq(Write)
        /\ outbox' = [outbox EXCEPT ![d][n] = Tail(q)]
        /\ UNCHANGED <<today, reviews, sheet, alert, confirmed, taps>>
    BY DeviceType DEF LeaveQueue, Shaped
  <1>2. outbox' \in [Devices -> [Names -> Seq(Write)]]
    BY <1>1, QueueUpdate
  <1>3. seen' \in [Devices -> [Names -> Review \cup {None}]]
    <2>1. \/ seen' = seen
          \/ seen' = [seen EXCEPT ![d][n] = w.review]
      BY DEF LeaveQueue
    <2>2. w.review \in Review \cup {None}
      BY <1>1 DEF Write
    <2> HIDE DEF w
    <2>3. seen \in [Devices -> [Names -> Review \cup {None}]]
      BY DEF Shaped
    <2>4. [seen EXCEPT ![d][n] = w.review]
            \in [Devices -> [Names -> Review \cup {None}]]
      BY <2>2, <2>3, TableUpdate, Zenon
    <2> QED BY <2>1, <2>3, <2>4
  <1>4. task' \in [Devices -> [Slots -> Task]] /\ TasksReady'
    <2>1. CASE task' = task
      BY <1>1, <2>1 DEF Shaped, TasksReady
    <2>2. CASE task' # task
      <3>1. w.by \in Slots
            /\ \E io \in {"done", "failed"} :
                 task' = [task EXCEPT ![d][w.by].io = io]
        BY <1>1, <2>2 DEF LeaveQueue, Write
      <3>2. PICK io \in {"done", "failed"} :
              task' = [task EXCEPT ![d][w.by].io = io]
        BY <3>1
      <3> DEFINE t == [task[d][w.by] EXCEPT !.io = io]
      <3>3. task' = [task EXCEPT ![d][w.by] = t]
        BY <3>1, <3>2 DEF Shaped
      <3>4. Ready(t, sheet[d])
        <4>1. Ready(task[d][w.by], sheet[d])
          BY <3>1, DeviceType
        <4> QED BY <4>1 DEF Ready, Task
      <3> HIDE DEF t, w
      <3> QED BY <1>1, <3>1, <3>3, <3>4, TaskStepShaped
    <2> QED BY <2>1, <2>2
  <1> QED BY <1>1, <1>2, <1>3, <1>4 DEF Shaped

\* The view and its tasks are gone; the queues lose their tasks.
LEMMA CrashShaped ==
  ASSUME Shaped, NEW d \in Devices, Crash(d)
  PROVE  Shaped'
  <1>1. UNCHANGED <<today, reviews, seen, confirmed, taps>>
    BY DEF Crash
  <1>2. /\ \A e \in Devices \ {d} : /\ outbox'[e] = outbox[e]
                                    /\ task'[e] = task[e]
                                    /\ sheet'[e] = sheet[e]
                                    /\ alert'[e] = alert[e]
        /\ outbox'[d] = [n \in Names |-> Orphaned(outbox[d][n])]
        /\ task'[d] = [i \in Slots |-> NoTask]
        /\ sheet'[d] = None /\ alert'[d] = "none"
        /\ outbox' = [outbox EXCEPT ![d] = outbox'[d]]
        /\ task' = [task EXCEPT ![d] = task'[d]]
    BY DEF Crash, Shaped, Orphaned
  <1>3. outbox' \in [Devices -> [Names -> Seq(Write)]]
    <2>1. outbox'[d] \in [Names -> Seq(Write)]
      BY <1>2, DeviceType, OrphanedQueue
    <2> QED BY <1>2, <2>1 DEF Shaped
  <1>4. task' \in [Devices -> [Slots -> Task]]
    <2>1. NoTask \in Task
      BY NoTaskReady DEF Ready
    <2>2. task'[d] \in [Slots -> Task]
      BY <1>2, <2>1
    <2>3. task' = [task EXCEPT ![d] = task'[d]]
      BY <1>2
    <2> QED BY <2>2, <2>3 DEF Shaped
  <1>5. TasksReady'
    <2>1. ASSUME NEW e \in Devices, NEW i \in Slots
          PROVE  Ready(task'[e][i], sheet'[e])
      <3>1. CASE e = d
        BY <1>2, <3>1, NoTaskReady
      <3>2. CASE e # d
        BY <1>2, <3>2 DEF Shaped, TasksReady
      <3> QED BY <3>1, <3>2
    <2> QED BY <2>1 DEF TasksReady
  <1>6. /\ sheet' \in [Devices -> Names \cup {None}]
        /\ alert' \in [Devices -> Alerts]
        /\ \A e \in Devices : alert'[e] # "none" => sheet'[e] # None
    BY DEF Crash, Shaped, Alerts
  <1> QED BY <1>1, <1>3, <1>4, <1>5, <1>6 DEF Shaped

\* The sheet opens: no task reports to it yet.
LEMMA OpenSheetShaped ==
  ASSUME Shaped, NEW d \in Devices, NEW n \in Names, OpenSheet(d, n)
  PROVE  Shaped'
  <1>1. /\ UNCHANGED <<today, reviews, seen, outbox, task, confirmed, taps>>
        /\ \A e \in Devices : sheet[e] # None => sheet'[e] # None
    BY ReviewAssumption DEF OpenSheet, Shaped
  <1>2. TasksReady'
    <2>1. ASSUME NEW e \in Devices, NEW i \in Slots
          PROVE  Ready(task'[e][i], sheet'[e])
      <3>1. Ready(task[e][i], sheet[e])
        BY DeviceType
      <3> QED BY <1>1, <3>1 DEF Ready
    <2> QED BY <2>1 DEF TasksReady
  <1>3. /\ sheet' \in [Devices -> Names \cup {None}]
        /\ alert' \in [Devices -> Alerts]
        /\ \A e \in Devices : alert'[e] # "none" => sheet'[e] # None
    BY ReviewAssumption DEF OpenSheet, Shaped, Alerts
  <1> QED BY <1>1, <1>2, <1>3 DEF Shaped

\* The sheet closes: its tasks have nowhere to report to.
LEMMA CloseSheetShaped ==
  ASSUME Shaped, NEW d \in Devices, CloseSheet(d)
  PROVE  Shaped'
  <1> DEFINE F == [i \in Slots |-> [task[d][i] EXCEPT !.live = FALSE]]
  <1>1. /\ UNCHANGED <<today, reviews, seen, outbox, confirmed, taps>>
        /\ task' = [task EXCEPT ![d] = F]
    BY DEF CloseSheet, Shaped
  <1>2. ASSUME NEW i \in Slots
        PROVE  Ready(F[i], None) /\ F[i] \in Task
    <2>1. Ready(task[d][i], sheet[d])
      BY DeviceType
    <2> QED BY <2>1 DEF Ready, Task
  <1>3. F \in [Slots -> Task]
    BY <1>2
  <1> HIDE DEF F
  <1>4. /\ task' \in [Devices -> [Slots -> Task]]
        /\ task'[d] = F /\ \A e \in Devices \ {d} : task'[e] = task[e]
    BY <1>1, <1>3 DEF Shaped
  <1>5. /\ sheet' \in [Devices -> Names \cup {None}]
        /\ alert' \in [Devices -> Alerts]
        /\ sheet'[d] = None
        /\ \A e \in Devices \ {d} : sheet'[e] = sheet[e]
        /\ \A e \in Devices : alert'[e] # "none" => sheet'[e] # None
    BY DEF CloseSheet, Shaped, Alerts
  <1>6. TasksReady'
    <2>1. ASSUME NEW e \in Devices, NEW i \in Slots
          PROVE  Ready(task'[e][i], sheet'[e])
      <3>1. CASE e = d
        BY <1>2, <1>4, <1>5, <3>1
      <3>2. CASE e # d
        BY <1>4, <1>5, <3>2, DeviceType
      <3> QED BY <3>1, <3>2
    <2> QED BY <2>1 DEF TasksReady
  <1> QED BY <1>1, <1>4, <1>5, <1>6 DEF Shaped

\* OK on the error alert.
LEMMA DismissErrorShaped ==
  ASSUME Shaped, NEW d \in Devices, DismissError(d)
  PROVE  Shaped'
  BY DEF DismissError, Shaped, Alerts, TasksReady

\* The task that a tap starts.
Asking(name, note, live) ==
  [NoTask EXCEPT !.pc = "query", !.io = "sent", !.name = name, !.note = note,
                 !.live = live]

\* It may report to the sheet it was started from.
LEMMA AskingReady ==
  ASSUME NEW name \in Names, NEW note \in 1..MaxTaps, NEW live \in BOOLEAN
  PROVE  Ready(Asking(name, note, live), name)
  <1> DEFINE t == Asking(name, note, live)
  <1>1. note \in 0..MaxTaps /\ note # 0 /\ 0 \in 0..MaxDay /\ name # None
    BY ReviewAssumption
  <1>2. /\ t \in Task /\ t.pc = "query" /\ t.name = name /\ t.note = note
    BY <1>1 DEF Asking, NoTask, Task
  <1> HIDE DEF t
  <1>3. Ready(t, name)
    BY <1>1, <1>2 DEF Ready
  <1> QED BY <1>3 DEF t

\* A tap starts a task that reports to the open sheet.
LEMMA TapSubmitShaped ==
  ASSUME Shaped, NEW d \in Devices, NEW i \in Slots, TapSubmit(d, i)
  PROVE  Shaped'
  <1> DEFINE t == Asking(sheet[d], taps + 1, TRUE)
  <1>1. /\ UNCHANGED <<today, reviews, seen, outbox, sheet, alert, confirmed>>
        /\ task' = [task EXCEPT ![d][i] = t]
    BY DEF TapSubmit, Asking
  <1>2. /\ taps' \in 0..MaxTaps /\ taps + 1 \in 1..MaxTaps
        /\ sheet[d] \in Names
    BY ReviewAssumption DEF TapSubmit, Shaped
  <1>3. TRUE \in BOOLEAN
    OBVIOUS
  <1>4. Ready(t, sheet[d])
    BY <1>2, <1>3, AskingReady, Zenon
  <1> HIDE DEF t
  <1>5. task' \in [Devices -> [Slots -> Task]] /\ TasksReady'
    BY <1>1, <1>4, TaskStepShaped
  <1> QED BY <1>1, <1>2, <1>5 DEF Shaped

\* A task that ends may raise an alert, on its own sheet.
LEMMA FinishShaped ==
  ASSUME Shaped, NEW d \in Devices, NEW i \in Slots, NEW outcome \in Alerts,
         Finish(d, i, outcome), UNCHANGED sheet
  PROVE  /\ task' \in [Devices -> [Slots -> Task]] /\ TasksReady'
         /\ alert' \in [Devices -> Alerts]
         /\ \A e \in Devices : alert'[e] # "none" => sheet'[e] # None
  <1>1. task' \in [Devices -> [Slots -> Task]] /\ TasksReady'
    BY NoTaskReady, TaskStepShaped DEF Finish
  <1>2. task[d][i].live => sheet[d] # None
    BY DeviceType DEF Ready
  <1>3. /\ alert' \in [Devices -> Alerts]
        /\ \A e \in Devices : alert'[e] # "none" => sheet'[e] # None
    BY <1>2 DEF Finish, Shaped
  <1> QED BY <1>1, <1>3

\* The query came back: the task ends, or writes.
LEMMA QueryReplyShaped ==
  ASSUME Shaped, NEW d \in Devices, NEW i \in Slots, QueryReply(d, i)
  PROVE  Shaped'
  <1> DEFINE t == task[d][i]
             w == [by |-> i, due |-> FALSE,
                   review |-> [date |-> today[d], note |-> t.note,
                               phone |-> d]]
             s == [t EXCEPT !.pc = "write", !.io = "sent", !.date = today[d]]
  <1>1. /\ UNCHANGED <<today, reviews, seen, sheet, confirmed, taps>>
        /\ t.pc = "query" /\ Ready(t, sheet[d]) /\ t.name \in Names
        /\ t.note \in 1..MaxTaps /\ today[d] \in 1..MaxDay
    <2>1. Ready(t, sheet[d]) /\ today[d] \in 1..MaxDay
      BY DeviceType
    <2>2. t.pc = "query"
          /\ UNCHANGED <<today, reviews, seen, sheet, confirmed, taps>>
      BY DEF QueryReply
    <2> HIDE DEF t
    <2> QED BY <2>1, <2>2, ReadyParts
  <1>2. \/ \E outcome \in Alerts : Finish(d, i, outcome) /\ UNCHANGED outbox
        \/ /\ outbox' = [outbox EXCEPT ![d][t.name] = Append(@, w)]
           /\ task' = [task EXCEPT ![d][i] = s]
           /\ UNCHANGED alert
    BY DEF QueryReply, Alerts
  <1>3. CASE \E outcome \in Alerts :
               Finish(d, i, outcome) /\ UNCHANGED outbox
    BY <1>1, <1>3, FinishShaped DEF Shaped
  <1>4. CASE /\ outbox' = [outbox EXCEPT ![d][t.name] = Append(@, w)]
             /\ task' = [task EXCEPT ![d][i] = s]
             /\ UNCHANGED alert
    <2>1. Ready(s, sheet[d])
      <3>1. today[d] \in 0..MaxDay /\ today[d] # 0 /\ t \in Task
        BY <1>1 DEF Ready
      <3> HIDE DEF t
      <3>2. /\ s \in Task /\ s.pc = "write" /\ s.date = today[d]
            /\ s.name = t.name /\ s.note = t.note /\ s.live = t.live
        BY <3>1 DEF Task
      <3> QED BY <1>1, <3>1, <3>2 DEF Ready
    <2>2. w \in Write
      BY <1>1 DEF Write, Review
    <2> HIDE DEF s, w, t
    <2>3. task' \in [Devices -> [Slots -> Task]] /\ TasksReady'
      BY <1>1, <1>4, <2>1, TaskStepShaped
    <2>4. outbox' \in [Devices -> [Names -> Seq(Write)]]
      BY <1>1, <1>4, <2>2 DEF Shaped
    <2> QED BY <1>1, <1>4, <2>3, <2>4 DEF Shaped
  <1> QED BY <1>2, <1>3, <1>4

\* The write came back.
LEMMA WriteReplyShaped ==
  ASSUME Shaped, NEW d \in Devices, NEW i \in Slots, WriteReply(d, i)
  PROVE  Shaped'
  <1> DEFINE t == task[d][i]
  <1>1. /\ UNCHANGED <<today, reviews, seen, outbox, sheet, taps>>
        /\ t.pc = "write" /\ Ready(t, sheet[d]) /\ t.name \in Names
        /\ t.note \in 1..MaxTaps /\ t.date \in 1..MaxDay
    BY DeviceType, ReviewAssumption DEF WriteReply, Ready, Task
  <1>2. confirmed' \subseteq [name : Names, review : Review]
    BY <1>1 DEF WriteReply, Shaped, Review
  <1>3. \E outcome \in Alerts : Finish(d, i, outcome)
    BY DEF WriteReply, Alerts
  <1> QED BY <1>1, <1>2, <1>3, FinishShaped DEF Shaped

\* Every step keeps the shape.
LEMMA NextShaped ==
  ASSUME Shaped, [Next]_vars
  PROVE  Shaped'
  <1>1. CASE UNCHANGED vars
    BY <1>1 DEF vars, Shaped, TasksReady
  <1>2. CASE Next
    <2> PICK d \in Devices :
          \/ Midnight(d)
          \/ \E n \in Names :
               \/ \E j \in 1..Len(outbox[d][n]) : ApplyWrite(d, n, j)
               \/ LeaveQueue(d, n)
          \/ Crash(d)
          \/ \E n \in Names : OpenSheet(d, n)
          \/ CloseSheet(d)
          \/ DismissError(d)
          \/ \E i \in Slots : TapSubmit(d, i) \/ TaskStep(d, i)
      BY <1>2, Zenon DEF Next
    <2>1. CASE Midnight(d) \/ Crash(d) \/ CloseSheet(d) \/ DismissError(d)
      BY <2>1, MidnightShaped, CrashShaped, CloseSheetShaped,
         DismissErrorShaped
    <2>2. CASE \E n \in Names :
                 \/ \E j \in 1..Len(outbox[d][n]) : ApplyWrite(d, n, j)
                 \/ LeaveQueue(d, n)
      BY <2>2, ApplyWriteShaped, LeaveQueueShaped, Zenon
    <2>3. CASE \E n \in Names : OpenSheet(d, n)
      BY <2>3, OpenSheetShaped
    <2>4. CASE \E i \in Slots : TapSubmit(d, i) \/ TaskStep(d, i)
      BY <2>4, TapSubmitShaped, ServeQueryShaped, QueryReplyShaped,
         WriteReplyShaped DEF TaskStep
    <2> QED BY <2>1, <2>2, <2>3, <2>4
  <1> QED BY <1>1, <1>2

\* The shape is kept for ever.
LEMMA ShapedAlways == Spec => []Shaped
  BY InitShaped, NextShaped, PTL DEF Spec

\* Reviews, caches, queues and tasks keep their shape, and an alert is one of
\* an open sheet, for every number of phones and of submissions in flight.
THEOREM TypeCorrect == Spec => []TypeOK
  <1>1. Shaped => TypeOK
    BY DEF Shaped, TypeOK, Write, Task, Alerts
  <1> QED BY <1>1, ShapedAlways, PTL

-----------------------------------------------------------------------------
(***************************************************************************)
(* What was confirmed stays on file.  ConfirmedOnFile alone is not         *)
(* inductive: an older review could wait in the queue of the phone, or be  *)
(* the one that is due to be acknowledged.  A phone's queue for a name is  *)
(* in the order of days, so what is behind an acknowledged write is not    *)
(* older than it.                                                          *)
(***************************************************************************)

\* The queue of phone d for a name: its own reviews, in the order of days; a
\* write that is due is on file, or one of this phone not older, or one of
\* another phone.
QueueSound(q, file, d, day) ==
  /\ \A k \in 1..Len(q) : /\ q[k].review.phone = d
                          /\ q[k].review.date <= day
                          /\ q[k].due => /\ file # None
                                         /\ file.phone = d =>
                                              q[k].review.date <= file.date
  /\ \A k, l \in 1..Len(q) : k <= l => q[k].review.date <= q[l].review.date

\* Phone d neither has on file nor will send anything older than day f.
Behind(q, file, d, f, day) ==
  /\ file # None
  /\ file.phone = d => f <= file.date
  /\ \A k \in 1..Len(q) : f <= q[k].review.date
  /\ f <= day

\* The dates of reviews are days, their phones are phones.
LEMMA ReviewParts ==
  \A r \in Review : r # None /\ r.date \in Nat /\ r.phone \in Devices
  BY NoneAssumption DEF Review

\* The reviews of a queue, likewise.
LEMMA QueueParts ==
  ASSUME NEW q \in Seq(Write)
  PROVE  /\ Len(q) \in Nat
         /\ \A k \in 1..Len(q) : /\ q[k] \in Write
                                 /\ q[k].review \in Review
                                 /\ q[k].review # None
                                 /\ q[k].review.date \in Nat
  BY QueueType, ReviewParts

\* The backend gets a write of the phone's queue.
LEMMA MarkedSound ==
  ASSUME NEW q \in Seq(Write), NEW j \in 1..Len(q), NEW d, NEW day \in Nat,
         NEW file, QueueSound(q, file, d, day)
  PROVE  /\ QueueSound(Marked(q, j), q[j].review, d, day)
         /\ \A f \in Nat : Behind(q, file, d, f, day) =>
                             Behind(Marked(q, j), q[j].review, d, f, day)
  <1>1. Len(Marked(q, j)) = Len(q)
    BY MarkedQueue
  <1>2. \A k \in 1..Len(q) : /\ Marked(q, j)[k].review = q[k].review
                             /\ Marked(q, j)[k].due => k <= j
    BY MarkedQueue
  <1>3. QueueSound(Marked(q, j), q[j].review, d, day)
    BY <1>1, <1>2, QueueParts DEF QueueSound
  <1>4. \A f \in Nat : Behind(q, file, d, f, day) =>
                         Behind(Marked(q, j), q[j].review, d, f, day)
    BY <1>1, <1>2, QueueParts DEF Behind
  <1> QED BY <1>3, <1>4

\* Another phone's write is filed.
LEMMA ForeignSound ==
  ASSUME NEW q \in Seq(Write), NEW d, NEW day \in Nat, NEW file,
         NEW file2 \in Review, file2.phone # d, QueueSound(q, file, d, day)
  PROVE  /\ QueueSound(q, file2, d, day)
         /\ \A f \in Nat : Behind(q, file, d, f, day) =>
                             Behind(q, file2, d, f, day)
  BY ReviewParts DEF QueueSound, Behind

\* What is left when the oldest write leaves.
LEMMA TailQueue ==
  ASSUME NEW q \in Seq(Write), q # <<>>
  PROVE  /\ Tail(q) \in Seq(Write) /\ Len(Tail(q)) = Len(q) - 1
         /\ \A k \in 1..Len(Tail(q)) : Tail(q)[k] = q[k + 1]
         /\ \A k \in 1..Len(Tail(q)) : k + 1 \in 1..Len(q)
         /\ Head(q) = q[1] /\ 1 \in 1..Len(q)
  <1>1. Len(q) \in Nat /\ Len(q) > 0
    BY EmptySeq
  <1> QED BY <1>1, EmptySeq

\* The oldest write leaves; when it was due, nothing older comes after it.
LEMMA TailSound ==
  ASSUME NEW q \in Seq(Write), q # <<>>, NEW d, NEW day \in Nat,
         NEW file, QueueSound(q, file, d, day)
  PROVE  /\ QueueSound(Tail(q), file, d, day)
         /\ \A f \in Nat : Behind(q, file, d, f, day) =>
                             Behind(Tail(q), file, d, f, day)
         /\ q[1].due => Behind(Tail(q), file, d, q[1].review.date, day)
  <1>1. /\ Len(Tail(q)) = Len(q) - 1 /\ Len(q) \in Nat
        /\ 1 \in 1..Len(q)
        /\ \A k \in 1..Len(Tail(q)) :
             /\ k + 1 \in 1..Len(q) /\ Tail(q)[k] = q[k + 1]
    BY TailQueue
  <1>2. QueueSound(Tail(q), file, d, day)
    BY <1>1, QueueParts DEF QueueSound
  <1>3. \A f \in Nat : Behind(q, file, d, f, day) =>
                         Behind(Tail(q), file, d, f, day)
    BY <1>1 DEF Behind
  <1>4. q[1].due => Behind(Tail(q), file, d, q[1].review.date, day)
    <2> SUFFICES ASSUME q[1].due
                 PROVE  Behind(Tail(q), file, d, q[1].review.date, day)
      OBVIOUS
    <2>1. \A k \in 1..Len(Tail(q)) :
            q[1].review.date <= Tail(q)[k].review.date
      <3> SUFFICES ASSUME NEW k \in 1..Len(Tail(q))
                   PROVE  q[1].review.date <= Tail(q)[k].review.date
        OBVIOUS
      <3>1. k + 1 \in 1..Len(q) /\ Tail(q)[k] = q[k + 1] /\ 1 <= k + 1
        BY <1>1
      <3> QED BY <1>1, <3>1 DEF QueueSound
    <2>2. /\ q[1].review.date <= day
          /\ file # None
          /\ file.phone = d => q[1].review.date <= file.date
      BY <1>1 DEF QueueSound
    <2> QED BY <2>1, <2>2 DEF Behind
  <1> QED BY <1>2, <1>3, <1>4

\* A write of today joins the queue.
LEMMA AppendSound ==
  ASSUME NEW q \in Seq(Write), NEW w \in Write, NEW d, NEW day \in Nat,
         NEW file, QueueSound(q, file, d, day),
         w.review.phone = d, w.review.date = day, ~w.due
  PROVE  /\ QueueSound(Append(q, w), file, d, day)
         /\ \A f \in Nat : Behind(q, file, d, f, day) =>
                             Behind(Append(q, w), file, d, f, day)
  <1> DEFINE a == Append(q, w)
  <1>1. /\ Len(q) \in Nat /\ Len(a) = Len(q) + 1
        /\ \A k \in 1..Len(q) : a[k] = q[k]
        /\ a[Len(q) + 1] = w
    OBVIOUS
  <1>2. \A k \in 1..Len(a) : k \in 1..Len(q) \/ k = Len(q) + 1
    BY <1>1
  <1> HIDE DEF a
  <1>3. QueueSound(a, file, d, day)
    <2>1. \A k \in 1..Len(a) :
            /\ a[k].review.phone = d
            /\ a[k].review.date <= day
            /\ a[k].due => /\ file # None
                           /\ file.phone = d =>
                                a[k].review.date <= file.date
      BY <1>1, <1>2, QueueParts DEF QueueSound
    <2>2. ASSUME NEW k \in 1..Len(a), NEW l \in 1..Len(a), k <= l
          PROVE  a[k].review.date <= a[l].review.date
      <3>1. CASE l = Len(q) + 1
        BY <1>1, <2>1, <3>1
      <3>2. CASE l \in 1..Len(q)
        <4>1. k \in 1..Len(q)
          BY <1>1, <2>2, <3>2
        <4> QED BY <1>1, <2>2, <3>2, <4>1 DEF QueueSound
      <3> QED BY <1>2, <3>1, <3>2
    <2> QED BY <2>1, <2>2 DEF QueueSound
  <1>4. \A f \in Nat : Behind(q, file, d, f, day) =>
                         Behind(a, file, d, f, day)
    BY <1>1, <1>2 DEF Behind
  <1> QED BY <1>3, <1>4 DEF a

\* A crash only orphans the writes.
LEMMA OrphanedSound ==
  ASSUME NEW q \in Seq(Write), NEW d, NEW day, NEW file,
         QueueSound(q, file, d, day)
  PROVE  /\ QueueSound(Orphaned(q), file, d, day)
         /\ \A f \in Nat : Behind(q, file, d, f, day) =>
                             Behind(Orphaned(q), file, d, f, day)
  <1>1. Len(Orphaned(q)) = Len(q)
    BY OrphanedQueue
  <1>2. \A k \in 1..Len(q) : /\ Orphaned(q)[k].review = q[k].review
                             /\ Orphaned(q)[k].due = q[k].due
    BY OrphanedQueue
  <1>3. QueueSound(Orphaned(q), file, d, day)
    BY <1>1, <1>2 DEF QueueSound
  <1>4. \A f \in Nat : Behind(q, file, d, f, day) =>
                         Behind(Orphaned(q), file, d, f, day)
    BY <1>1, <1>2 DEF Behind
  <1> QED BY <1>3, <1>4

\* A day passes.
LEMMA LaterSound ==
  ASSUME NEW q \in Seq(Write), NEW d, NEW day \in Nat, NEW day2 \in Nat,
         day <= day2, NEW file, QueueSound(q, file, d, day)
  PROVE  /\ QueueSound(q, file, d, day2)
         /\ \A f \in Nat : Behind(q, file, d, f, day) =>
                             Behind(q, file, d, f, day2)
  BY QueueParts DEF QueueSound, Behind

-----------------------------------------------------------------------------
(* Tasks and the writes they await *)

Boxes == [Names -> Seq(Write)]
Files == [Names -> Review \cup {None}]

\* The task that awaits a write is there, waiting.
AwaitedBy(w, n, tasks) ==
  w.by # None => LET t == tasks[w.by] IN
    /\ t.pc = "write" /\ t.io = "sent"
    /\ t.name = n /\ t.date = w.review.date

\* Two writes with the same task are the same write.
SameTask(box, m, k, n, l) ==
  (box[m][k].by # None /\ box[m][k].by = box[n][l].by) => m = n /\ k = l

\* Every write that has a task is awaited, and a task awaits one write.
WritesAwaited(box, tasks) ==
  /\ \A n \in Names : \A k \in 1..Len(box[n]) :
       AwaitedBy(box[n][k], n, tasks)
  /\ \A m, n \in Names : \A k \in 1..Len(box[m]), l \in 1..Len(box[n]) :
       SameTask(box, m, k, n, l)

\* What a task whose write was acknowledged may confirm.
TaskSound(t, box, files, d, day) ==
  t.pc = "write" =>
    /\ t.date <= day
    /\ t.io = "done" => Behind(box[t.name], files[t.name], d, t.date, day)

\* What phone d has confirmed.
ConfirmedSound(conf, box, files, d, day) ==
  \A c \in conf : c.review.phone = d =>
    Behind(box[c.name], files[c.name], d, c.review.date, day)

PhoneSound(d) ==
  /\ \A n \in Names : QueueSound(outbox[d][n], reviews[n], d, today[d])
  /\ WritesAwaited(outbox[d], task[d])
  /\ \A i \in Slots :
       TaskSound(task[d][i], outbox[d], reviews, d, today[d])
  /\ ConfirmedSound(confirmed, outbox[d], reviews, d, today[d])

OnFile == \A d \in Devices : PhoneSound(d)

\* A step keeps the queues of phone d sound and loses no ground.
Steady(box, files, box2, files2, d, day, day2) ==
  \A n \in Names :
    /\ QueueSound(box2[n], files2[n], d, day2)
    /\ \A f \in Nat : Behind(box[n], files[n], d, f, day) =>
                        Behind(box2[n], files2[n], d, f, day2)

SteadyAt(d) ==
  /\ Steady(outbox[d], reviews, outbox'[d], reviews', d, today[d], today'[d])
  /\ today[d] <= today'[d]

\* Ground kept is kept for tasks.
LEMMA TaskAges ==
  ASSUME NEW t \in Task, NEW open, Ready(t, open), NEW box, NEW files,
         NEW box2, NEW files2, NEW d, NEW day \in Nat, NEW day2 \in Nat,
         Steady(box, files, box2, files2, d, day, day2), day <= day2,
         TaskSound(t, box, files, d, day)
  PROVE  TaskSound(t, box2, files2, d, day2)
  <1> SUFFICES ASSUME t.pc = "write"
               PROVE  TaskSound(t, box2, files2, d, day2)
    BY DEF TaskSound
  <1>1. t.name \in Names /\ t.date \in Nat
    BY ReadyParts, ReviewAssumption
  <1>2. t.date <= day2
    BY <1>1 DEF TaskSound
  <1> QED BY <1>1, <1>2 DEF TaskSound, Steady

\* And for what was confirmed.
LEMMA ConfirmedAges ==
  ASSUME NEW conf \in SUBSET [name : Names, review : Review], NEW box,
         NEW files, NEW box2, NEW files2, NEW d, NEW day, NEW day2,
         Steady(box, files, box2, files2, d, day, day2),
         ConfirmedSound(conf, box, files, d, day)
  PROVE  ConfirmedSound(conf, box2, files2, d, day2)
  <1>1. \A c \in conf : c.name \in Names /\ c.review.date \in Nat
    BY ReviewParts
  <1> QED BY <1>1 DEF ConfirmedSound, Steady

\* Nothing changes for a phone.
LEMMA SteadySame ==
  ASSUME OnFile, NEW d \in Devices, Shaped, outbox'[d] = outbox[d],
         reviews' = reviews, today'[d] = today[d]
  PROVE  SteadyAt(d)
  <1>1. \A n \in Names : QueueSound(outbox[d][n], reviews[n], d, today[d])
    BY DEF OnFile, PhoneSound
  <1>2. today[d] \in Nat
    BY DeviceType
  <1> QED BY <1>1, <1>2 DEF SteadyAt, Steady

\* A task is where it was, as far as its write goes.
SameWrite(t, t2) ==
  t2.pc = t.pc /\ t2.io = t.io /\ t2.name = t.name /\ t2.date = t.date

\* Tasks that wait for their writes still do.
LEMMA StillAwaited ==
  ASSUME NEW box \in Boxes, NEW tasks, NEW tasks2,
         WritesAwaited(box, tasks),
         \A i \in Slots : (tasks[i].pc = "write" /\ tasks[i].io = "sent")
                            => SameWrite(tasks[i], tasks2[i])
  PROVE  WritesAwaited(box, tasks2)
  <1> SUFFICES ASSUME NEW n \in Names, NEW k \in 1..Len(box[n])
               PROVE  AwaitedBy(box[n][k], n, tasks2)
    BY DEF WritesAwaited
  <1>1. AwaitedBy(box[n][k], n, tasks)
    BY DEF WritesAwaited
  <1>2. box[n][k].by \in Slots \cup {None}
    <2>1. box[n][k] \in Write
      BY QueueType DEF Boxes
    <2> QED BY <2>1 DEF Write
  <1> QED BY <1>1, <1>2 DEF AwaitedBy, SameWrite

\* The same writes with the same tasks, or with none, are awaited the same.
LEMMA SameAwaited ==
  ASSUME NEW box \in Boxes, NEW box2 \in Boxes, NEW tasks, NEW n \in Names,
         WritesAwaited(box, tasks),
         \A m \in Names \ {n} : box2[m] = box[m],
         Len(box2[n]) = Len(box[n]),
         \A k \in 1..Len(box[n]) : /\ box2[n][k].by = box[n][k].by
                                   /\ box2[n][k].review = box[n][k].review
  PROVE  WritesAwaited(box2, tasks)
  <1>1. \A m \in Names : Len(box2[m]) = Len(box[m])
    OBVIOUS
  <1>2. \A m \in Names : \A k \in 1..Len(box[m]) :
          /\ box2[m][k].by = box[m][k].by
          /\ box2[m][k].review = box[m][k].review
    OBVIOUS
  <1>3. ASSUME NEW m \in Names, NEW k \in 1..Len(box2[m])
        PROVE  AwaitedBy(box2[m][k], m, tasks)
    <2>1. k \in 1..Len(box[m])
      BY <1>1
    <2>2. AwaitedBy(box[m][k], m, tasks)
      BY <2>1 DEF WritesAwaited
    <2> QED BY <1>2, <2>1, <2>2 DEF AwaitedBy
  <1>4. ASSUME NEW m1 \in Names, NEW m2 \in Names,
               NEW k \in 1..Len(box2[m1]), NEW l \in 1..Len(box2[m2])
        PROVE  SameTask(box2, m1, k, m2, l)
    <2>1. k \in 1..Len(box[m1]) /\ l \in 1..Len(box[m2])
      BY <1>1
    <2>2. SameTask(box, m1, k, m2, l)
      BY <2>1 DEF WritesAwaited
    <2> QED BY <1>2, <2>1, <2>2 DEF SameTask
  <1> QED BY <1>3, <1>4 DEF WritesAwaited

\* When the oldest write leaves, the others are awaited as before.
LEMMA TailAwaited ==
  ASSUME NEW box \in Boxes, NEW box2 \in Boxes, NEW tasks,
         NEW n \in Names, box[n] # <<>>, WritesAwaited(box, tasks),
         box2[n] = Tail(box[n]),
         \A m \in Names \ {n} : box2[m] = box[m],
         NEW tasks2,
         \A i \in Slots \ {box[n][1].by} : tasks2[i] = tasks[i]
  PROVE  WritesAwaited(box2, tasks2)
  <1> DEFINE at(m, k) == IF m = n THEN k + 1 ELSE k
  <1>1. /\ box[n] \in Seq(Write) /\ box2[n] \in Seq(Write)
        /\ 1 \in 1..Len(box[n]) /\ Len(box2[n]) \in Nat
    BY TailQueue DEF Boxes
  <1>2. ASSUME NEW m \in Names, NEW k \in 1..Len(box2[m])
        PROVE  /\ at(m, k) \in 1..Len(box[m])
               /\ box2[m][k] = box[m][at(m, k)]
               /\ m = n => at(m, k) # 1
    <2>1. CASE m = n
      <3>1. k \in 1..Len(Tail(box[n]))
        BY <2>1
      <3>2. k + 1 \in 1..Len(box[n]) /\ Tail(box[n])[k] = box[n][k + 1]
        BY <1>1, <3>1, TailQueue
      <3>3. k + 1 # 1
        BY <1>1, <2>1
      <3> QED BY <2>1, <3>2, <3>3
    <2>2. CASE m # n
      BY <2>2
    <2> QED BY <2>1, <2>2
  <1>3. ASSUME NEW m \in Names, NEW k \in 1..Len(box2[m]),
               NEW l \in 1..Len(box2[m]), at(m, k) = at(m, l)
        PROVE  k = l
    BY <1>1, <1>3
  <1> HIDE DEF at
  <1>4. ASSUME NEW m \in Names, NEW k \in 1..Len(box2[m]),
               box2[m][k].by # None
        PROVE  AwaitedBy(box2[m][k], m, tasks2)
    <2>1. AwaitedBy(box2[m][k], m, tasks)
      BY <1>2 DEF WritesAwaited
    <2>2. box2[m][k].by # box[n][1].by
      <3>1. /\ at(m, k) \in 1..Len(box[m])
            /\ box2[m][k] = box[m][at(m, k)]
            /\ m = n => at(m, k) # 1
        BY <1>2
      <3>2. SameTask(box, m, at(m, k), n, 1)
        BY <1>1, <3>1 DEF WritesAwaited
      <3> QED BY <1>4, <3>1, <3>2 DEF SameTask
    <2>3. box2[m][k].by \in Slots
      <3>1. box2[m] \in Seq(Write)
        BY DEF Boxes
      <3>2. box2[m][k] \in Write
        BY <3>1, QueueType
      <3> QED BY <1>4, <3>2 DEF Write
    <2> QED BY <1>4, <2>1, <2>2, <2>3 DEF AwaitedBy
  <1>5. ASSUME NEW m1 \in Names, NEW m2 \in Names,
               NEW k \in 1..Len(box2[m1]), NEW l \in 1..Len(box2[m2])
        PROVE  SameTask(box2, m1, k, m2, l)
    <2>1. /\ at(m1, k) \in 1..Len(box[m1])
          /\ box2[m1][k] = box[m1][at(m1, k)]
          /\ at(m2, l) \in 1..Len(box[m2])
          /\ box2[m2][l] = box[m2][at(m2, l)]
      BY <1>2
    <2>2. SameTask(box, m1, at(m1, k), m2, at(m2, l))
      BY <2>1 DEF WritesAwaited
    <2> QED BY <1>3, <2>1, <2>2 DEF SameTask
  <1>6. \A m \in Names : \A k \in 1..Len(box2[m]) :
          AwaitedBy(box2[m][k], m, tasks2)
    BY <1>4 DEF AwaitedBy
  <1> QED BY <1>5, <1>6 DEF WritesAwaited

-----------------------------------------------------------------------------
(* Every step *)

\* What is needed of a phone after a step that leaves its queues to Steady.
LEMMA PhoneStep ==
  ASSUME Shaped, Shaped', OnFile, NEW d \in Devices, SteadyAt(d),
         WritesAwaited(outbox'[d], task'[d]),
         \A i \in Slots :
           \/ SameWrite(task[d][i], task'[d][i])
           \/ TaskSound(task'[d][i], outbox'[d], reviews', d, today'[d]),
         confirmed' = confirmed
  PROVE  PhoneSound(d)'
  <1>1. /\ PhoneSound(d)
        /\ today[d] \in Nat /\ today'[d] \in Nat
        /\ confirmed \in SUBSET [name : Names, review : Review]
    BY DEF OnFile, Shaped
  <1>2. ASSUME NEW i \in Slots
        PROVE  TaskSound(task'[d][i], outbox'[d], reviews', d, today'[d])
    <2>1. /\ task[d][i] \in Task /\ Ready(task[d][i], sheet[d])
          /\ TaskSound(task[d][i], outbox[d], reviews, d, today[d])
      BY <1>1, DeviceType DEF PhoneSound
    <2>2. TaskSound(task[d][i], outbox'[d], reviews', d, today'[d])
      BY <1>1, <2>1, TaskAges DEF SteadyAt
    <2> QED BY <2>2 DEF TaskSound, SameWrite
  <1>3. ConfirmedSound(confirmed', outbox'[d], reviews', d, today'[d])
    BY <1>1, ConfirmedAges DEF SteadyAt, PhoneSound
  <1>4. \A n \in Names : QueueSound(outbox'[d][n], reviews'[n], d, today'[d])
    BY DEF SteadyAt, Steady
  <1> QED BY <1>2, <1>3, <1>4 DEF PhoneSound

\* A phone is not touched by another one's step that files nothing.
LEMMA OtherPhone ==
  ASSUME Shaped, Shaped', OnFile, NEW d \in Devices,
         outbox'[d] = outbox[d], reviews' = reviews, today'[d] = today[d],
         task'[d] = task[d], confirmed' = confirmed
  PROVE  PhoneSound(d)'
  <1>1. SteadyAt(d)
    BY SteadySame
  <1>2. WritesAwaited(outbox'[d], task'[d])
    BY DEF OnFile, PhoneSound
  <1>3. \A i \in Slots : SameWrite(task[d][i], task'[d][i])
    BY DEF SameWrite
  <1> QED BY <1>1, <1>2, <1>3, PhoneStep

\* A step of tasks that await nothing, or stay as they are.
LEMMA TasksStep ==
  ASSUME Shaped, Shaped', OnFile, NEW d \in Devices,
         \A i \in Slots : \/ SameWrite(task[d][i], task'[d][i])
                          \/ /\ task'[d][i].pc # "write"
                             /\ ~(task[d][i].pc = "write"
                                    /\ task[d][i].io = "sent"),
         \A e \in Devices \ {d} : task'[e] = task[e],
         UNCHANGED <<outbox, reviews, today, confirmed>>
  PROVE  OnFile'
  <1>1. PhoneSound(d)'
    <2>1. SteadyAt(d)
      BY SteadySame
    <2>2. outbox[d] \in Boxes /\ WritesAwaited(outbox[d], task[d])
      BY DEF OnFile, PhoneSound, Shaped, Boxes
    <2>3. WritesAwaited(outbox[d], task'[d])
      BY <2>2, StillAwaited
    <2>4. \A i \in Slots :
            \/ SameWrite(task[d][i], task'[d][i])
            \/ TaskSound(task'[d][i], outbox'[d], reviews', d, today'[d])
      BY DEF TaskSound
    <2> QED BY <2>1, <2>3, <2>4, PhoneStep
  <1>2. ASSUME NEW e \in Devices \ {d}
        PROVE  PhoneSound(e)'
    BY OtherPhone
  <1> QED BY <1>1, <1>2 DEF OnFile

\* The state at the start.
LEMMA InitOnFile == Init => OnFile
  <1> SUFFICES ASSUME Init, NEW d \in Devices PROVE PhoneSound(d)
    BY DEF OnFile
  <1>1. \A n \in Names : outbox[d][n] = <<>>
    BY DEF Init
  <1>2. Len(<<>>) = 0 /\ 1..0 = {}
    OBVIOUS
  <1>3. \A n \in Names : QueueSound(outbox[d][n], reviews[n], d, today[d])
    BY <1>1, <1>2 DEF QueueSound
  <1>4. WritesAwaited(outbox[d], task[d])
    BY <1>1, <1>2 DEF WritesAwaited
  <1>5. \A i \in Slots :
          TaskSound(task[d][i], outbox[d], reviews, d, today[d])
    BY DEF Init, NoTask, TaskSound
  <1>6. ConfirmedSound(confirmed, outbox[d], reviews, d, today[d])
    BY DEF Init, ConfirmedSound
  <1> QED BY <1>3, <1>4, <1>5, <1>6 DEF PhoneSound

\* A day passes on one phone.
LEMMA MidnightOnFile ==
  ASSUME Shaped, Shaped', OnFile, NEW d \in Devices, Midnight(d)
  PROVE  OnFile'
  <1>1. /\ UNCHANGED <<reviews, outbox, task, confirmed>>
        /\ today[d] \in Nat /\ today'[d] \in Nat /\ today[d] <= today'[d]
        /\ \A e \in Devices \ {d} : today'[e] = today[e]
    BY DEF Midnight, Shaped
  <1>2. SteadyAt(d)
    <2>1. ASSUME NEW n \in Names
          PROVE  /\ QueueSound(outbox[d][n], reviews[n], d, today'[d])
                 /\ \A f \in Nat :
                      Behind(outbox[d][n], reviews[n], d, f, today[d]) =>
                        Behind(outbox[d][n], reviews[n], d, f, today'[d])
      <3>1. /\ QueueSound(outbox[d][n], reviews[n], d, today[d])
            /\ outbox[d][n] \in Seq(Write)
        BY DeviceType DEF OnFile, PhoneSound
      <3> QED BY <1>1, <3>1, LaterSound
    <2> QED BY <1>1, <2>1 DEF SteadyAt, Steady
  <1>3. PhoneSound(d)'
    <2>1. WritesAwaited(outbox'[d], task'[d])
      BY <1>1 DEF OnFile, PhoneSound
    <2>2. \A i \in Slots : SameWrite(task[d][i], task'[d][i])
      BY <1>1 DEF SameWrite
    <2> QED BY <1>1, <1>2, <2>1, <2>2, PhoneStep
  <1>4. ASSUME NEW e \in Devices \ {d}
        PROVE  PhoneSound(e)'
    BY <1>1, OtherPhone
  <1> QED BY <1>3, <1>4 DEF OnFile

\* The view: its tasks keep their writes.
LEMMA SheetOnFile ==
  ASSUME Shaped, Shaped', OnFile, NEW d \in Devices,
         (\E n \in Names : OpenSheet(d, n)) \/ CloseSheet(d)
           \/ DismissError(d)
  PROVE  OnFile'
  <1>1. /\ UNCHANGED <<outbox, reviews, today, confirmed>>
        /\ \A e \in Devices \ {d} : task'[e] = task[e]
    BY DEF OpenSheet, CloseSheet, DismissError, Shaped
  <1>2. ASSUME NEW i \in Slots
        PROVE  SameWrite(task[d][i], task'[d][i])
    <2>1. CASE CloseSheet(d)
      <3>1. task'[d][i] = [task[d][i] EXCEPT !.live = FALSE]
        BY <2>1 DEF CloseSheet, Shaped
      <3>2. task[d][i] \in Task
        BY DeviceType
      <3> QED BY <3>1, <3>2 DEF SameWrite, Task
    <2>2. CASE task' = task
      BY <2>2 DEF SameWrite
    <2> QED BY <2>1, <2>2 DEF OpenSheet, DismissError
  <1> QED BY <1>1, <1>2, TasksStep

\* A tap, or the answer of a query.
LEMMA AskOnFile ==
  ASSUME Shaped, Shaped', OnFile, NEW d \in Devices, NEW i \in Slots,
         TapSubmit(d, i) \/ ServeQuery(d, i)
  PROVE  OnFile'
  <1>1. /\ UNCHANGED <<outbox, reviews, today, confirmed>>
        /\ task[d][i].pc # "write"
        /\ \E v : task' = [task EXCEPT ![d][i] = v] /\ v.pc # "write"
    <2>1. CASE TapSubmit(d, i)
      <3> DEFINE v == Asking(sheet[d], taps + 1, TRUE)
      <3>1. task' = [task EXCEPT ![d][i] = v] /\ task[d][i].pc = "idle"
        BY <2>1 DEF TapSubmit, Asking
      <3>2. v.pc = "query"
        BY DEF Asking, NoTask
      <3> HIDE DEF v
      <3> QED BY <2>1, <3>1, <3>2 DEF TapSubmit
    <2>2. CASE ServeQuery(d, i)
      <3>1. task[d][i] \in Task /\ task[d][i].pc = "query"
        BY <2>2, DeviceType DEF ServeQuery
      <3>2. PICK io, doc : task' = [task EXCEPT ![d][i] =
              [task[d][i] EXCEPT !.io = io, !.found = doc]]
        BY <2>2 DEF ServeQuery
      <3>3. [task[d][i] EXCEPT !.io = io, !.found = doc].pc = "query"
        BY <3>1 DEF Task
      <3> QED BY <2>2, <3>1, <3>2, <3>3 DEF ServeQuery
    <2> QED BY <2>1, <2>2
  <1>2. PICK v : task' = [task EXCEPT ![d][i] = v] /\ v.pc # "write"
    BY <1>1
  <1>3. /\ task'[d][i] = v
        /\ \A k \in Slots \ {i} : task'[d][k] = task[d][k]
        /\ \A e \in Devices \ {d} : task'[e] = task[e]
    BY <1>2 DEF Shaped
  <1>4. \A k \in Slots : \/ SameWrite(task[d][k], task'[d][k])
                         \/ /\ task'[d][k].pc # "write"
                            /\ ~(task[d][k].pc = "write"
                                   /\ task[d][k].io = "sent")
    BY <1>1, <1>2, <1>3 DEF SameWrite
  <1> QED BY <1>1, <1>3, <1>4, TasksStep

\* Only one queue of phone d changes, and for the documents nothing.
LEMMA QueueStep ==
  ASSUME Shaped, OnFile, NEW d \in Devices, NEW n \in Names, NEW q2,
         outbox' = [outbox EXCEPT ![d][n] = q2],
         UNCHANGED <<reviews, today>>,
         QueueSound(q2, reviews[n], d, today[d]),
         \A f \in Nat : Behind(outbox[d][n], reviews[n], d, f, today[d]) =>
                          Behind(q2, reviews[n], d, f, today[d])
  PROVE  /\ SteadyAt(d)
         /\ outbox'[d][n] = q2
         /\ \A m \in Names \ {n} : outbox'[d][m] = outbox[d][m]
         /\ \A e \in Devices \ {d} : outbox'[e] = outbox[e]
  <1>1. /\ outbox'[d][n] = q2
        /\ \A m \in Names \ {n} : outbox'[d][m] = outbox[d][m]
        /\ \A e \in Devices \ {d} : outbox'[e] = outbox[e]
    BY DEF Shaped
  <1>2. \A m \in Names : QueueSound(outbox[d][m], reviews[m], d, today[d])
    BY DEF OnFile, PhoneSound
  <1>3. today[d] \in Nat
    BY DeviceType
  <1> QED BY <1>1, <1>2, <1>3 DEF SteadyAt, Steady

\* The backend files a write: what its phone confirmed is not newer, and what
\* another phone confirmed is not its business.
LEMMA ApplyWriteOnFile ==
  ASSUME Shaped, Shaped', OnFile, NEW d \in Devices, NEW n \in Names, NEW j,
         ApplyWrite(d, n, j)
  PROVE  OnFile'
  <1> DEFINE q == outbox[d][n]
             r == q[j].review
  <1>1. /\ q \in Seq(Write) /\ j \in 1..Len(q)
        /\ outbox' = [outbox EXCEPT ![d][n] = Marked(q, j)]
        /\ reviews' = [reviews EXCEPT ![n] = r]
        /\ UNCHANGED <<today, task, confirmed>>
    BY DeviceType DEF ApplyWrite, Marked
  <1>2. /\ outbox'[d][n] = Marked(q, j)
        /\ \A m \in Names \ {n} : outbox'[d][m] = outbox[d][m]
        /\ \A e \in Devices \ {d} : outbox'[e] = outbox[e]
        /\ reviews'[n] = r
        /\ \A m \in Names \ {n} : reviews'[m] = reviews[m]
    BY <1>1 DEF Shaped
  <1>3. \A e \in Devices : /\ today[e] \in Nat
                           /\ \A m \in Names :
                                /\ outbox[e][m] \in Seq(Write)
                                /\ QueueSound(outbox[e][m], reviews[m], e,
                                              today[e])
    BY DeviceType DEF OnFile, PhoneSound
  <1>4. r \in Review /\ r.phone = d
    BY <1>1, <1>3, QueueParts DEF QueueSound
  <1>5. SteadyAt(d)
    <2>1. QueueSound(q, reviews[n], d, today[d])
      BY <1>3
    <2> HIDE DEF q
    <2>2. /\ QueueSound(Marked(q, j), r, d, today[d])
          /\ \A f \in Nat : Behind(q, reviews[n], d, f, today[d]) =>
                              Behind(Marked(q, j), r, d, f, today[d])
      BY <1>1, <1>3, <2>1, MarkedSound
    <2> HIDE DEF r
    <2> QED BY <1>1, <1>2, <1>3, <2>2 DEF SteadyAt, Steady, q
  <1>6. ASSUME NEW e \in Devices \ {d}
        PROVE  SteadyAt(e)
    <2>1. ASSUME NEW m \in Names
          PROVE  /\ QueueSound(outbox[e][m], reviews'[m], e, today[e])
                 /\ \A f \in Nat :
                      Behind(outbox[e][m], reviews[m], e, f, today[e]) =>
                        Behind(outbox[e][m], reviews'[m], e, f, today[e])
      <3>1. CASE m = n
        BY <1>2, <1>3, <1>4, <3>1, ForeignSound
      <3>2. CASE m # n
        BY <1>2, <1>3, <3>2
      <3> QED BY <3>1, <3>2
    <2> QED BY <1>1, <1>2, <1>3, <2>1 DEF SteadyAt, Steady
  <1>7. ASSUME NEW e \in Devices
        PROVE  WritesAwaited(outbox'[e], task'[e])
    <2>1. WritesAwaited(outbox[e], task[e])
      BY DEF OnFile, PhoneSound
    <2>2. CASE e # d
      BY <1>1, <1>2, <2>1, <2>2
    <2>3. CASE e = d
      <3>1. outbox[d] \in Boxes /\ outbox'[d] \in Boxes
        BY DEF Shaped, Boxes
      <3>2. /\ Len(Marked(q, j)) = Len(q)
            /\ \A k \in 1..Len(q) : /\ Marked(q, j)[k].by = q[k].by
                                    /\ Marked(q, j)[k].review = q[k].review
        BY <1>1, MarkedQueue
      <3>3. /\ \A m \in Names \ {n} : outbox'[d][m] = outbox[d][m]
            /\ Len(outbox'[d][n]) = Len(outbox[d][n])
            /\ \A k \in 1..Len(outbox[d][n]) :
                 /\ outbox'[d][n][k].by = outbox[d][n][k].by
                 /\ outbox'[d][n][k].review = outbox[d][n][k].review
        BY <1>2, <3>2
      <3>4. WritesAwaited(outbox'[d], task[d])
        <4>1. \A box, box2 \in Boxes :
                (/\ WritesAwaited(box, task[d])
                 /\ \A m \in Names \ {n} : box2[m] = box[m]
                 /\ Len(box2[n]) = Len(box[n])
                 /\ \A k \in 1..Len(box[n]) :
                      /\ box2[n][k].by = box[n][k].by
                      /\ box2[n][k].review = box[n][k].review)
                  => WritesAwaited(box2, task[d])
          BY SameAwaited
        <4> QED BY <2>1, <2>3, <3>1, <3>3, <4>1
      <3> QED BY <1>1, <2>3, <3>4
    <2> QED BY <2>2, <2>3
  <1>8. ASSUME NEW e \in Devices
        PROVE  PhoneSound(e)'
    <2>1. SteadyAt(e)
      BY <1>5, <1>6
    <2>2. \A i \in Slots : SameWrite(task[e][i], task'[e][i])
      BY <1>1 DEF SameWrite
    <2> QED BY <1>1, <1>7, <2>1, <2>2, PhoneStep
  <1> QED BY <1>8 DEF OnFile

\* A write leaves its queue: acknowledged, it was due, so its phone is not
\* behind it; refused, its task will not confirm it.
LEMMA LeaveQueueOnFile ==
  ASSUME Shaped, Shaped', OnFile, NEW d \in Devices, NEW n \in Names,
         LeaveQueue(d, n)
  PROVE  OnFile'
  <1> DEFINE q == outbox[d][n]
             w == q[1]
  <1>1. /\ q \in Seq(Write) /\ q # <<>> /\ Head(q) = w
        /\ outbox' = [outbox EXCEPT ![d][n] = Tail(q)]
        /\ UNCHANGED <<today, reviews, confirmed>>
        /\ 1 \in 1..Len(q) /\ w \in Write
    <2>1. q \in Seq(Write) /\ q # <<>>
      BY DeviceType DEF LeaveQueue
    <2>2. outbox' = [outbox EXCEPT ![d][n] = Tail(q)]
      BY DEF LeaveQueue, Shaped
    <2>3. UNCHANGED <<today, reviews, confirmed>>
      BY DEF LeaveQueue
    <2> HIDE DEF q
    <2> QED BY <2>1, <2>2, <2>3, TailQueue, QueueType
  <1>2. today[d] \in Nat /\ QueueSound(q, reviews[n], d, today[d])
          /\ outbox[d] \in Boxes /\ outbox'[d] \in Boxes
          /\ WritesAwaited(outbox[d], task[d])
    BY DeviceType DEF OnFile, PhoneSound, Shaped, Boxes
  <1>3. /\ QueueSound(Tail(q), reviews[n], d, today[d])
        /\ \A f \in Nat : Behind(q, reviews[n], d, f, today[d]) =>
                            Behind(Tail(q), reviews[n], d, f, today[d])
        /\ w.due => Behind(Tail(q), reviews[n], d, w.review.date, today[d])
    <2> HIDE DEF q
    <2> QED BY <1>1, <1>2, TailSound
  <1>4. /\ SteadyAt(d)
        /\ outbox'[d][n] = Tail(q)
        /\ \A m \in Names \ {n} : outbox'[d][m] = outbox[d][m]
        /\ \A e \in Devices \ {d} : outbox'[e] = outbox[e]
    BY <1>1, <1>3, QueueStep
  <1>5. \/ task' = task /\ w.by = None
        \/ /\ w.by \in Slots
           /\ \E io \in {"done", "failed"} :
                /\ io = "done" => w.due
                /\ task' = [task EXCEPT ![d][w.by].io = io]
    <2>1. w.by \in Slots \cup {None} /\ None \notin Slots
      BY <1>1, ReviewAssumption DEF Write
    <2> QED BY <1>1, <2>1 DEF LeaveQueue
  <1>6. /\ \A e \in Devices \ {d} : task'[e] = task[e]
        /\ \A i \in Slots \ {w.by} : task'[d][i] = task[d][i]
    <2>1. CASE task' = task
      BY <2>1
    <2>2. ASSUME NEW by \in Slots, NEW io, by = w.by,
                 task' = [task EXCEPT ![d][by].io = io]
          PROVE  /\ \A e \in Devices \ {d} : task'[e] = task[e]
                 /\ \A i \in Slots \ {by} : task'[d][i] = task[d][i]
      BY <2>2 DEF Shaped
    <2> QED BY <1>5, <2>1, <2>2
  <1>7. WritesAwaited(outbox'[d], task'[d])
    <2>1. \A box, box2 \in Boxes :
            (/\ WritesAwaited(box, task[d]) /\ box[n] # <<>>
             /\ box2[n] = Tail(box[n])
             /\ \A m \in Names \ {n} : box2[m] = box[m]
             /\ \A i \in Slots \ {box[n][1].by} :
                  task'[d][i] = task[d][i])
              => WritesAwaited(box2, task'[d])
      BY TailAwaited
    <2> QED BY <1>1, <1>2, <1>4, <1>6, <2>1
  <1>8. ASSUME NEW i \in Slots
        PROVE  \/ SameWrite(task[d][i], task'[d][i])
               \/ TaskSound(task'[d][i], outbox'[d], reviews', d, today'[d])
    <2>1. CASE i # w.by
      BY <1>6, <2>1 DEF SameWrite
    <2>2. CASE i = w.by
      <3>1. PICK io \in {"done", "failed"} :
              /\ io = "done" => w.due
              /\ task' = [task EXCEPT ![d][i].io = io]
        BY <1>5, <2>2, ReviewAssumption
      <3>2. AwaitedBy(w, n, task[d]) /\ w.by # None
        BY <1>1, <1>2, <2>2, ReviewAssumption DEF WritesAwaited
      <3>3. /\ task[d][i].pc = "write" /\ task[d][i].name = n
            /\ task[d][i].date = w.review.date
        BY <2>2, <3>2 DEF AwaitedBy
      <3>4. /\ task'[d][i].pc = "write" /\ task'[d][i].name = n
            /\ task'[d][i].date = w.review.date /\ task'[d][i].io = io
        BY <3>1, <3>3 DEF Shaped, Task
      <3>5. w.review.date <= today[d]
        BY <1>1, <1>2 DEF QueueSound
      <3> HIDE DEF w, q
      <3>6. TaskSound(task'[d][i], outbox'[d], reviews, d, today[d])
        BY <1>3, <1>4, <3>1, <3>4, <3>5 DEF TaskSound
      <3> QED BY <1>1, <3>6
    <2> QED BY <2>1, <2>2
  <1>9. PhoneSound(d)'
    BY <1>1, <1>4, <1>7, <1>8, PhoneStep
  <1>10. ASSUME NEW e \in Devices \ {d}
         PROVE  PhoneSound(e)'
    BY <1>1, <1>4, <1>6, OtherPhone
  <1> QED BY <1>9, <1>10 DEF OnFile

\* The process dies: its writes stay, without tasks.
LEMMA CrashOnFile ==
  ASSUME Shaped, Shaped', OnFile, NEW d \in Devices, Crash(d)
  PROVE  OnFile'
  <1>1. /\ UNCHANGED <<today, reviews, confirmed>>
        /\ \A e \in Devices \ {d} : /\ outbox'[e] = outbox[e]
                                    /\ task'[e] = task[e]
        /\ \A n \in Names : outbox'[d][n] = Orphaned(outbox[d][n])
        /\ \A i \in Slots : task'[d][i] = NoTask
    BY DEF Crash, Shaped, Orphaned
  <1>2. \A n \in Names :
          /\ outbox[d][n] \in Seq(Write)
          /\ QueueSound(outbox[d][n], reviews[n], d, today[d])
    BY DeviceType DEF OnFile, PhoneSound
  <1>3. SteadyAt(d)
    <2>1. today[d] \in Nat
      BY DeviceType
    <2> QED BY <1>1, <1>2, <2>1, OrphanedSound DEF SteadyAt, Steady
  <1>4. WritesAwaited(outbox'[d], task'[d])
    <2>1. \A n \in Names : \A k \in 1..Len(outbox'[d][n]) :
            outbox'[d][n][k].by = None
      BY <1>1, <1>2, OrphanedQueue
    <2> QED BY <2>1 DEF WritesAwaited, AwaitedBy, SameTask
  <1>5. PhoneSound(d)'
    <2>1. \A i \in Slots :
            TaskSound(task'[d][i], outbox'[d], reviews', d, today'[d])
      BY <1>1 DEF TaskSound, NoTask
    <2> QED BY <1>1, <1>3, <1>4, <2>1, PhoneStep
  <1>6. ASSUME NEW e \in Devices \ {d}
        PROVE  PhoneSound(e)'
    BY <1>1, OtherPhone
  <1> QED BY <1>5, <1>6 DEF OnFile

\* A task that awaits no write ends.
LEMMA FinishOnFile ==
  ASSUME Shaped, Shaped', OnFile, NEW d \in Devices, NEW i \in Slots,
         task' = [task EXCEPT ![d][i] = NoTask],
         ~(task[d][i].pc = "write" /\ task[d][i].io = "sent"),
         UNCHANGED <<outbox, reviews, today, confirmed>>
  PROVE  OnFile'
  <1>1. /\ task'[d][i] = NoTask /\ NoTask.pc = "idle"
        /\ \A k \in Slots \ {i} : task'[d][k] = task[d][k]
        /\ \A e \in Devices \ {d} : task'[e] = task[e]
    BY DEF Shaped, NoTask
  <1>2. \A k \in Slots : \/ SameWrite(task[d][k], task'[d][k])
                         \/ /\ task'[d][k].pc # "write"
                            /\ ~(task[d][k].pc = "write"
                                   /\ task[d][k].io = "sent")
    BY <1>1 DEF SameWrite
  <1> QED BY <1>1, <1>2, TasksStep

\* A write of task i joins a queue: nobody else awaits it.
LEMMA AppendAwaited ==
  ASSUME NEW box \in Boxes, NEW box2 \in Boxes, NEW tasks, NEW tasks2,
         NEW n \in Names, NEW w \in Write, NEW i \in Slots, w.by = i,
         WritesAwaited(box, tasks), tasks[i].pc # "write",
         box2[n] = Append(box[n], w),
         \A m \in Names \ {n} : box2[m] = box[m],
         \A k \in Slots \ {i} : tasks2[k] = tasks[k],
         AwaitedBy(w, n, tasks2)
  PROVE  WritesAwaited(box2, tasks2)
  <1>1. /\ box[n] \in Seq(Write) /\ Len(box[n]) \in Nat
        /\ Len(box2[n]) = Len(box[n]) + 1
        /\ \A k \in 1..Len(box[n]) : box2[n][k] = box[n][k]
        /\ box2[n][Len(box[n]) + 1] = w
    BY DEF Boxes
  <1> DEFINE Old(m, k) == k \in 1..Len(box[m]) /\ box2[m][k] = box[m][k]
             New(m, k) == m = n /\ k = Len(box[n]) + 1 /\ box2[m][k] = w
  <1>2. ASSUME NEW m \in Names, NEW k \in 1..Len(box2[m])
        PROVE  Old(m, k) \/ New(m, k)
    <2>1. CASE m = n
      <3>1. k \in 1..Len(box[n]) \/ k = Len(box[n]) + 1
        BY <1>1, <2>1
      <3> QED BY <1>1, <2>1, <3>1
    <2>2. CASE m # n
      BY <2>2
    <2> QED BY <2>1, <2>2
  <1>3. ASSUME NEW m \in Names, NEW k, Old(m, k)
        PROVE  /\ AwaitedBy(box2[m][k], m, tasks)
               /\ box2[m][k].by \in Slots \cup {None}
               /\ box2[m][k].by # i
    <2>1. AwaitedBy(box2[m][k], m, tasks)
      BY <1>3 DEF WritesAwaited
    <2>2. box[m][k] \in Write
      BY <1>3, QueueType DEF Boxes
    <2>3. None # i
      BY ReviewAssumption
    <2> QED BY <1>3, <2>1, <2>2, <2>3 DEF AwaitedBy, Write
  <1>4. ASSUME NEW m \in Names, NEW k \in 1..Len(box2[m])
        PROVE  AwaitedBy(box2[m][k], m, tasks2)
    <2>1. CASE Old(m, k)
      BY <1>3, <2>1 DEF AwaitedBy
    <2>2. CASE New(m, k)
      BY <2>2
    <2> QED BY <1>2, <2>1, <2>2
  <1>5. ASSUME NEW m1 \in Names, NEW m2 \in Names,
               NEW k \in 1..Len(box2[m1]), NEW l \in 1..Len(box2[m2])
        PROVE  SameTask(box2, m1, k, m2, l)
    <2>1. CASE Old(m1, k) /\ Old(m2, l)
      <3>1. SameTask(box, m1, k, m2, l)
        BY <2>1 DEF WritesAwaited
      <3> QED BY <2>1, <3>1 DEF SameTask
    <2>2. CASE New(m1, k) /\ New(m2, l)
      BY <2>2 DEF SameTask
    <2>3. CASE Old(m1, k) /\ New(m2, l)
      BY <1>3, <2>3 DEF SameTask
    <2>4. CASE New(m1, k) /\ Old(m2, l)
      BY <1>3, <2>4 DEF SameTask
    <2> QED BY <1>2, <2>1, <2>2, <2>3, <2>4
  <1> QED BY <1>4, <1>5 DEF WritesAwaited

\* The query came back: the task ends, or writes under today's date.
LEMMA QueryReplyOnFile ==
  ASSUME Shaped, Shaped', OnFile, NEW d \in Devices, NEW i \in Slots,
         QueryReply(d, i)
  PROVE  OnFile'
  <1> DEFINE t == task[d][i]
             n == t.name
             r == [date |-> today[d], note |-> t.note, phone |-> d]
             w == [by |-> i, due |-> FALSE, review |-> r]
             s == [t EXCEPT !.pc = "write", !.io = "sent", !.date = today[d]]
  <1>1. /\ UNCHANGED <<today, reviews, confirmed>>
        /\ t.pc = "query" /\ t \in Task /\ n \in Names
        /\ t.note \in 1..MaxTaps /\ today[d] \in 1..MaxDay
    <2>1. Ready(t, sheet[d]) /\ today[d] \in 1..MaxDay /\ t \in Task
      BY DeviceType
    <2>2. t.pc = "query" /\ UNCHANGED <<today, reviews, confirmed>>
      BY DEF QueryReply
    <2> HIDE DEF t
    <2> QED BY <2>1, <2>2, ReadyParts
  <1>2. CASE UNCHANGED outbox /\ task' = [task EXCEPT ![d][i] = NoTask]
    BY <1>1, <1>2, FinishOnFile
  <1>3. CASE /\ outbox' = [outbox EXCEPT ![d][n] = Append(outbox[d][n], w)]
             /\ task' = [task EXCEPT ![d][i] = s]
    <2>1. /\ w \in Write /\ w.by = i /\ w.review = r /\ ~w.due
          /\ r.phone = d /\ r.date = today[d]
      BY <1>1 DEF Write, Review
    <2>2. /\ s.pc = "write" /\ s.io = "sent" /\ s.name = n
          /\ s.date = today[d]
      <3> HIDE DEF t
      <3> QED BY <1>1 DEF Task, n
    <2> HIDE DEF w, s, n, r
    <2>3. /\ outbox[d][n] \in Seq(Write) /\ today[d] \in Nat
          /\ QueueSound(outbox[d][n], reviews[n], d, today[d])
          /\ WritesAwaited(outbox[d], task[d])
          /\ outbox[d] \in Boxes /\ outbox'[d] \in Boxes
      BY <1>1, DeviceType DEF OnFile, PhoneSound, Shaped, Boxes
    <2>4. /\ QueueSound(Append(outbox[d][n], w), reviews[n], d, today[d])
          /\ \A f \in Nat :
               Behind(outbox[d][n], reviews[n], d, f, today[d]) =>
                 Behind(Append(outbox[d][n], w), reviews[n], d, f, today[d])
      BY <2>1, <2>3, AppendSound
    <2>5. /\ SteadyAt(d)
          /\ outbox'[d][n] = Append(outbox[d][n], w)
          /\ \A m \in Names \ {n} : outbox'[d][m] = outbox[d][m]
          /\ \A e \in Devices \ {d} : outbox'[e] = outbox[e]
      BY <1>1, <1>3, <2>4, QueueStep
    <2>6. /\ task'[d][i] = s
          /\ \A k \in Slots \ {i} : task'[d][k] = task[d][k]
          /\ \A e \in Devices \ {d} : task'[e] = task[e]
      BY <1>3 DEF Shaped
    <2>7. AwaitedBy(w, n, task'[d])
      BY <2>1, <2>2, <2>6 DEF AwaitedBy
    <2>8. WritesAwaited(outbox'[d], task'[d])
      <3>1. \A box, box2 \in Boxes :
              (/\ WritesAwaited(box, task[d])
               /\ box2[n] = Append(box[n], w)
               /\ \A m \in Names \ {n} : box2[m] = box[m])
                => WritesAwaited(box2, task'[d])
        BY <1>1, <2>1, <2>6, <2>7, AppendAwaited
      <3> QED BY <2>3, <2>5, <3>1
    <2>9. \A k \in Slots :
            \/ SameWrite(task[d][k], task'[d][k])
            \/ TaskSound(task'[d][k], outbox'[d], reviews', d, today'[d])
      BY <1>1, <2>2, <2>3, <2>6 DEF SameWrite, TaskSound
    <2>10. PhoneSound(d)'
      BY <1>1, <2>5, <2>8, <2>9, PhoneStep
    <2>11. ASSUME NEW e \in Devices \ {d}
           PROVE  PhoneSound(e)'
      BY <1>1, <2>5, <2>6, OtherPhone
    <2> QED BY <2>10, <2>11 DEF OnFile
  <1> QED BY <1>2, <1>3 DEF QueryReply, Finish

\* The write came back: what is confirmed was acknowledged.
LEMMA WriteReplyOnFile ==
  ASSUME Shaped, Shaped', OnFile, NEW d \in Devices, NEW i \in Slots,
         WriteReply(d, i)
  PROVE  OnFile'
  <1> DEFINE t == task[d][i]
             r == [date |-> t.date, note |-> t.note, phone |-> d]
             c == [name |-> t.name, review |-> r]
  <1>1. /\ UNCHANGED <<today, reviews, outbox>>
        /\ task' = [task EXCEPT ![d][i] = NoTask]
        /\ t.pc = "write" /\ t.io \in {"done", "failed"}
        /\ \/ confirmed' = confirmed
           \/ t.io = "done" /\ confirmed' \subseteq confirmed \cup {c}
    BY DEF WriteReply, Finish
  <1>2. CASE confirmed' = confirmed
    BY <1>1, <1>2, FinishOnFile
  <1>3. CASE t.io = "done" /\ confirmed' \subseteq confirmed \cup {c}
    <2>1. Behind(outbox[d][t.name], reviews[t.name], d, t.date, today[d])
      BY <1>1, <1>3 DEF OnFile, PhoneSound, TaskSound
    <2>2. c.name = t.name /\ c.review.phone = d /\ c.review.date = t.date
      OBVIOUS
    <2>3. \A k \in Slots : task'[d][k] = NoTask \/ task'[d][k] = task[d][k]
      BY <1>1 DEF Shaped
    <2>4. \A e \in Devices \ {d} : task'[e] = task[e]
      BY <1>1 DEF Shaped
    <2>5. \A k \in Slots : (task[d][k].pc = "write"
                              /\ task[d][k].io = "sent")
                             => SameWrite(task[d][k], task'[d][k])
      BY <1>1, <1>3 DEF Shaped, SameWrite
    <2> HIDE DEF c, r
    <2>6. ASSUME NEW e \in Devices
          PROVE  PhoneSound(e)'
      <3>1. /\ \A n \in Names : QueueSound(outbox[e][n], reviews[n], e,
                                           today[e])
            /\ WritesAwaited(outbox[e], task[e]) /\ outbox[e] \in Boxes
            /\ \A k \in Slots : TaskSound(task[e][k], outbox[e], reviews, e,
                                          today[e])
            /\ ConfirmedSound(confirmed, outbox[e], reviews, e, today[e])
        BY DEF OnFile, PhoneSound, Shaped, Boxes
      <3>2. ConfirmedSound(confirmed', outbox[e], reviews, e, today[e])
        BY <1>3, <2>1, <2>2, <3>1 DEF ConfirmedSound
      <3>3. TaskSound(NoTask, outbox[e], reviews, e, today[e])
        BY DEF TaskSound, NoTask
      <3>4. \A k \in Slots : TaskSound(task'[e][k], outbox[e], reviews, e,
                                       today[e])
        BY <2>3, <2>4, <3>1, <3>3
      <3>5. WritesAwaited(outbox[e], task'[e])
        <4>1. CASE e = d
          BY <2>5, <3>1, <4>1, StillAwaited
        <4>2. CASE e # d
          BY <2>4, <3>1, <4>2
        <4> QED BY <4>1, <4>2
      <3> QED BY <1>1, <3>1, <3>2, <3>4, <3>5 DEF PhoneSound
    <2> QED BY <2>6 DEF OnFile
  <1> QED BY <1>1, <1>2, <1>3

\* Every step.
LEMMA NextOnFile ==
  ASSUME Shaped, Shaped', OnFile, [Next]_vars
  PROVE  OnFile'
  <1>1. CASE UNCHANGED vars
    BY <1>1 DEF vars, OnFile, PhoneSound
  <1>2. CASE Next
    <2> PICK d \in Devices :
          \/ Midnight(d)
          \/ \E n \in Names :
               \/ \E j \in 1..Len(outbox[d][n]) : ApplyWrite(d, n, j)
               \/ LeaveQueue(d, n)
          \/ Crash(d)
          \/ \E n \in Names : OpenSheet(d, n)
          \/ CloseSheet(d)
          \/ DismissError(d)
          \/ \E i \in Slots : TapSubmit(d, i) \/ TaskStep(d, i)
      BY <1>2, Zenon DEF Next
    <2>1. CASE Midnight(d)
      BY <2>1, MidnightOnFile
    <2>2. CASE Crash(d)
      BY <2>2, CrashOnFile
    <2>3. CASE (\E n \in Names : OpenSheet(d, n)) \/ CloseSheet(d)
                 \/ DismissError(d)
      BY <2>3, SheetOnFile
    <2>4. CASE \E n \in Names : \E j \in 1..Len(outbox[d][n]) :
                 ApplyWrite(d, n, j)
      BY <2>4, ApplyWriteOnFile
    <2>5. CASE \E n \in Names : LeaveQueue(d, n)
      BY <2>5, LeaveQueueOnFile
    <2>6. CASE \E i \in Slots : TapSubmit(d, i) \/ ServeQuery(d, i)
      BY <2>6, AskOnFile
    <2>7. CASE \E i \in Slots : QueryReply(d, i)
      BY <2>7, QueryReplyOnFile
    <2>8. CASE \E i \in Slots : WriteReply(d, i)
      BY <2>8, WriteReplyOnFile
    <2> QED BY <2>1, <2>2, <2>3, <2>4, <2>5, <2>6, <2>7, <2>8, Zenon
            DEF TaskStep
  <1> QED BY <1>1, <1>2

\* "Your answer has been submitted for manual review" stays true for every
\* number of phones, names and overlapping submissions: the name keeps a
\* review on file, and the phone that confirmed one never files an older
\* day's in its place, through parked, refused and re-sent writes, crashes
\* and taps that overlap.
THEOREM ConfirmedStays == Spec => []ConfirmedOnFile
  <1>1. Shaped /\ OnFile => ConfirmedOnFile
    <2> SUFFICES ASSUME Shaped, OnFile, NEW c \in confirmed
                 PROVE  /\ reviews[c.name] # None
                        /\ reviews[c.name].phone = c.review.phone =>
                             c.review.date <= reviews[c.name].date
      BY DEF ConfirmedOnFile
    <2>1. c.name \in Names /\ c.review \in Review
      BY DEF Shaped
    <2>2. c.review.phone \in Devices
      BY <2>1, ReviewParts
    <2> QED BY <2>2 DEF OnFile, PhoneSound, ConfirmedSound, Behind
  <1>2. Shaped /\ Shaped' /\ OnFile /\ [Next]_vars => OnFile'
    BY NextOnFile
  <1> QED BY <1>1, <1>2, InitOnFile, ShapedAlways, PTL DEF Spec
=============================================================================
