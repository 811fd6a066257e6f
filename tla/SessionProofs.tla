--------------------------- MODULE SessionProofs ----------------------------
(***************************************************************************)
(* Theorems about Session, for every number of phones, emails, documents,  *)
(* names, sign-ins and taps: its types, that a confirmed username has      *)
(* reached its document, and that no sign-in ends in silence.              *)
(***************************************************************************)
EXTENDS Session, SequenceTheorems, WellFoundedInduction, TLAPS

-----------------------------------------------------------------------------
(* The inductive invariant: what the tasks and screens of a phone know *)

\* The task has set currentUser.  A Google sign-in does so only once its
\* document was found or created.
Entered(t) ==
  \/ t.pc \in {"rename", "replace", "name"}
  \/ t.pc \in {"get", "create"} /\ t.flow # "google"

\* A sign-in that is under way has an email.  While its LoginView is there,
\* nobody can have logged out the user it has set.
TaskFine(t, u, s) ==
  /\ t.pc # "idle" => t.email \in Emails
  /\ t.live => t.pc # "idle" /\ s = "login"
  /\ (t.live /\ Entered(t)) => u # NoUser

\* A tap on Submit holds the sheet up until its task has run, and a task that
\* can still dismiss a sheet finds it up; one that writes knows whose name it
\* writes.
NamingFine(n, s) ==
  /\ (n.pc = "queued" \/ n.live) => s = "sheet"
  /\ n.pc \in {"write", "back"} => n.doc \in Docs /\ n.name \in Names

\* The game and its sheet are there for a user only.
ScreenFine(u, s) == s \in {"loading", "game", "sheet"} => u # NoUser

PhoneFine(d) ==
  /\ ScreenFine(user[d], screen[d])
  /\ \A i \in Slots : TaskFine(task[d][i], user[d], screen[d])
  /\ \A t \in Taps : NamingFine(naming[d][t], screen[d])

Sound == TypeOK /\ \A d \in Devices : PhoneFine(d)

-----------------------------------------------------------------------------
(* The inductive invariant: usernames on their way *)

Boxes == Emails \cup {None}

\* Tap n awaits write w.
Awaited(w, n) ==
  n.pc = "write" /\ n.io = "sent" /\ n.doc = w.doc /\ n.name = w.name

\* Every write of a tap, in a queue that is served or parked, is the one it
\* awaits ...
Linked(box, names) ==
  \A u \in Boxes : \A j \in 1..Len(box[u]) :
    box[u][j].by \in Taps => Awaited(box[u][j], names[box[u][j].by])

\* ... and the only one: settling it wakes whatever uses the same tap.
Once(box) ==
  \A u, v \in Boxes : \A i \in 1..Len(box[u]), j \in 1..Len(box[v]) :
    (box[u][i].by \in Taps /\ box[u][i].by = box[v][j].by) => u = v /\ i = j

\* A username the backend was sent has reached its document.
Reached(w, r) ==
  (w.applied /\ w.name # None) => [doc |-> w.doc, name |-> w.name] \in r
AppliedReached(box, r) ==
  \A u \in Boxes : \A j \in 1..Len(box[u]) : Reached(box[u][j], r)

\* So has one that was acknowledged.
AnswerReached(n, r) ==
  (n.pc = "back" \/ (n.pc = "write" /\ n.io = "done"))
    => [doc |-> n.doc, name |-> n.name] \in r

PhoneLinked(box, names, r) ==
  /\ Linked(box, names)
  /\ Once(box)
  /\ AppliedReached(box, r)
  /\ \A t \in Taps : AnswerReached(names[t], r)

Delivered ==
  /\ \A d \in Devices : PhoneLinked(outbox[d], naming[d], reached)
  /\ NameReachedFirst

Inv == Sound /\ Delivered

-----------------------------------------------------------------------------
(* Users documents *)

\* A write makes a users document of what there was.
LEMMA AfterType ==
  ASSUME NEW w \in Write, NEW doc \in UserDoc \cup {None}
  PROVE  After(w, doc) \in UserDoc
  <1>1. ASSUME NEW b \in BOOLEAN, NEW n \in Names \cup {None}
        PROVE  [decodable |-> b, username |-> n] \in UserDoc
    BY DEF UserDoc
  <1>2. w.name \in Names \cup {None}
    BY DEF Write
  <1>3. CASE w.name = None
    <2>1. After(w, doc) = [decodable |-> TRUE, username |-> None]
      BY <1>3, Zenon DEF After
    <2>2. TRUE \in BOOLEAN /\ None \in Names \cup {None}
      OBVIOUS
    <2> QED BY <1>1, <2>1, <2>2, Zenon
  <1>4. CASE w.name # None
    <2> DEFINE b == doc # None /\ doc.decodable
    <2>1. b \in BOOLEAN
      OBVIOUS
    <2>2. After(w, doc) = [decodable |-> b, username |-> w.name]
      BY <1>4, Zenon DEF After
    <2> HIDE DEF b
    <2> QED BY <1>1, <1>2, <2>1, <2>2
  <1> QED BY <1>3, <1>4

\* A set of naturals has a least element.
LEMMA LeastOf ==
  ASSUME NEW T \in SUBSET Nat, T # {}
  PROVE  \E x \in T : \A y \in T : x <= y
  <1>1. PICK x \in T : \A y \in T : ~(<<y, x>> \in OpToRel(<, Nat))
    BY NatLessThanWellFounded, WFMin, Zenon
  <1>2. \A y \in T : ~(y < x)
    BY <1>1 DEF OpToRel
  <1> QED BY <1>2

\* The document k under the n-th write of q, over what is under that.
Over(q, k, first, n, under) ==
  IF n = 0 THEN first
  ELSE IF q[n].doc = k THEN After(q[n], under) ELSE under

\* f[n] is the document under the first n writes, up to m of them.
Overlay(q, k, first, m, f) ==
  f = [n \in 0..m |-> Over(q, k, first, n, f[n - 1])]

\* There is such a function ...
LEMMA OverlayExists ==
  ASSUME NEW q, NEW k, NEW first, NEW m \in Nat
  PROVE  \E f : Overlay(q, k, first, m, f)
  <1> DEFINE T == {n \in Nat : ~\E f : Overlay(q, k, first, n, f)}
  <1> SUFFICES ASSUME T # {} PROVE FALSE
    OBVIOUS
  <1>1. PICK x \in T : \A y \in T : x <= y
    BY LeastOf
  <1>2. x \in Nat /\ ~\E f : Overlay(q, k, first, x, f)
    BY <1>1
  <1>3. CASE x = 0
    <2> DEFINE f == [n \in 0..0 |-> first]
    <2>1. f = [n \in 0..0 |-> Over(q, k, first, n, f[n - 1])]
      <3>1. \A n \in 0..0 : Over(q, k, first, n, f[n - 1]) = first
        BY DEF Over
      <3> QED BY <3>1
    <2> QED BY <1>2, <1>3, <2>1 DEF Overlay
  <1>4. CASE x # 0
    <2>1. x - 1 \in Nat /\ x - 1 \notin T
      BY <1>1, <1>2, <1>4
    <2>2. PICK g : Overlay(q, k, first, x - 1, g)
      BY <2>1
    <2> DEFINE f == [n \in 0..x |-> Over(q, k, first, n, g[n - 1])]
    <2>3. \A n \in 0..(x - 1) : g[n] = Over(q, k, first, n, g[n - 1])
      BY <2>2 DEF Overlay
    <2>4. \A n \in 0..(x - 1) : f[n] = g[n]
      BY <1>2, <2>1, <2>3
    <2>5. ASSUME NEW n \in 0..x
          PROVE  Over(q, k, first, n, f[n - 1])
                   = Over(q, k, first, n, g[n - 1])
      <3>1. CASE n = 0
        BY <3>1 DEF Over
      <3>2. CASE n # 0
        <4>1. n - 1 \in 0..(x - 1)
          BY <1>2, <3>2
        <4> QED BY <2>4, <4>1
      <3> QED BY <3>1, <3>2
    <2>6. f = [n \in 0..x |-> Over(q, k, first, n, f[n - 1])]
      BY <2>5
    <2> QED BY <1>2, <2>6 DEF Overlay
  <1> QED BY <1>3, <1>4

\* ... and every such function has users documents, or none, for values.
LEMMA OverlayType ==
  ASSUME NEW q \in Seq(Write), NEW k, NEW first \in UserDoc \cup {None},
         NEW f, Overlay(q, k, first, Len(q), f)
  PROVE  f[Len(q)] \in UserDoc \cup {None}
  <1>1. Len(q) \in Nat /\ \A n \in 1..Len(q) : q[n] \in Write
    BY LenProperties, ElementOfSeq
  <1>2. \A n \in 0..Len(q) : f[n] = Over(q, k, first, n, f[n - 1])
    BY DEF Overlay
  <1> DEFINE T == {n \in 0..Len(q) : f[n] \notin UserDoc \cup {None}}
  <1> SUFFICES ASSUME T # {} PROVE FALSE
    BY <1>1
  <1>3. T \in SUBSET Nat
    BY <1>1
  <1>4. PICK x \in T : \A y \in T : x <= y
    BY <1>3, LeastOf
  <1>5. x \in 0..Len(q) /\ f[x] \notin UserDoc \cup {None}
    BY <1>4
  <1>6. CASE x = 0
    BY <1>2, <1>5, <1>6 DEF Over
  <1>7. CASE x # 0
    <2>1. /\ x - 1 \in 0..Len(q) /\ x \in 1..Len(q) /\ x - 1 \notin T
      BY <1>1, <1>4, <1>5, <1>7
    <2>2. f[x - 1] \in UserDoc \cup {None}
      BY <2>1
    <2>3. q[x] \in Write
      BY <1>1, <2>1
    <2>4. After(q[x], f[x - 1]) \in UserDoc
      BY <2>2, <2>3, AfterType
    <2>5. f[x] \in {After(q[x], f[x - 1]), f[x - 1]}
      BY <1>2, <1>5, <1>7 DEF Over
    <2> QED BY <1>5, <2>2, <2>4, <2>5
  <1> QED BY <1>6, <1>7

\* A read returns a users document, or none.
LEMMA SeenType ==
  ASSUME TypeOK, NEW d \in Devices, NEW k \in Docs
  PROVE  Seen(d, k) \in UserDoc \cup {None}
  <1> DEFINE q == Queue(d)
             f == CHOOSE g : Overlay(q, k, users[k], Len(q), g)
  <1>1. q \in Seq(Write) /\ users[k] \in UserDoc \cup {None}
    BY DEF TypeOK, Queue
  <1>2. Len(q) \in Nat
    BY <1>1, LenProperties
  <1>3. Seen(d, k) = f[Len(q)]
    BY Zenon DEF Seen, Overlay, Over
  <1>4. Overlay(q, k, users[k], Len(q), f)
    BY <1>2, OverlayExists
  <1> HIDE DEF f, q
  <1> QED BY <1>1, <1>3, <1>4, OverlayType

-----------------------------------------------------------------------------
(* Records and tables *)

\* A table by phone and by slot, tap or account gets an entry.
LEMMA TableUpdate ==
  ASSUME NEW S, NEW T, NEW f \in [Devices -> [S -> T]],
         NEW d \in Devices, NEW n \in S, NEW v \in T
  PROVE  /\ [f EXCEPT ![d][n] = v] \in [Devices -> [S -> T]]
         /\ [f EXCEPT ![d][n] = v][d][n] = v
         /\ [f EXCEPT ![d][n] = v][d] = [f[d] EXCEPT ![n] = v]
         /\ \A k \in S \ {n} : [f EXCEPT ![d][n] = v][d][k] = f[d][k]
         /\ \A e \in Devices \ {d} : [f EXCEPT ![d][n] = v][e] = f[e]
  OBVIOUS

\* So does a table by phone.
LEMMA RowUpdate ==
  ASSUME NEW T, NEW f \in [Devices -> T], NEW d \in Devices, NEW v \in T
  PROVE  /\ [f EXCEPT ![d] = v] \in [Devices -> T]
         /\ [f EXCEPT ![d] = v][d] = v
         /\ \A e \in Devices \ {d} : [f EXCEPT ![d] = v][e] = f[e]
  OBVIOUS

\* A task after an await: pc, io and found are new.
Moved(t, pc, io, found) == [t EXCEPT !.pc = pc, !.io = io, !.found = found]

LEMMA MovedFields ==
  ASSUME NEW t \in Task, NEW pc \in Pc, NEW io \in IO,
         NEW found \in UserDoc \cup {None}
  PROVE  /\ Moved(t, pc, io, found) \in Task
         /\ Moved(t, pc, io, found).pc = pc
         /\ Moved(t, pc, io, found).io = io
         /\ Moved(t, pc, io, found).found = found
         /\ Moved(t, pc, io, found).flow = t.flow
         /\ Moved(t, pc, io, found).email = t.email
         /\ Moved(t, pc, io, found).live = t.live
  BY DEF Moved, Task

\* A task that begins.
Begun(flow, pc, io, e) ==
  [NoTask EXCEPT !.flow = flow, !.pc = pc, !.io = io, !.email = e,
                 !.live = TRUE]

LEMMA BegunFields ==
  ASSUME NEW flow \in Flow, NEW pc \in Pc, NEW io \in IO, NEW e \in Emails
  PROVE  /\ Begun(flow, pc, io, e) \in Task
         /\ Begun(flow, pc, io, e).flow = flow
         /\ Begun(flow, pc, io, e).pc = pc
         /\ Begun(flow, pc, io, e).email = e
  <1>1. ASSUME NEW b \in BOOLEAN, NEW v,
               v = [NoTask EXCEPT !.flow = flow, !.pc = pc, !.io = io,
                                  !.email = e, !.live = b]
        PROVE  v \in Task /\ v.flow = flow /\ v.pc = pc /\ v.email = e
    <2> DEFINE c == FALSE
    <2>1. c \in BOOLEAN
      OBVIOUS
    <2>2. NoTask = [flow |-> "login", pc |-> "idle", io |-> "none",
                    email |-> None, found |-> None, live |-> c]
      BY Zenon DEF NoTask
    <2> HIDE DEF c
    <2> QED BY <1>1, <2>1, <2>2 DEF Task
  <1>2. TRUE \in BOOLEAN
    OBVIOUS
  <1>3. Begun(flow, pc, io, e) = [NoTask EXCEPT !.flow = flow, !.pc = pc,
                                    !.io = io, !.email = e, !.live = TRUE]
    BY Zenon DEF Begun
  <1> QED BY <1>1, <1>2, <1>3, Zenon

\* Nothing under way.
LEMMA IdleTypes ==
  /\ NoTask \in Task /\ NoTask.pc = "idle" /\ NoTask.io = "none"
  /\ ~NoTask.live
  /\ NoNaming \in Naming /\ NoNaming.pc = "idle"
  /\ NoUser \in UserRecord
  <1>1. ASSUME NEW b \in BOOLEAN
        PROVE  /\ [flow |-> "login", pc |-> "idle", io |-> "none",
                   email |-> None, found |-> None, live |-> b] \in Task
               /\ [flow |-> "login", pc |-> "idle", io |-> "none",
                   email |-> None, found |-> None, live |-> b].live = b
               /\ [pc |-> "idle", io |-> "none", doc |-> None,
                   name |-> None, live |-> b] \in Naming
    BY DEF Task, Naming, Flow, Pc, IO
  <1>2. FALSE \in BOOLEAN
    OBVIOUS
  <1>3. /\ NoTask \in Task /\ NoTask.live = FALSE /\ NoNaming \in Naming
    BY <1>1, <1>2, Zenon DEF NoTask, NoNaming
  <1>4. NoTask.pc = "idle" /\ NoTask.io = "none" /\ NoNaming.pc = "idle"
    BY DEF NoTask, NoNaming
  <1>5. NoUser \in UserRecord
    BY DEF UserRecord
  <1> QED BY <1>3, <1>4, <1>5, Zenon

\* A user of an email is somebody.
LEMMA SomeUser ==
  ASSUME NEW k \in Docs, NEW n \in Names \cup {None}
  PROVE  /\ [doc |-> k, username |-> n] \in UserRecord
         /\ [doc |-> k, username |-> n] # NoUser
  BY SessionAssumption DEF UserRecord, NoUser

LEMMA FreshIsUser ==
  ASSUME NEW e \in Emails
  PROVE  /\ FreshUser(e) \in UserRecord /\ FreshUser(e) # NoUser
         /\ Key[e] \in Docs
  <1>1. Key[e] \in Docs
    BY SessionAssumption
  <1> QED BY <1>1, SomeUser DEF FreshUser

\* A name makes neither somebody of nobody nor nobody of somebody.
LEMMA SetUsernameType ==
  ASSUME NEW u \in UserRecord, NEW n \in Names \cup {None}
  PROVE  /\ SetUsername(u, n) \in UserRecord
         /\ u # NoUser => SetUsername(u, n) # NoUser
  BY SessionAssumption DEF SetUsername, UserRecord, NoUser

\* What a user who is there has.
LEMMA UserFields ==
  ASSUME NEW u \in UserRecord, u # NoUser
  PROVE  u.doc \in Docs
  BY DEF UserRecord

\* The state of one phone.
LEMMA PhoneTypes ==
  ASSUME TypeOK, NEW d \in Devices
  PROVE  /\ auth[d] \in Boxes /\ google[d] \in Boxes
         /\ outbox[d] \in [Boxes -> Seq(Write)]
         /\ Queue(d) = outbox[d][auth[d]] /\ Queue(d) \in Seq(Write)
         /\ user[d] \in UserRecord
         /\ \A i \in Slots : task[d][i] \in Task
         /\ \A t \in Taps : naming[d][t] \in Naming
  BY DEF TypeOK, Boxes, Queue

-----------------------------------------------------------------------------
(* Sign-in tasks keep the types and PhoneFine *)

\* A task moves on and its user, if there was one, does not vanish.
LEMMA TaskMoves ==
  ASSUME Sound, NEW d \in Devices, NEW i \in Slots, NEW v \in Task,
         NEW x \in UserRecord, user[d] # NoUser => x # NoUser,
         TaskFine(v, x, screen[d]),
         task' = [task EXCEPT ![d][i] = v],
         user' = [user EXCEPT ![d] = x],
         UNCHANGED <<screen, naming>>
  PROVE  /\ task' \in [Devices -> [Slots -> Task]]
         /\ user' \in [Devices -> UserRecord]
         /\ \A e \in Devices : PhoneFine(e)'
  <1>1. /\ task \in [Devices -> [Slots -> Task]]
        /\ user \in [Devices -> UserRecord]
    BY DEF Sound, TypeOK
  <1>2. /\ task' \in [Devices -> [Slots -> Task]]
        /\ task'[d][i] = v
        /\ \A k \in Slots \ {i} : task'[d][k] = task[d][k]
        /\ \A e \in Devices \ {d} : task'[e] = task[e]
    BY <1>1, TableUpdate
  <1>3. /\ user' \in [Devices -> UserRecord] /\ user'[d] = x
        /\ \A e \in Devices \ {d} : user'[e] = user[e]
    BY <1>1, RowUpdate
  <1>4. ASSUME NEW e \in Devices, e # d
        PROVE  PhoneFine(e)'
    BY <1>2, <1>3, <1>4 DEF Sound, PhoneFine
  <1>5. PhoneFine(d)'
    <2>1. PhoneFine(d)
      BY DEF Sound
    <2>2. ScreenFine(user'[d], screen'[d])
      BY <1>3, <2>1 DEF PhoneFine, ScreenFine
    <2>3. ASSUME NEW k \in Slots
          PROVE  TaskFine(task'[d][k], user'[d], screen'[d])
      <3>1. CASE k = i
        BY <1>2, <1>3, <3>1
      <3>2. CASE k # i
        BY <1>2, <1>3, <2>1, <3>2 DEF PhoneFine, TaskFine
      <3> QED BY <3>1, <3>2
    <2> QED BY <2>1, <2>2, <2>3 DEF PhoneFine
  <1> QED BY <1>2, <1>3, <1>4, <1>5

\* So it is when the step leaves the user alone.
LEMMA TaskMovesAlone ==
  ASSUME Sound, NEW d \in Devices, NEW i \in Slots, NEW v \in Task,
         TaskFine(v, user[d], screen[d]),
         task' = [task EXCEPT ![d][i] = v],
         UNCHANGED <<user, screen, naming>>
  PROVE  /\ task' \in [Devices -> [Slots -> Task]]
         /\ user' \in [Devices -> UserRecord]
         /\ \A e \in Devices : PhoneFine(e)'
  <1>1. user[d] \in UserRecord /\ user' = [user EXCEPT ![d] = user[d]]
    BY DEF Sound, TypeOK
  <1> QED BY <1>1, TaskMoves

\* What is known of a task.
LEMMA TaskFacts ==
  ASSUME Sound, NEW d \in Devices, NEW i \in Slots
  PROVE  /\ task[d][i] \in Task
         /\ TaskFine(task[d][i], user[d], screen[d])
         /\ task[d][i].pc # "idle" =>
              /\ task[d][i].email \in Emails
              /\ Key[task[d][i].email] \in Docs
  BY PhoneTypes, FreshIsUser DEF Sound, PhoneFine, TaskFine

\* An idle slot is fine on any screen.
LEMMA IdleFine == \A u, s : TaskFine(NoTask, u, s)
  BY IdleTypes DEF TaskFine, Entered

\* A task that moves to another await, without entering, stays fine.
LEMMA MovedFine ==
  ASSUME NEW t \in Task, NEW u, NEW s, TaskFine(t, u, s), t.pc # "idle",
         NEW pc \in Pc, pc # "idle", NEW io \in IO,
         NEW found \in UserDoc \cup {None}, NEW x,
         (t.live /\ Entered(Moved(t, pc, io, found))) => x # NoUser
  PROVE  /\ Moved(t, pc, io, found) \in Task
         /\ TaskFine(Moved(t, pc, io, found), x, s)
  <1> DEFINE v == Moved(t, pc, io, found)
  <1>1. /\ v \in Task /\ v.pc = pc /\ v.email = t.email /\ v.live = t.live
    BY MovedFields
  <1> HIDE DEF v
  <1>2. v.live => x # NoUser \/ ~Entered(v)
    BY <1>1 DEF v
  <1>3. v.live => v.pc # "idle" /\ s = "login"
    BY <1>1 DEF TaskFine
  <1>4. v.email \in Emails
    BY <1>1 DEF TaskFine
  <1>5. TaskFine(v, x, s)
    BY <1>2, <1>3, <1>4 DEF TaskFine
  <1> QED BY <1>1, <1>5 DEF v

\* An answer changes io and found only.
LEMMA AnsweredFine ==
  ASSUME NEW t \in Task, NEW u, NEW s, TaskFine(t, u, s),
         NEW io \in IO, NEW found \in UserDoc \cup {None}
  PROVE  /\ Moved(t, t.pc, io, found) \in Task
         /\ TaskFine(Moved(t, t.pc, io, found), u, s)
  <1> DEFINE v == Moved(t, t.pc, io, found)
  <1>0. t.pc \in Pc
    BY DEF Task
  <1>1. /\ v \in Task /\ v.pc = t.pc /\ v.email = t.email /\ v.live = t.live
        /\ v.flow = t.flow
    BY <1>0, MovedFields
  <1> HIDE DEF v
  <1>2. TaskFine(v, u, s)
    BY <1>1 DEF TaskFine, Entered
  <1> QED BY <1>1, <1>2 DEF v

\* The answer of Firebase Auth.
LEMMA ServeAuthSound ==
  ASSUME Sound, NEW d \in Devices, NEW i \in Slots, ServeAuth(d, i)
  PROVE  Sound'
  <1> DEFINE t == task[d][i]
  <1>1. t \in Task /\ TaskFine(t, user[d], screen[d]) /\ t.pc # "idle"
        /\ t.email \in Emails /\ t.found \in UserDoc \cup {None}
    BY TaskFacts DEF ServeAuth, Task
  <1>2. \E io \in IO : task' = [task EXCEPT ![d][i].io = io]
    BY DEF ServeAuth, IO
  <1>3. PICK io \in IO : task' = [task EXCEPT ![d][i].io = io]
    BY <1>2
  <1> DEFINE v == Moved(t, t.pc, io, t.found)
  <1>4. task' = [task EXCEPT ![d][i] = v]
    <2>1. [t EXCEPT !.io = io] = v
      <3> HIDE DEF t
      <3> QED BY <1>1 DEF v, Moved, Task
    <2>2. task' = [task EXCEPT ![d][i] = [t EXCEPT !.io = io]]
      BY <1>3
    <2> QED BY <2>1, <2>2
  <1>5. v \in Task /\ TaskFine(v, user[d], screen[d])
    BY <1>1, AnsweredFine
  <1>6. UNCHANGED <<users, outbox, google, user, screen, alert, submitting,
                    naming, history>>
    BY DEF ServeAuth
  <1>7. /\ task' \in [Devices -> [Slots -> Task]]
        /\ \A e \in Devices : PhoneFine(e)'
    <2> HIDE DEF v
    <2> QED BY <1>4, <1>5, <1>6, TaskMovesAlone
  <1>8. accounts' \subseteq Emails /\ auth' \in [Devices -> Emails \cup {None}]
    <2>1. \/ accounts' = accounts /\ auth' = auth
          \/ /\ accounts' = accounts \cup {t.email}
             /\ auth' = [auth EXCEPT ![d] = t.email]
      BY DEF ServeAuth
    <2> HIDE DEF t
    <2> QED BY <1>1, <2>1 DEF Sound, TypeOK
  <1> QED BY <1>6, <1>7, <1>8 DEF Sound, TypeOK, history

\* The answer to a read.
LEMMA ServeReadSound ==
  ASSUME Sound, NEW d \in Devices, NEW i \in Slots, ServeRead(d, i)
  PROVE  Sound'
  <1> DEFINE t == task[d][i]
  <1>1. t \in Task /\ TaskFine(t, user[d], screen[d]) /\ t.pc # "idle"
        /\ Key[t.email] \in Docs /\ t.found \in UserDoc \cup {None}
    BY TaskFacts DEF ServeRead, Task
  <1>2. Seen(d, Key[t.email]) \in UserDoc \cup {None}
    BY <1>1, SeenType DEF Sound
  <1>3. \E io \in IO, found \in UserDoc \cup {None} :
          task' = [task EXCEPT ![d][i] = Moved(t, t.pc, io, found)]
    <2>1. CASE task' = [task EXCEPT ![d][i] =
                 [t EXCEPT !.io = "done", !.found = Seen(d, Key[t.email])]]
      <3> DEFINE found == Seen(d, Key[t.email])
      <3>1. task' = [task EXCEPT ![d][i] =
                       [t EXCEPT !.io = "done", !.found = found]]
        BY <2>1
      <3>2. found \in UserDoc \cup {None}
        BY <1>2
      <3> HIDE DEF found, t
      <3>3. [t EXCEPT !.io = "done", !.found = found]
              = Moved(t, t.pc, "done", found)
        BY <1>1 DEF Moved, Task
      <3>4. task' = [task EXCEPT ![d][i] = Moved(t, t.pc, "done", found)]
        BY <3>1, <3>3
      <3> QED BY <3>2, <3>4 DEF IO
    <2>2. CASE task' = [task EXCEPT ![d][i].io = "failed"]
      <3>1. task' = [task EXCEPT ![d][i] = [t EXCEPT !.io = "failed"]]
        BY <2>2
      <3>2. [t EXCEPT !.io = "failed"] = Moved(t, t.pc, "failed", t.found)
        <4> HIDE DEF t
        <4> QED BY <1>1 DEF Moved, Task
      <3>3. task' = [task EXCEPT ![d][i] = Moved(t, t.pc, "failed", t.found)]
        BY <3>1, <3>2
      <3> QED BY <1>1, <3>3 DEF IO
    <2> QED BY <2>1, <2>2 DEF ServeRead
  <1>4. PICK io \in IO, found \in UserDoc \cup {None} :
          task' = [task EXCEPT ![d][i] = Moved(t, t.pc, io, found)]
    BY <1>3
  <1> DEFINE v == Moved(t, t.pc, io, found)
  <1>5. v \in Task /\ TaskFine(v, user[d], screen[d])
    BY <1>1, AnsweredFine
  <1>6. UNCHANGED <<cloud, outbox, device, naming, history>>
    BY DEF ServeRead
  <1>7. /\ task' \in [Devices -> [Slots -> Task]]
        /\ \A e \in Devices : PhoneFine(e)'
    <2>1. task' = [task EXCEPT ![d][i] = v]
      BY <1>4
    <2>2. UNCHANGED <<user, screen, naming>>
      BY <1>6 DEF device
    <2> HIDE DEF v
    <2> QED BY <1>5, <2>1, <2>2, TaskMovesAlone
  <1> QED BY <1>6, <1>7 DEF Sound, TypeOK, history, cloud, device

\* The catch of a sign-in: the slot is free, and who looks at the LoginView is
\* told.
LEMMA FailFacts ==
  ASSUME Sound, NEW d \in Devices, NEW i \in Slots, Fail(d, i)
  PROVE  /\ task' = [task EXCEPT ![d][i] = NoTask]
         /\ alert' \in [Devices -> BOOLEAN]
         /\ (task[d][i].live /\ task[d][i].flow # "restore") => alert'[d]
  <1> DEFINE b == alert[d] \/ (task[d][i].live
                                 /\ task[d][i].flow # "restore")
  <1>1. b \in BOOLEAN
    OBVIOUS
  <1>2. alert' = [alert EXCEPT ![d] = b]
    BY Zenon DEF Fail
  <1>3. alert \in [Devices -> BOOLEAN]
    BY DEF Sound, TypeOK
  <1>4. (task[d][i].live /\ task[d][i].flow # "restore") => b
    OBVIOUS
  <1> HIDE DEF b
  <1>5. alert' \in [Devices -> BOOLEAN] /\ alert'[d] = b
    BY <1>1, <1>2, <1>3, RowUpdate
  <1>6. alert'[d] <=> b
    BY <1>5, Zenon
  <1>7. (task[d][i].live /\ task[d][i].flow # "restore") => alert'[d]
    BY <1>4, <1>6
  <1> QED BY <1>5, <1>7 DEF Fail

\* A slot becomes free; the user, if there was one, does not vanish.
LEMMA TaskEnds ==
  ASSUME Sound, NEW d \in Devices, NEW i \in Slots,
         NEW x \in UserRecord, user[d] # NoUser => x # NoUser,
         task' = [task EXCEPT ![d][i] = NoTask],
         user' = [user EXCEPT ![d] = x],
         UNCHANGED <<screen, naming>>
  PROVE  /\ task' \in [Devices -> [Slots -> Task]]
         /\ user' \in [Devices -> UserRecord]
         /\ \A e \in Devices : PhoneFine(e)'
  <1>1. NoTask \in Task /\ TaskFine(NoTask, x, screen[d])
    BY IdleTypes, IdleFine
  <1> HIDE DEF NoTask
  <1> QED BY <1>1, TaskMoves

LEMMA TaskEndsAlone ==
  ASSUME Sound, NEW d \in Devices, NEW i \in Slots,
         task' = [task EXCEPT ![d][i] = NoTask],
         UNCHANGED <<user, screen, naming>>
  PROVE  /\ task' \in [Devices -> [Slots -> Task]]
         /\ user' \in [Devices -> UserRecord]
         /\ \A e \in Devices : PhoneFine(e)'
  <1>1. NoTask \in Task /\ TaskFine(NoTask, user[d], screen[d])
    BY IdleTypes, IdleFine
  <1> HIDE DEF NoTask
  <1> QED BY <1>1, TaskMovesAlone

\* The next await.
LEMMA AwaitMoves ==
  ASSUME Sound, NEW d \in Devices, NEW i \in Slots, NEW pc \in Pc,
         Await(d, i, pc)
  PROVE  task' = [task EXCEPT ![d][i] = Moved(task[d][i], pc, "sent", None)]
  <1>1. task \in [Devices -> [Slots -> Task]]
    BY DEF Sound, TypeOK
  <1> QED BY <1>1 DEF Await, Moved

\* A task goes on to another await under the user x.
LEMMA TaskGoesOn ==
  ASSUME Sound, NEW d \in Devices, NEW i \in Slots, NEW pc \in Pc,
         pc # "idle", task[d][i].pc # "idle", NEW io \in IO,
         NEW found \in UserDoc \cup {None},
         NEW x \in UserRecord, user[d] # NoUser => x # NoUser,
         (task[d][i].live /\ Entered(Moved(task[d][i], pc, io, found)))
           => x # NoUser,
         task' = [task EXCEPT ![d][i] = Moved(task[d][i], pc, io, found)],
         user' = [user EXCEPT ![d] = x],
         UNCHANGED <<screen, naming>>
  PROVE  /\ task' \in [Devices -> [Slots -> Task]]
         /\ user' \in [Devices -> UserRecord]
         /\ \A e \in Devices : PhoneFine(e)'
  <1> DEFINE t == task[d][i]
             v == Moved(t, pc, io, found)
  <1>1. t \in Task /\ TaskFine(t, user[d], screen[d]) /\ t.pc # "idle"
    BY TaskFacts
  <1>2. (t.live /\ Entered(v)) => x # NoUser
    OBVIOUS
  <1>3. task' = [task EXCEPT ![d][i] = v]
    OBVIOUS
  <1> HIDE DEF t
  <1>4. v \in Task /\ TaskFine(v, x, screen[d])
    BY <1>1, <1>2, MovedFine
  <1> HIDE DEF v
  <1> QED BY <1>3, <1>4, TaskMoves

\* A step that leaves the user alone as the user it is.
LEMMA SameUser ==
  ASSUME Sound, NEW d \in Devices
  PROVE  user[d] \in UserRecord /\ user = [user EXCEPT ![d] = user[d]]
  BY DEF Sound, TypeOK

\* signUp or signIn returned or threw.
LEMMA AuthReplySound ==
  ASSUME Sound, NEW d \in Devices, NEW i \in Slots, AuthReply(d, i)
  PROVE  Sound'
  <1> DEFINE t == task[d][i]
  <1>1. /\ t \in Task /\ t.pc \in {"signUp", "signIn"} /\ t.pc # "idle"
        /\ t.found \in UserDoc \cup {None}
        /\ UNCHANGED <<cloud, outbox, auth, google, user, screen, submitting,
                       naming, history>>
    BY TaskFacts DEF AuthReply, Task
  <1>2. user[d] \in UserRecord /\ user' = [user EXCEPT ![d] = user[d]]
    BY <1>1, SameUser
  <1>3. /\ task' \in [Devices -> [Slots -> Task]]
        /\ alert' \in [Devices -> BOOLEAN]
        /\ \A e \in Devices : PhoneFine(e)'
    <2>1. CASE Fail(d, i)
      BY <1>1, <2>1, FailFacts, TaskEndsAlone
    <2>2. CASE alert' = alert /\ \E pc \in {"signIn", "enter"}, io \in IO,
                 found \in UserDoc \cup {None} :
                 task' = [task EXCEPT ![d][i] = Moved(t, pc, io, found)]
      <3>1. PICK pc \in {"signIn", "enter"}, io \in IO,
                 found \in UserDoc \cup {None} :
                 task' = [task EXCEPT ![d][i] = Moved(t, pc, io, found)]
        BY <2>2
      <3>2. pc \in Pc /\ pc # "idle"
        BY DEF Pc
      <3>3. ~Entered(Moved(t, pc, io, found))
        <4>1. Moved(t, pc, io, found).pc = pc
          BY <1>1, <3>2, MovedFields
        <4> QED BY <4>1 DEF Entered
      <3>4. alert' \in [Devices -> BOOLEAN]
        BY <2>2 DEF Sound, TypeOK
      <3> QED BY <1>1, <1>2, <3>1, <3>2, <3>3, <3>4, TaskGoesOn
    <2>3. CASE /\ alert' = alert
               /\ task' = [task EXCEPT ![d][i] =
                    [t EXCEPT !.pc = "enter", !.io = "none"]]
      <3>1. [t EXCEPT !.pc = "enter", !.io = "none"]
              = Moved(t, "enter", "none", t.found)
        <4> HIDE DEF t
        <4> QED BY <1>1 DEF Moved, Task
      <3>2. task' = [task EXCEPT ![d][i] =
                       Moved(t, "enter", "none", t.found)]
        BY <2>3, <3>1
      <3> HIDE DEF t
      <3> QED BY <1>1, <2>2, <2>3, <3>2 DEF IO
    <2>4. CASE alert' = alert /\ Await(d, i, "signIn")
      <3>1. task' = [task EXCEPT ![d][i] = Moved(t, "signIn", "sent", None)]
        BY <2>4, AwaitMoves DEF Pc
      <3> HIDE DEF t
      <3> QED BY <2>2, <2>4, <3>1 DEF IO
    <2> QED BY <2>1, <2>3, <2>4 DEF AuthReply
  <1> QED BY <1>1, <1>3 DEF Sound, TypeOK, history, cloud

\* currentUser is set and the task goes on to a read.
LEMMA EntersSound ==
  ASSUME Sound, NEW d \in Devices, NEW i \in Slots, task[d][i].pc # "idle",
         NEW pc \in Pc, pc # "idle",
         user' = [user EXCEPT ![d] = FreshUser(task[d][i].email)],
         Await(d, i, pc),
         UNCHANGED <<cloud, outbox, auth, google, screen, alert, submitting,
                     naming, history>>
  PROVE  Sound'
  <1> DEFINE t == task[d][i]
             x == FreshUser(t.email)
  <1>1. x \in UserRecord /\ x # NoUser
    BY TaskFacts, FreshIsUser
  <1>2. /\ task' = [task EXCEPT ![d][i] = Moved(t, pc, "sent", None)]
        /\ user' = [user EXCEPT ![d] = x]
    BY AwaitMoves
  <1>3. "sent" \in IO /\ None \in UserDoc \cup {None}
    BY DEF IO
  <1> HIDE DEF x
  <1>4. /\ task' \in [Devices -> [Slots -> Task]]
        /\ user' \in [Devices -> UserRecord]
        /\ \A e \in Devices : PhoneFine(e)'
    BY <1>1, <1>2, <1>3, TaskGoesOn
  <1> QED BY <1>4 DEF Sound, TypeOK, history, cloud

LEMMA EnterSound ==
  ASSUME Sound, NEW d \in Devices, NEW i \in Slots,
         Enter(d, i) \/ Replace(d, i)
  PROVE  Sound'
  <1>1. CASE Enter(d, i)
    <2> DEFINE pc == IF task[d][i].flow = "register" THEN "get" ELSE "name"
    <2>1. pc \in Pc /\ pc # "idle"
      BY DEF Pc
    <2>2. Await(d, i, pc) /\ task[d][i].pc # "idle"
      BY <1>1 DEF Enter
    <2> HIDE DEF pc
    <2> QED BY <1>1, <2>1, <2>2, EntersSound DEF Enter
  <1>2. CASE Replace(d, i)
    <2>1. "name" \in Pc /\ "name" # "idle" /\ task[d][i].pc # "idle"
      BY <1>2 DEF Pc, Replace
    <2> QED BY <1>2, <2>1, EntersSound DEF Replace
  <1> QED BY <1>1, <1>2

\* Sessions begin: by a button or by the restored session.
LEMMA BegunSound ==
  ASSUME Sound, NEW d \in Devices, NEW i \in Slots, NEW e \in Emails,
         NEW flow \in Flow, NEW pc \in Pc, NEW io \in IO,
         pc # "idle", pc \in {"signIn", "signUp", "enter"}
                        \/ (pc = "get" /\ flow = "google"),
         screen[d] = "login",
         task' = [task EXCEPT ![d][i] = Begun(flow, pc, io, e)],
         UNCHANGED <<user, screen, naming>>
  PROVE  /\ task' \in [Devices -> [Slots -> Task]]
         /\ \A c \in Devices : PhoneFine(c)'
  <1> DEFINE v == Begun(flow, pc, io, e)
  <1>1. v \in Task /\ v.flow = flow /\ v.pc = pc /\ v.email = e
    BY BegunFields
  <1>2. task' = [task EXCEPT ![d][i] = v]
    OBVIOUS
  <1> HIDE DEF v
  <1>3. TaskFine(v, user[d], screen[d])
    BY <1>1 DEF TaskFine, Entered
  <1> QED BY <1>1, <1>2, <1>3, TaskMovesAlone

\* A sign-in button.
LEMMA BeginSound ==
  ASSUME Sound, NEW d \in Devices, NEW i \in Slots, NEW e \in Emails,
         Login(d, i, e) \/ Register(d, i, e) \/ Google(d, i, e)
  PROVE  Sound'
  <1>1. PICK flow \in Flow, pc \in Pc :
          /\ Begin(d, i, e, flow, pc)
          /\ pc \in {"signIn", "signUp"} \/ (pc = "get" /\ flow = "google")
    BY DEF Login, Register, Google, Flow, Pc
  <1>2. /\ task' = [task EXCEPT ![d][i] = Begun(flow, pc, "sent", e)]
        /\ screen[d] = "login" /\ attempts < MaxAttempts
        /\ attempts' = attempts + 1
        /\ UNCHANGED <<cloud, outbox, auth, user, screen, alert, submitting,
                       naming, reached, confirmed>>
    BY <1>1, Zenon DEF Begin, Begun
  <1>3. /\ task' \in [Devices -> [Slots -> Task]]
        /\ \A c \in Devices : PhoneFine(c)'
    BY <1>1, <1>2, BegunSound DEF IO
  <1>4. google' \in [Devices -> Emails \cup {None}]
    <2>1. google' = google \/ google' = [google EXCEPT ![d] = e]
      BY DEF Login, Register, Google
    <2> QED BY <2>1 DEF Sound, TypeOK
  <1>5. attempts' \in 0..MaxAttempts
    BY <1>2, SessionAssumption DEF Sound, TypeOK
  <1> QED BY <1>2, <1>3, <1>4, <1>5 DEF Sound, TypeOK, cloud

\* The LoginView appears, and with it perhaps a restored session.
LEMMA AppearSound ==
  ASSUME Sound, NEW d \in Devices, NEW i \in Slots, Appear(d, i)
  PROVE  Sound'
  <1>1. /\ screen[d] = "appearing"
        /\ screen' = [screen EXCEPT ![d] = "login"]
        /\ UNCHANGED <<cloud, outbox, auth, google, user, alert, submitting,
                       naming, history>>
    BY DEF Appear
  <1>2. /\ screen' \in [Devices -> {"appearing", "login", "loading", "game",
                                    "sheet"}]
        /\ screen'[d] = "login"
        /\ \A e \in Devices \ {d} : screen'[e] = screen[e]
    BY <1>1 DEF Sound, TypeOK
  <1>3. \/ task' = task
        \/ \E e \in Emails :
             task' = [task EXCEPT ![d][i] =
                        Begun("restore", "enter", "none", e)]
    <2>1. \/ task' = task
          \/ \E e \in Remembered(d) :
               task' = [task EXCEPT ![d][i] =
                 [NoTask EXCEPT !.flow = "restore", !.pc = "enter",
                                !.email = e, !.live = TRUE]]
      BY DEF Appear
    <2>2. Remembered(d) \subseteq Emails
      BY PhoneTypes DEF Sound, Remembered, Boxes
    <2>3. ASSUME NEW e \in Emails
          PROVE  [NoTask EXCEPT !.flow = "restore", !.pc = "enter",
                                !.email = e, !.live = TRUE]
                   = Begun("restore", "enter", "none", e)
      <3>1. ASSUME NEW b \in BOOLEAN, NEW n \in Task, n.io = "none"
            PROVE  [n EXCEPT !.flow = "restore", !.pc = "enter",
                             !.email = e, !.live = b]
                     = [n EXCEPT !.flow = "restore", !.pc = "enter",
                                 !.io = "none", !.email = e, !.live = b]
        BY <3>1 DEF Task
      <3>2. TRUE \in BOOLEAN /\ NoTask \in Task /\ NoTask.io = "none"
        BY IdleTypes
      <3> QED BY <3>1, <3>2, Zenon DEF Begun
    <2> QED BY <2>1, <2>2, <2>3
  <1>4. /\ task' \in [Devices -> [Slots -> Task]]
        /\ \A e \in Devices \ {d} : task'[e] = task[e]
        /\ \A k \in Slots : TaskFine(task'[d][k], user'[d], screen'[d])
    <2>1. \A k \in Slots : /\ TaskFine(task[d][k], user[d], screen[d])
                           /\ TaskFine(task[d][k], user'[d], screen'[d])
      BY <1>1, <1>2, TaskFacts DEF TaskFine
    <2>2. CASE task' = task
      BY <2>1, <2>2 DEF Sound, TypeOK
    <2>3. CASE \E e \in Emails :
                 task' = [task EXCEPT ![d][i] =
                            Begun("restore", "enter", "none", e)]
      <3>1. PICK e \in Emails :
              task' = [task EXCEPT ![d][i] =
                         Begun("restore", "enter", "none", e)]
        BY <2>3
      <3> DEFINE v == Begun("restore", "enter", "none", e)
      <3>2. v \in Task /\ v.pc = "enter" /\ v.email = e
        BY BegunFields DEF Flow, Pc, IO
      <3>3. task' = [task EXCEPT ![d][i] = v]
        BY <3>1
      <3> HIDE DEF v
      <3>4. TaskFine(v, user'[d], screen'[d])
        BY <1>2, <3>2 DEF TaskFine, Entered
      <3>5. task \in [Devices -> [Slots -> Task]]
        BY DEF Sound, TypeOK
      <3>6. /\ task' \in [Devices -> [Slots -> Task]]
            /\ task'[d][i] = v
            /\ \A k \in Slots \ {i} : task'[d][k] = task[d][k]
            /\ \A c \in Devices \ {d} : task'[c] = task[c]
        BY <3>2, <3>3, <3>5, TableUpdate
      <3> QED BY <2>1, <3>4, <3>6
    <2> QED BY <1>3, <2>2, <2>3
  <1>5. PhoneFine(d)'
    BY <1>1, <1>2, <1>4 DEF Sound, PhoneFine, ScreenFine, NamingFine
  <1>6. ASSUME NEW e \in Devices, e # d
        PROVE  PhoneFine(e)'
    BY <1>1, <1>2, <1>4, <1>6 DEF Sound, PhoneFine
  <1> QED BY <1>1, <1>2, <1>4, <1>5, <1>6
             DEF Sound, TypeOK, history, cloud

-----------------------------------------------------------------------------
(* Queues *)

\* A write the app has just made.
NewWrite(doc, name, by) ==
  [doc |-> doc, name |-> name, applied |-> FALSE, by |-> by]

LEMMA NewWriteFields ==
  ASSUME NEW doc \in Docs, NEW name \in Names \cup {None},
         NEW by \in Slots \cup Taps
  PROVE  /\ NewWrite(doc, name, by) \in Write
         /\ NewWrite(doc, name, by).doc = doc
         /\ NewWrite(doc, name, by).name = name
         /\ NewWrite(doc, name, by).by = by
         /\ ~NewWrite(doc, name, by).applied
  <1>1. ASSUME NEW b \in BOOLEAN, NEW w,
               w = [doc |-> doc, name |-> name, applied |-> b, by |-> by]
        PROVE  /\ w \in Write /\ w.doc = doc /\ w.name = name /\ w.by = by
               /\ w.applied = b
    BY <1>1 DEF Write
  <1>2. FALSE \in BOOLEAN
    OBVIOUS
  <1>3. /\ NewWrite(doc, name, by) \in Write
        /\ NewWrite(doc, name, by).doc = doc
        /\ NewWrite(doc, name, by).name = name
        /\ NewWrite(doc, name, by).by = by
        /\ NewWrite(doc, name, by).applied = FALSE
    BY <1>1, <1>2, Zenon DEF NewWrite
  <1> QED BY <1>3, Zenon

\* It joins the queue of the user signed in.
LEMMA SetDataQueues ==
  ASSUME Sound, NEW d \in Devices, NEW doc \in Docs,
         NEW name \in Names \cup {None}, NEW by \in Slots \cup Taps,
         SetData(d, doc, name, by)
  PROVE  /\ outbox' \in [Devices -> [Emails \cup {None} -> Seq(Write)]]
         /\ outbox'[d] = [outbox[d] EXCEPT ![auth[d]] =
                            Append(@, NewWrite(doc, name, by))]
         /\ \A e \in Devices \ {d} : outbox'[e] = outbox[e]
  <1> DEFINE w == NewWrite(doc, name, by)
             q == Append(Queue(d), w)
  <1>1. w \in Write
    BY NewWriteFields
  <1>2. /\ auth[d] \in Boxes /\ Queue(d) \in Seq(Write)
        /\ outbox \in [Devices -> [Boxes -> Seq(Write)]]
        /\ Queue(d) = outbox[d][auth[d]]
    BY PhoneTypes DEF Sound, TypeOK, Boxes
  <1>3. outbox' = [outbox EXCEPT ![d][auth[d]] = Append(@, w)]
    BY Zenon DEF SetData, NewWrite
  <1> HIDE DEF w
  <1>4. outbox' = [outbox EXCEPT ![d][auth[d]] = q]
    BY <1>2, <1>3
  <1>5. q \in Seq(Write)
    BY <1>1, <1>2, AppendProperties
  <1> HIDE DEF q
  <1>6. /\ outbox' \in [Devices -> [Boxes -> Seq(Write)]]
        /\ outbox'[d] = [outbox[d] EXCEPT ![auth[d]] = q]
        /\ \A e \in Devices \ {d} : outbox'[e] = outbox[e]
    BY <1>2, <1>4, <1>5, TableUpdate
  <1>7. [outbox[d] EXCEPT ![auth[d]] = q]
          = [outbox[d] EXCEPT ![auth[d]] = Append(@, w)]
    BY <1>2 DEF q
  <1> QED BY <1>6, <1>7 DEF w, Boxes

-----------------------------------------------------------------------------
(* Replies about users documents keep the types and PhoneFine *)

\* The document was read: it is decoded, or created, or neither.
LEMMA GetReplySound ==
  ASSUME Sound, NEW d \in Devices, NEW i \in Slots, GetReply(d, i)
  PROVE  Sound'
  <1> DEFINE t == task[d][i]
             k == Key[t.email]
  <1>1. /\ t \in Task /\ t.pc = "get" /\ k \in Docs
        /\ TaskFine(t, user[d], screen[d])
        /\ UNCHANGED <<cloud, auth, google, screen, submitting, naming,
                       history>>
    BY TaskFacts DEF GetReply
  <1>2. /\ outbox \in [Devices -> [Emails \cup {None} -> Seq(Write)]]
        /\ alert \in [Devices -> BOOLEAN]
    BY DEF Sound, TypeOK
  <1>3. /\ outbox' \in [Devices -> [Emails \cup {None} -> Seq(Write)]]
        /\ alert' \in [Devices -> BOOLEAN]
        /\ task' \in [Devices -> [Slots -> Task]]
        /\ user' \in [Devices -> UserRecord]
        /\ \A e \in Devices : PhoneFine(e)'
    <2>1. CASE /\ t.found # None
               /\ user' = [user EXCEPT ![d] =
                    [doc |-> k, username |-> t.found.username]]
               /\ \/ Await(d, i, "rename")
                  \/ task' = [task EXCEPT ![d][i] = NoTask]
               /\ UNCHANGED <<outbox, alert>>
      <3> DEFINE x == [doc |-> k, username |-> t.found.username]
      <3>1. t.found.username \in Names \cup {None}
        BY <1>1, <2>1 DEF Task, UserDoc
      <3>2. x \in UserRecord /\ x # NoUser
        BY <1>1, <3>1, SomeUser
      <3>3. user' = [user EXCEPT ![d] = x]
        BY <2>1
      <3> HIDE DEF x
      <3>4. CASE Await(d, i, "rename")
        <4>1. task' = [task EXCEPT ![d][i] = Moved(t, "rename", "sent", None)]
          BY <3>4, AwaitMoves DEF Pc
        <4>2. "rename" \in Pc /\ "sent" \in IO
          BY DEF Pc, IO
        <4> QED BY <1>1, <1>2, <2>1, <3>2, <3>3, <4>1, <4>2, TaskGoesOn
      <3>5. CASE task' = [task EXCEPT ![d][i] = NoTask]
        BY <1>1, <1>2, <2>1, <3>2, <3>3, <3>5, TaskEnds
      <3> QED BY <2>1, <3>4, <3>5
    <2>2. CASE /\ SetData(d, k, None, i)
               /\ Await(d, i, "create")
               /\ UNCHANGED <<user, alert>>
      <3>1. task' = [task EXCEPT ![d][i] = Moved(t, "create", "sent", None)]
        BY <2>2, AwaitMoves DEF Pc
      <3>2. "create" \in Pc /\ "sent" \in IO /\ "create" # "idle"
        BY DEF Pc, IO
      <3>3. user[d] \in UserRecord /\ user' = [user EXCEPT ![d] = user[d]]
        BY <2>2, SameUser
      <3>4. (t.live /\ Entered(Moved(t, "create", "sent", None)))
              => user[d] # NoUser
        <4>1. /\ Moved(t, "create", "sent", None).pc = "create"
              /\ Moved(t, "create", "sent", None).flow = t.flow
          BY <1>1, <3>2, MovedFields
        <4> QED BY <1>1, <4>1 DEF Entered, TaskFine
      <3>5. outbox' \in [Devices -> [Emails \cup {None} -> Seq(Write)]]
        BY <1>1, <2>2, SetDataQueues
      <3> QED BY <1>1, <1>2, <2>2, <3>1, <3>2, <3>3, <3>4, <3>5, TaskGoesOn
    <2>3. CASE Fail(d, i) /\ UNCHANGED <<user, outbox>>
      BY <1>1, <1>2, <2>3, FailFacts, TaskEndsAlone
    <2> QED BY <2>1, <2>2, <2>3 DEF GetReply
  <1> QED BY <1>1, <1>3 DEF Sound, TypeOK, history, cloud

\* The document was set, or not.
LEMMA CreateReplySound ==
  ASSUME Sound, NEW d \in Devices, NEW i \in Slots, CreateReply(d, i)
  PROVE  Sound'
  <1> DEFINE t == task[d][i]
  <1>1. /\ t \in Task /\ t.pc = "create" /\ t.email \in Emails
        /\ t.found \in UserDoc \cup {None}
        /\ UNCHANGED <<cloud, outbox, auth, google, screen, submitting,
                       naming, history>>
    BY TaskFacts DEF CreateReply, Task
  <1>2. alert \in [Devices -> BOOLEAN]
    BY DEF Sound, TypeOK
  <1>3. /\ alert' \in [Devices -> BOOLEAN]
        /\ task' \in [Devices -> [Slots -> Task]]
        /\ user' \in [Devices -> UserRecord]
        /\ \A e \in Devices : PhoneFine(e)'
    <2>1. CASE /\ user' = [user EXCEPT ![d] = FreshUser(t.email)]
               /\ task' = [task EXCEPT ![d][i] =
                    [t EXCEPT !.pc = "replace", !.io = "none"]]
               /\ UNCHANGED alert
      <3> DEFINE x == FreshUser(t.email)
      <3>1. x \in UserRecord /\ x # NoUser
        BY <1>1, FreshIsUser
      <3>2. user' = [user EXCEPT ![d] = x]
        BY <2>1
      <3>3. "replace" \in Pc /\ "none" \in IO
        BY DEF Pc, IO
      <3>4. [t EXCEPT !.pc = "replace", !.io = "none"]
              = Moved(t, "replace", "none", t.found)
        <4> HIDE DEF t
        <4> QED BY <1>1 DEF Moved, Task
      <3>5. task' = [task EXCEPT ![d][i] =
                       Moved(t, "replace", "none", t.found)]
        BY <2>1, <3>4
      <3> HIDE DEF x
      <3>6. /\ "replace" # "idle" /\ task[d][i].pc # "idle"
            /\ task[d][i].found \in UserDoc \cup {None}
            /\ UNCHANGED <<screen, naming>>
        BY <1>1
      <3>7. /\ task' \in [Devices -> [Slots -> Task]]
            /\ user' \in [Devices -> UserRecord]
            /\ \A e \in Devices : PhoneFine(e)'
        BY <3>1, <3>2, <3>3, <3>5, <3>6, TaskGoesOn
      <3> QED BY <1>2, <2>1, <3>7
    <2>2. CASE /\ task' = [task EXCEPT ![d][i] = NoTask]
               /\ UNCHANGED <<user, alert>>
      BY <1>1, <1>2, <2>2, TaskEndsAlone
    <2>3. CASE Fail(d, i) /\ UNCHANGED user
      BY <1>1, <1>2, <2>3, FailFacts, TaskEndsAlone
    <2> QED BY <2>1, <2>2, <2>3 DEF CreateReply
  <1> QED BY <1>1, <1>3 DEF Sound, TypeOK, history, cloud

\* What a reply with a name makes of the user.
Named(u, found) == IF found = None THEN u ELSE SetUsername(u, found.username)

LEMMA NamedType ==
  ASSUME NEW u \in UserRecord, NEW found \in UserDoc \cup {None}
  PROVE  /\ Named(u, found) \in UserRecord
         /\ u # NoUser => Named(u, found) # NoUser
  <1>1. CASE found = None
    BY <1>1 DEF Named
  <1>2. CASE found # None
    <2>1. found.username \in Names \cup {None}
      BY <1>2 DEF UserDoc
    <2> QED BY <1>2, <2>1, SetUsernameType DEF Named
  <1> QED BY <1>1, <1>2

\* The name was read, or not.
LEMMA NameReplySound ==
  ASSUME Sound, NEW d \in Devices, NEW i \in Slots, NameReply(d, i)
  PROVE  Sound'
  <1> DEFINE t == task[d][i]
  <1>1. /\ t \in Task /\ t.pc \in {"rename", "name"} /\ t.pc # "idle"
        /\ t.found \in UserDoc \cup {None}
        /\ TaskFine(t, user[d], screen[d])
        /\ UNCHANGED <<cloud, outbox, auth, google, screen, submitting,
                       naming, history>>
    BY TaskFacts DEF NameReply, Task
  <1>2. alert \in [Devices -> BOOLEAN]
    BY DEF Sound, TypeOK
  <1>3. /\ alert' \in [Devices -> BOOLEAN]
        /\ task' \in [Devices -> [Slots -> Task]]
        /\ user' \in [Devices -> UserRecord]
        /\ \A e \in Devices : PhoneFine(e)'
    <2>1. CASE /\ user' = [user EXCEPT ![d] =
                    IF t.found = None THEN @
                    ELSE SetUsername(@, t.found.username)]
               /\ task' = [task EXCEPT ![d][i] =
                    IF t.pc = "name" THEN NoTask
                    ELSE [t EXCEPT !.pc = "replace", !.io = "none",
                                   !.found = None]]
               /\ UNCHANGED alert
      <3> DEFINE x == Named(user[d], t.found)
      <3>1. x \in UserRecord /\ (user[d] # NoUser => x # NoUser)
        BY <1>1, PhoneTypes, NamedType DEF Sound
      <3>2. user' = [user EXCEPT ![d] = x]
        BY <2>1 DEF Named
      <3>3. "replace" \in Pc /\ "none" \in IO /\ "replace" # "idle"
        BY DEF Pc, IO
      <3>4. t.live => user[d] # NoUser
        BY <1>1 DEF TaskFine, Entered
      <3> HIDE DEF x
      <3>5. CASE t.pc = "name"
        <4>1. task' = [task EXCEPT ![d][i] = NoTask]
          BY <2>1, <3>5
        <4> QED BY <1>1, <1>2, <2>1, <3>1, <3>2, <4>1, TaskEnds
      <3>6. CASE t.pc # "name"
        <4>1. task' = [task EXCEPT ![d][i] = Moved(t, "replace", "none", None)]
          BY <2>1, <3>6 DEF Moved
        <4>2. /\ task[d][i].pc # "idle" /\ None \in UserDoc \cup {None}
              /\ UNCHANGED <<screen, naming>>
              /\ (task[d][i].live
                    /\ Entered(Moved(task[d][i], "replace", "none", None)))
                  => x # NoUser
          BY <1>1, <3>1, <3>4
        <4>3. /\ task' \in [Devices -> [Slots -> Task]]
              /\ user' \in [Devices -> UserRecord]
              /\ \A e \in Devices : PhoneFine(e)'
          BY <3>1, <3>2, <3>3, <4>1, <4>2, TaskGoesOn
        <4> QED BY <1>2, <2>1, <4>3
      <3> QED BY <3>5, <3>6
    <2>2. CASE Fail(d, i) /\ UNCHANGED user
      BY <1>1, <1>2, <2>2, FailFacts, TaskEndsAlone
    <2> QED BY <2>1, <2>2 DEF NameReply
  <1> QED BY <1>1, <1>3 DEF Sound, TypeOK, history, cloud

-----------------------------------------------------------------------------
(* Screens keep the types and PhoneFine *)

Screens == {"appearing", "login", "loading", "game", "sheet"}

\* Alerts on the LoginView.
LEMMA AlertsSound ==
  ASSUME Sound, NEW d \in Devices, EmptyForm(d) \/ DismissAlert(d)
  PROVE  Sound'
  <1>1. PICK b \in BOOLEAN : alert' = [alert EXCEPT ![d] = b]
    <2>1. TRUE \in BOOLEAN /\ FALSE \in BOOLEAN
      OBVIOUS
    <2> QED BY <2>1, Zenon DEF EmptyForm, DismissAlert
  <1>2. alert' \in [Devices -> BOOLEAN]
    BY <1>1, RowUpdate DEF Sound, TypeOK
  <1>3. UNCHANGED <<cloud, outbox, auth, google, user, screen, submitting,
                    task, naming, history>>
    BY DEF EmptyForm, DismissAlert
  <1> QED BY <1>2, <1>3 DEF Sound, TypeOK, PhoneFine, cloud, history

\* The game opens: the tasks of the LoginView have no view any more.
LEMMA OpenGameSound ==
  ASSUME Sound, NEW d \in Devices, OpenGame(d)
  PROVE  Sound'
  <1> DEFINE F == [i \in Slots |-> [task[d][i] EXCEPT !.live = FALSE]]
  <1>1. /\ user[d] # NoUser
        /\ screen[d] = "login"
        /\ screen' = [screen EXCEPT ![d] = "loading"]
        /\ task' = [task EXCEPT ![d] = F]
        /\ UNCHANGED <<cloud, outbox, auth, google, user, submitting, naming,
                       history>>
    BY DEF OpenGame
  <1>2. alert' \in [Devices -> BOOLEAN]
    <2>1. FALSE \in BOOLEAN /\ alert \in [Devices -> BOOLEAN]
      BY DEF Sound, TypeOK
    <2>2. alert' = [alert EXCEPT ![d] = FALSE]
      BY DEF OpenGame
    <2> QED BY <2>1, <2>2, RowUpdate, Zenon
  <1>3. ASSUME NEW i \in Slots
        PROVE  F[i] \in Task /\ TaskFine(F[i], user[d], "loading")
    <2> DEFINE t == task[d][i]
    <2>1. t \in Task /\ (t.pc # "idle" => t.email \in Emails)
      BY TaskFacts
    <2> HIDE DEF t
    <2>2. ASSUME NEW b \in BOOLEAN
          PROVE  /\ [t EXCEPT !.live = b] \in Task
                 /\ [t EXCEPT !.live = b].live = b
                 /\ [t EXCEPT !.live = b].pc = t.pc
                 /\ [t EXCEPT !.live = b].email = t.email
      BY <2>1 DEF Task
    <2>3. FALSE \in BOOLEAN
      OBVIOUS
    <2>4. F[i] = [t EXCEPT !.live = FALSE]
      BY DEF t
    <2> HIDE DEF F
    <2>5. /\ F[i] \in Task /\ F[i].live = FALSE
          /\ F[i].pc = t.pc /\ F[i].email = t.email
      BY <2>2, <2>3, <2>4, Zenon
    <2>6. ~F[i].live
      BY <2>5, Zenon
    <2> QED BY <2>1, <2>5, <2>6 DEF TaskFine
  <1>4. F \in [Slots -> Task]
    BY <1>3
  <1> HIDE DEF F
  <1>5. /\ task' \in [Devices -> [Slots -> Task]] /\ task'[d] = F
        /\ \A e \in Devices \ {d} : task'[e] = task[e]
    BY <1>1, <1>4, RowUpdate DEF Sound, TypeOK
  <1>6. /\ screen' \in [Devices -> Screens] /\ screen'[d] = "loading"
        /\ \A e \in Devices \ {d} : screen'[e] = screen[e]
    BY <1>1 DEF Sound, TypeOK, Screens
  <1>7. PhoneFine(d)'
    BY <1>1, <1>3, <1>5, <1>6
       DEF Sound, PhoneFine, ScreenFine, NamingFine
  <1>8. ASSUME NEW e \in Devices, e # d
        PROVE  PhoneFine(e)'
    BY <1>1, <1>5, <1>6, <1>8 DEF Sound, PhoneFine
  <1> QED BY <1>1, <1>2, <1>5, <1>6, <1>7, <1>8
             DEF Sound, TypeOK, history, cloud, Screens

\* The game goes from one of its screens to another.
LEMMA ScreenSound ==
  ASSUME Sound, NEW d \in Devices, Loaded(d) \/ Reappear(d)
  PROVE  Sound'
  <1>1. /\ screen[d] \in {"loading", "game"}
        /\ UNCHANGED <<cloud, outbox, auth, google, user, alert, task, naming,
                       history>>
    BY DEF Loaded, Reappear
  <1>2. PICK s \in {"loading", "game", "sheet"} :
          screen' = [screen EXCEPT ![d] = s]
    BY DEF Loaded, Reappear
  <1>3. /\ screen' \in [Devices -> Screens] /\ screen'[d] = s
        /\ \A e \in Devices \ {d} : screen'[e] = screen[e]
    BY <1>2 DEF Sound, TypeOK, Screens
  <1>4. submitting' \in [Devices -> BOOLEAN]
    <2>1. FALSE \in BOOLEAN /\ submitting \in [Devices -> BOOLEAN]
      BY DEF Sound, TypeOK
    <2>2. submitting' = [submitting EXCEPT ![d] = FALSE]
            \/ submitting' = submitting
      BY DEF Loaded, Reappear
    <2> QED BY <2>1, <2>2, RowUpdate, Zenon
  <1>5. PhoneFine(d)'
    <2>1. PhoneFine(d)
      BY DEF Sound
    <2>2. ScreenFine(user'[d], screen'[d])
      BY <1>1, <2>1 DEF PhoneFine, ScreenFine
    <2>3. \A i \in Slots : TaskFine(task'[d][i], user'[d], screen'[d])
      BY <1>1, <2>1 DEF PhoneFine, TaskFine
    <2>4. \A t \in Taps : NamingFine(naming'[d][t], screen'[d])
      BY <1>1, <2>1 DEF PhoneFine, NamingFine
    <2> QED BY <2>2, <2>3, <2>4 DEF PhoneFine
  <1>6. ASSUME NEW e \in Devices, e # d
        PROVE  PhoneFine(e)'
    BY <1>1, <1>3, <1>6 DEF Sound, PhoneFine
  <1> QED BY <1>1, <1>3, <1>4, <1>5, <1>6
             DEF Sound, TypeOK, history, cloud, Screens

\* Logging out, whatever signOut does.
LEMMA LogoutSound ==
  ASSUME Sound, NEW d \in Devices, Logout(d)
  PROVE  Sound'
  <1>1. /\ screen[d] \in {"loading", "game"}
        /\ user' = [user EXCEPT ![d] = NoUser]
        /\ screen' = [screen EXCEPT ![d] = "appearing"]
        /\ UNCHANGED <<cloud, outbox, alert, submitting, task, naming,
                       history>>
    BY DEF Logout
  <1>2. /\ screen' \in [Devices -> Screens] /\ screen'[d] = "appearing"
        /\ \A e \in Devices \ {d} : screen'[e] = screen[e]
    BY <1>1 DEF Sound, TypeOK, Screens
  <1>3. /\ user' \in [Devices -> UserRecord]
        /\ \A e \in Devices \ {d} : user'[e] = user[e]
    BY <1>1, IdleTypes, RowUpdate DEF Sound, TypeOK
  <1>4. /\ google' \in [Devices -> Emails \cup {None}]
        /\ auth' \in [Devices -> Emails \cup {None}]
    BY DEF Sound, TypeOK, Logout
  <1>5. PhoneFine(d)'
    <2>1. PhoneFine(d)
      BY DEF Sound
    <2>2. ScreenFine(user'[d], screen'[d])
      BY <1>2 DEF ScreenFine
    <2>3. \A i \in Slots : TaskFine(task'[d][i], user'[d], screen'[d])
      BY <1>1, <2>1 DEF PhoneFine, TaskFine
    <2>4. \A t \in Taps : NamingFine(naming'[d][t], screen'[d])
      BY <1>1, <2>1 DEF PhoneFine, NamingFine
    <2> QED BY <2>2, <2>3, <2>4 DEF PhoneFine
  <1>6. ASSUME NEW e \in Devices, e # d
        PROVE  PhoneFine(e)'
    BY <1>1, <1>2, <1>3, <1>6 DEF Sound, PhoneFine
  <1> QED BY <1>1, <1>2, <1>3, <1>4, <1>5, <1>6
             DEF Sound, TypeOK, history, cloud, Screens

-----------------------------------------------------------------------------
(* The username sheet keeps the types and PhoneFine *)

\* A task of the Submit button moves on.
LEMMA NamingMoves ==
  ASSUME Sound, NEW d \in Devices, NEW t \in Taps, NEW v \in Naming,
         NamingFine(v, screen[d]), naming' = [naming EXCEPT ![d][t] = v],
         UNCHANGED <<user, screen, task>>
  PROVE  /\ naming' \in [Devices -> [Taps -> Naming]]
         /\ naming'[d][t] = v
         /\ \A k \in Taps \ {t} : naming'[d][k] = naming[d][k]
         /\ \A e \in Devices \ {d} : naming'[e] = naming[e]
         /\ \A e \in Devices : PhoneFine(e)'
  <1>1. naming \in [Devices -> [Taps -> Naming]]
    BY DEF Sound, TypeOK
  <1>2. /\ naming' \in [Devices -> [Taps -> Naming]]
        /\ naming'[d][t] = v
        /\ \A k \in Taps \ {t} : naming'[d][k] = naming[d][k]
        /\ \A e \in Devices \ {d} : naming'[e] = naming[e]
    BY <1>1, TableUpdate
  <1>3. PhoneFine(d)'
    <2>1. PhoneFine(d)
      BY DEF Sound
    <2>2. ASSUME NEW k \in Taps
          PROVE  NamingFine(naming'[d][k], screen'[d])
      <3>1. CASE k = t
        BY <1>2, <3>1
      <3>2. CASE k # t
        BY <1>2, <2>1, <3>2 DEF PhoneFine
      <3> QED BY <3>1, <3>2
    <2> QED BY <2>1, <2>2 DEF PhoneFine
  <1>4. ASSUME NEW e \in Devices, e # d
        PROVE  PhoneFine(e)'
    BY <1>2, <1>4 DEF Sound, PhoneFine
  <1> QED BY <1>2, <1>3, <1>4

\* What is known of a task of the Submit button.
LEMMA NamingFacts ==
  ASSUME Sound, NEW d \in Devices, NEW t \in Taps
  PROVE  /\ naming[d][t] \in Naming
         /\ NamingFine(naming[d][t], screen[d])
         /\ (naming[d][t].pc = "queued" \/ naming[d][t].live)
              => /\ screen[d] = "sheet" /\ user[d] # NoUser
                 /\ user[d].doc \in Docs
  <1>1. /\ naming[d][t] \in Naming /\ user[d] \in UserRecord
        /\ NamingFine(naming[d][t], screen[d])
        /\ ScreenFine(user[d], screen[d])
    BY PhoneTypes DEF Sound, PhoneFine
  <1>2. (naming[d][t].pc = "queued" \/ naming[d][t].live)
          => screen[d] = "sheet" /\ user[d] # NoUser
    BY <1>1 DEF NamingFine, ScreenFine
  <1> QED BY <1>1, <1>2, UserFields

LEMMA TapUsernameSound ==
  ASSUME Sound, NEW d \in Devices, NEW t \in Taps, TapUsername(d, t)
  PROVE  Sound'
  <1> DEFINE n == naming[d][t]
             v == [n EXCEPT !.pc = "queued"]
  <1>1. /\ n \in Naming /\ screen[d] = "sheet"
        /\ naming' = [naming EXCEPT ![d][t].pc = "queued"]
        /\ UNCHANGED <<cloud, outbox, device, task, history>>
    BY NamingFacts DEF TapUsername
  <1>2. naming' = [naming EXCEPT ![d][t] = v]
    BY <1>1
  <1> HIDE DEF n
  <1>3. v \in Naming /\ v.pc = "queued"
    BY <1>1 DEF Naming
  <1> HIDE DEF v
  <1>4. NamingFine(v, screen[d])
    BY <1>1, <1>3 DEF NamingFine
  <1>5. /\ naming' \in [Devices -> [Taps -> Naming]]
        /\ \A e \in Devices : PhoneFine(e)'
    BY <1>1, <1>2, <1>3, <1>4, NamingMoves DEF device
  <1> QED BY <1>1, <1>5 DEF Sound, TypeOK, device, cloud, history

\* A task of the button that has sent its write.
Writing(doc, name) ==
  [pc |-> "write", io |-> "sent", doc |-> doc, name |-> name, live |-> TRUE]

LEMMA WritingFields ==
  ASSUME NEW doc \in Docs, NEW name \in Names
  PROVE  /\ Writing(doc, name) \in Naming
         /\ Writing(doc, name).pc = "write" /\ Writing(doc, name).io = "sent"
         /\ Writing(doc, name).doc = doc /\ Writing(doc, name).name = name
  <1>1. ASSUME NEW b \in BOOLEAN, NEW v,
               v = [pc |-> "write", io |-> "sent", doc |-> doc,
                    name |-> name, live |-> b]
        PROVE  /\ v \in Naming /\ v.pc = "write" /\ v.io = "sent"
               /\ v.doc = doc /\ v.name = name
    BY <1>1 DEF Naming, IO
  <1>2. TRUE \in BOOLEAN
    OBVIOUS
  <1> QED BY <1>1, <1>2, Zenon DEF Writing

\* What SubmitUsername does.
LEMMA SubmitUsernameFacts ==
  ASSUME Sound, NEW d \in Devices, NEW t \in Taps, NEW name \in Names,
         SubmitUsername(d, t, name)
  PROVE  /\ user[d].doc \in Docs /\ screen[d] = "sheet"
         /\ SetData(d, user[d].doc, name, t)
         /\ naming[d][t].pc = "queued"
         /\ naming' = [naming EXCEPT ![d][t] = Writing(user[d].doc, name)]
         /\ submitting' \in [Devices -> BOOLEAN]
         /\ UNCHANGED <<cloud, auth, google, user, screen, alert, task,
                        history>>
  <1>1. /\ naming[d][t].pc = "queued" /\ SetData(d, user[d].doc, name, t)
        /\ naming' = [naming EXCEPT ![d][t] = Writing(user[d].doc, name)]
        /\ submitting' = [submitting EXCEPT ![d] = TRUE]
        /\ UNCHANGED <<cloud, auth, google, user, screen, alert, task,
                       history>>
    BY Zenon DEF SubmitUsername, Writing
  <1>2. submitting' \in [Devices -> BOOLEAN]
    <2>1. TRUE \in BOOLEAN /\ submitting \in [Devices -> BOOLEAN]
      BY DEF Sound, TypeOK
    <2> QED BY <1>1, <2>1, RowUpdate, Zenon
  <1>3. user[d].doc \in Docs /\ screen[d] = "sheet"
    BY <1>1, NamingFacts
  <1> QED BY <1>1, <1>2, <1>3

LEMMA SubmitUsernameSound ==
  ASSUME Sound, NEW d \in Devices, NEW t \in Taps, NEW name \in Names,
         SubmitUsername(d, t, name)
  PROVE  Sound'
  <1> DEFINE v == Writing(user[d].doc, name)
  <1>1. /\ user[d].doc \in Docs /\ screen[d] = "sheet"
        /\ SetData(d, user[d].doc, name, t)
        /\ naming' = [naming EXCEPT ![d][t] = v]
        /\ submitting' \in [Devices -> BOOLEAN]
        /\ UNCHANGED <<cloud, auth, google, user, screen, alert, task,
                       history>>
    BY SubmitUsernameFacts
  <1>2. /\ v \in Naming /\ v.pc = "write" /\ v.doc \in Docs
        /\ v.name \in Names
    BY <1>1, WritingFields
  <1>3. outbox' \in [Devices -> [Emails \cup {None} -> Seq(Write)]]
    BY <1>1, SetDataQueues
  <1> HIDE DEF v
  <1>4. NamingFine(v, screen[d])
    BY <1>1, <1>2 DEF NamingFine
  <1>5. /\ naming' \in [Devices -> [Taps -> Naming]]
        /\ \A e \in Devices : PhoneFine(e)'
    BY <1>1, <1>2, <1>4, NamingMoves
  <1> QED BY <1>1, <1>3, <1>5 DEF Sound, TypeOK, cloud, history

\* The tasks of the other taps lose their sheet, if it is dismissed.
Detached(n, dismissed) == [n EXCEPT !.live = @ /\ ~dismissed]

LEMMA DetachedFields ==
  ASSUME NEW n \in Naming, NEW b \in BOOLEAN
  PROVE  /\ Detached(n, b) \in Naming
         /\ Detached(n, b).pc = n.pc /\ Detached(n, b).io = n.io
         /\ Detached(n, b).doc = n.doc /\ Detached(n, b).name = n.name
         /\ Detached(n, b).live <=> n.live /\ ~b
  <1> DEFINE c == n.live /\ ~b
  <1>1. c \in BOOLEAN
    OBVIOUS
  <1>2. Detached(n, b) = [n EXCEPT !.live = c]
    BY Zenon DEF Detached
  <1> HIDE DEF c
  <1>3. /\ Detached(n, b) \in Naming
        /\ Detached(n, b).pc = n.pc /\ Detached(n, b).io = n.io
        /\ Detached(n, b).doc = n.doc /\ Detached(n, b).name = n.name
        /\ Detached(n, b).live = c
    BY <1>1, <1>2 DEF Naming
  <1>4. Detached(n, b).live <=> c
    BY <1>3, Zenon
  <1> QED BY <1>3, <1>4 DEF c

\* The name is given to whoever is currentUser.
LEMMA UsernameSavedFacts ==
  ASSUME Sound, NEW d \in Devices, NEW t \in Taps, UsernameSaved(d, t)
  PROVE  /\ naming[d][t].pc = "write" /\ naming[d][t].io = "done"
         /\ user' = [user EXCEPT ![d] =
                        SetUsername(user[d], naming[d][t].name)]
         /\ naming'[d][t] \in Naming /\ naming'[d][t].pc = "back"
         /\ naming'[d][t].doc = naming[d][t].doc
         /\ naming'[d][t].name = naming[d][t].name
         /\ naming'[d][t].live = naming[d][t].live
         /\ \A k \in Taps \ {t} : naming'[d][k] = naming[d][k]
         /\ \A e \in Devices \ {d} : naming'[e] = naming[e]
         /\ naming' \in [Devices -> [Taps -> Naming]]
         /\ UNCHANGED <<cloud, outbox, auth, google, screen, alert,
                        submitting, task, history>>
  <1> DEFINE n == naming[d][t]
             v == [n EXCEPT !.pc = "back"]
  <1>1. /\ naming \in [Devices -> [Taps -> Naming]] /\ n \in Naming
        /\ n.pc = "write" /\ n.io = "done"
        /\ user' = [user EXCEPT ![d] = SetUsername(user[d], n.name)]
        /\ naming' = [naming EXCEPT ![d][t].pc = "back"]
        /\ UNCHANGED <<cloud, outbox, auth, google, screen, alert,
                       submitting, task, history>>
    BY NamingFacts DEF UsernameSaved, Sound, TypeOK
  <1>2. naming' = [naming EXCEPT ![d][t] = v]
    BY <1>1
  <1>3. /\ v \in Naming /\ v.pc = "back" /\ v.doc = n.doc
        /\ v.name = n.name /\ v.live = n.live
    <2> HIDE DEF n
    <2> QED BY <1>1 DEF Naming
  <1> HIDE DEF v
  <1>4. /\ naming' \in [Devices -> [Taps -> Naming]]
        /\ naming'[d][t] = v
        /\ \A k \in Taps \ {t} : naming'[d][k] = naming[d][k]
        /\ \A e \in Devices \ {d} : naming'[e] = naming[e]
    BY <1>1, <1>2, <1>3, TableUpdate
  <1> QED BY <1>1, <1>3, <1>4

LEMMA UsernameSavedSound ==
  ASSUME Sound, NEW d \in Devices, NEW t \in Taps, UsernameSaved(d, t)
  PROVE  Sound'
  <1> DEFINE n == naming[d][t]
             v == naming'[d][t]
             x == SetUsername(user[d], n.name)
  <1>1. /\ n.pc = "write" /\ user' = [user EXCEPT ![d] = x]
        /\ v \in Naming /\ v.pc = "back" /\ v.doc = n.doc
        /\ v.name = n.name /\ v.live = n.live
        /\ \A k \in Taps \ {t} : naming'[d][k] = naming[d][k]
        /\ \A e \in Devices \ {d} : naming'[e] = naming[e]
        /\ naming' \in [Devices -> [Taps -> Naming]]
        /\ UNCHANGED <<cloud, outbox, auth, google, screen, alert,
                       submitting, task, history>>
    BY UsernameSavedFacts
  <1>2. /\ n \in Naming /\ user[d] \in UserRecord
        /\ NamingFine(n, screen[d]) /\ PhoneFine(d)
    BY NamingFacts, PhoneTypes DEF Sound
  <1>3. n.doc \in Docs /\ n.name \in Names
    BY <1>1, <1>2 DEF NamingFine
  <1>4. x \in UserRecord /\ (user[d] # NoUser => x # NoUser)
    BY <1>2, <1>3, SetUsernameType
  <1>5. NamingFine(v, screen[d])
    BY <1>1, <1>2, <1>3 DEF NamingFine
  <1> HIDE DEF v, x, n
  <1>6. /\ user' \in [Devices -> UserRecord] /\ user'[d] = x
        /\ \A e \in Devices \ {d} : user'[e] = user[e]
    BY <1>1, <1>4, RowUpdate DEF Sound, TypeOK
  <1>7. PhoneFine(d)'
    <2>1. ScreenFine(x, screen[d])
      BY <1>2, <1>4 DEF PhoneFine, ScreenFine
    <2>2. \A i \in Slots : TaskFine(task[d][i], x, screen[d])
      BY <1>2, <1>4 DEF PhoneFine, TaskFine
    <2>3. ASSUME NEW k \in Taps
          PROVE  NamingFine(naming'[d][k], screen[d])
      <3>1. CASE k = t
        BY <1>5, <3>1 DEF v
      <3>2. CASE k # t
        BY <1>1, <1>2, <3>2 DEF PhoneFine
      <3> QED BY <3>1, <3>2
    <2> QED BY <1>1, <1>6, <2>1, <2>2, <2>3 DEF PhoneFine
  <1>8. ASSUME NEW e \in Devices, e # d
        PROVE  PhoneFine(e)'
    BY <1>1, <1>6, <1>8 DEF Sound, PhoneFine
  <1> QED BY <1>1, <1>6, <1>7, <1>8 DEF Sound, TypeOK, cloud, history

\* What a confirmed username does to the taps.
LEMMA UsernameDoneFacts ==
  ASSUME Sound, NEW d \in Devices, NEW t \in Taps,
         UsernameReply(d, t), naming[d][t].pc = "back"
  PROVE  LET n == naming[d][t] IN
         /\ n.doc \in Docs /\ n.name \in Names
         /\ \A k \in Taps : naming[d][k].pc # "queued"
         /\ screen' = [screen EXCEPT ![d] =
                         IF n.live THEN "game" ELSE screen[d]]
         /\ submitting' \in [Devices -> BOOLEAN]
         /\ confirmed' = confirmed \cup {[doc |-> n.doc, name |-> n.name]}
         /\ naming'[d][t] = NoNaming
         /\ \A k \in Taps \ {t} :
              naming'[d][k] = Detached(naming[d][k], n.live)
         /\ \A e \in Devices \ {d} : naming'[e] = naming[e]
         /\ naming' \in [Devices -> [Taps -> Naming]]
         /\ UNCHANGED <<cloud, outbox, auth, google, user, alert, task,
                        reached, attempts>>
  <1> DEFINE n == naming[d][t]
             F == [k \in Taps |-> IF k = t THEN NoNaming
                                  ELSE Detached(naming[d][k], n.live)]
  <1>1. /\ naming \in [Devices -> [Taps -> Naming]]
        /\ submitting \in [Devices -> BOOLEAN]
    BY DEF Sound, TypeOK
  <1>2. /\ \A k \in Taps : naming[d][k].pc # "queued"
        /\ screen' = [screen EXCEPT ![d] = IF n.live THEN "game" ELSE @]
        /\ submitting' = [submitting EXCEPT ![d] = @ /\ ~n.live]
        /\ confirmed' = confirmed \cup {[doc |-> n.doc, name |-> n.name]}
        /\ naming' = [naming EXCEPT ![d] = [other \in Taps |->
             IF other = t THEN NoNaming
             ELSE [naming[d][other] EXCEPT !.live = @ /\ ~n.live]]]
        /\ UNCHANGED <<cloud, outbox, auth, google, user, alert, task,
                       reached, attempts>>
    <2>1. n.pc # "write"
      OBVIOUS
    <2> QED BY <2>1, Zenon DEF UsernameReply, Dismiss
  <1>3. n \in Naming /\ n.doc \in Docs /\ n.name \in Names
    BY NamingFacts DEF NamingFine
  <1>4. n.live \in BOOLEAN
    BY <1>3 DEF Naming
  <1>5. submitting' \in [Devices -> BOOLEAN]
    <2> DEFINE b == submitting[d] /\ ~n.live
    <2>1. b \in BOOLEAN
      OBVIOUS
    <2>2. submitting' = [submitting EXCEPT ![d] = b]
      BY <1>2, Zenon
    <2> HIDE DEF b
    <2> QED BY <1>1, <2>1, <2>2, RowUpdate
  <1>6. naming' = [naming EXCEPT ![d] = F]
    BY <1>2, Zenon DEF Detached
  <1>7. F \in [Taps -> Naming]
    <2>1. ASSUME NEW k \in Taps
          PROVE  F[k] \in Naming
      <3>1. CASE k = t
        BY <3>1, IdleTypes
      <3>2. CASE k # t
        BY <1>1, <1>4, <3>2, DetachedFields
      <3> QED BY <3>1, <3>2
    <2> QED BY <2>1
  <1>8. /\ F[t] = NoNaming
        /\ \A k \in Taps \ {t} : F[k] = Detached(naming[d][k], n.live)
    OBVIOUS
  <1> HIDE DEF F
  <1>9. /\ naming' \in [Devices -> [Taps -> Naming]] /\ naming'[d] = F
        /\ \A e \in Devices \ {d} : naming'[e] = naming[e]
    BY <1>1, <1>6, <1>7, RowUpdate
  <1> QED BY <1>2, <1>3, <1>5, <1>8, <1>9

\* The name is confirmed, or the write was refused.
LEMMA UsernameReplySound ==
  ASSUME Sound, NEW d \in Devices, NEW t \in Taps, UsernameReply(d, t)
  PROVE  Sound'
  <1> DEFINE n == naming[d][t]
  <1>1. CASE n.pc = "back"
    <2> DEFINE s == IF n.live THEN "game" ELSE screen[d]
    <2>1. /\ n.doc \in Docs /\ n.name \in Names
          /\ screen' = [screen EXCEPT ![d] = s]
          /\ submitting' \in [Devices -> BOOLEAN]
          /\ confirmed' = confirmed \cup {[doc |-> n.doc, name |-> n.name]}
          /\ naming'[d][t] = NoNaming
          /\ \A k \in Taps \ {t} :
               naming'[d][k] = Detached(naming[d][k], n.live)
          /\ \A e \in Devices \ {d} : naming'[e] = naming[e]
          /\ naming' \in [Devices -> [Taps -> Naming]]
          /\ UNCHANGED <<cloud, outbox, auth, google, user, alert, task,
                         reached, attempts>>
      BY <1>1, UsernameDoneFacts
    <2>2. \A k \in Taps : naming[d][k].pc # "queued"
      BY <1>1, UsernameDoneFacts
    <2>3. /\ n \in Naming /\ user[d] \in UserRecord /\ n.live \in BOOLEAN
          /\ n.live => screen[d] = "sheet" /\ user[d] # NoUser
          /\ screen[d] \in Screens
      BY NamingFacts, PhoneTypes DEF Sound, TypeOK, Naming, Screens
    <2>5. s \in Screens /\ (s # screen[d] => n.live /\ s = "game")
      BY <2>3 DEF Screens
    <2>6. PhoneFine(d)
      BY DEF Sound
    <2>7. ASSUME NEW k \in Taps
          PROVE  NamingFine(naming'[d][k], s)
      <3>1. CASE k = t
        <4>1. /\ NoNaming.pc = "idle" /\ NoNaming.live = FALSE
          BY Zenon DEF NoNaming
        <4>2. ~NoNaming.live
          BY <4>1, Zenon
        <4> QED BY <2>1, <3>1, <4>1, <4>2 DEF NamingFine
      <3>2. CASE k # t
        <4> DEFINE m == naming[d][k]
                   v == naming'[d][k]
        <4>1. m \in Naming /\ NamingFine(m, screen[d]) /\ m.pc # "queued"
          BY <2>2, NamingFacts
        <4>2. v = Detached(m, n.live)
          BY <2>1, <3>2
        <4> HIDE DEF m, v, n
        <4>3. /\ v.pc = m.pc /\ v.doc = m.doc /\ v.name = m.name
              /\ v.live <=> m.live /\ ~n.live
          BY <2>3, <4>1, <4>2, DetachedFields
        <4>4. v.live => s = "sheet"
          BY <4>1, <4>3 DEF NamingFine
        <4>5. NamingFine(v, s)
          BY <4>1, <4>3, <4>4 DEF NamingFine
        <4> QED BY <4>5 DEF v
      <3> QED BY <3>1, <3>2
    <2> HIDE DEF s
    <2>9. /\ screen' \in [Devices -> Screens] /\ screen'[d] = s
          /\ \A e \in Devices \ {d} : screen'[e] = screen[e]
      BY <2>1, <2>5, RowUpdate DEF Sound, TypeOK, Screens
    <2>10. ScreenFine(user[d], s)
      BY <2>3, <2>5, <2>6 DEF PhoneFine, ScreenFine
    <2>11. \A i \in Slots : TaskFine(task[d][i], user[d], s)
      BY <2>3, <2>5, <2>6 DEF PhoneFine, TaskFine
    <2>12. PhoneFine(d)'
      BY <2>1, <2>7, <2>9, <2>10, <2>11 DEF PhoneFine
    <2>13. ASSUME NEW e \in Devices, e # d
          PROVE  PhoneFine(e)'
      BY <2>1, <2>9, <2>13 DEF Sound, PhoneFine
    <2>14. confirmed' \subseteq [doc : Docs, name : Names]
      BY <2>1 DEF Sound, TypeOK
    <2> QED BY <2>1, <2>9, <2>12, <2>13, <2>14
               DEF Sound, TypeOK, cloud, Screens
  <1>2. CASE n.pc # "back"
    <2>1. /\ naming' = [naming EXCEPT ![d][t] = NoNaming]
          /\ UNCHANGED <<user, screen, submitting, confirmed, cloud, outbox,
                         auth, google, alert, task, reached, attempts>>
      BY <1>2 DEF UsernameReply, Complain
    <2>2. NoNaming.pc = "idle" /\ NoNaming.live = FALSE
      BY Zenon DEF NoNaming
    <2>3. ~NoNaming.live
      BY <2>2, Zenon
    <2>4. NoNaming \in Naming /\ NamingFine(NoNaming, screen[d])
      BY <2>2, <2>3, IdleTypes DEF NamingFine
    <2> HIDE DEF NoNaming
    <2>5. /\ naming' \in [Devices -> [Taps -> Naming]]
          /\ \A e \in Devices : PhoneFine(e)'
      BY <2>1, <2>4, NamingMoves
    <2> QED BY <2>1, <2>5 DEF Sound, TypeOK, cloud
  <1> QED BY <1>1, <1>2

-----------------------------------------------------------------------------
(* The network and crashes keep the types and PhoneFine *)

\* What the backend, and a crash, make of a queue.
Marked(q, j) == [q EXCEPT ![j].applied = TRUE]
Orphaned(q) == [j \in 1..Len(q) |-> [q[j] EXCEPT !.by = None]]

LEMMA MarkedQueue ==
  ASSUME NEW q \in Seq(Write), NEW j \in 1..Len(q)
  PROVE  /\ Marked(q, j) \in Seq(Write)
         /\ Len(Marked(q, j)) = Len(q)
         /\ \A k \in 1..Len(q) : /\ Marked(q, j)[k].by = q[k].by
                                 /\ Marked(q, j)[k].doc = q[k].doc
                                 /\ Marked(q, j)[k].name = q[k].name
                                 /\ k # j => Marked(q, j)[k] = q[k]
  <1> DEFINE w == [q[j] EXCEPT !.applied = TRUE]
  <1>1. Len(q) \in Nat /\ q \in [1..Len(q) -> Write] /\ q[j] \in Write
    OBVIOUS
  <1>2. /\ w \in Write /\ w.by = q[j].by /\ w.doc = q[j].doc
        /\ w.name = q[j].name
    <2>1. ASSUME NEW b \in BOOLEAN, NEW v, v = [q[j] EXCEPT !.applied = b]
          PROVE  /\ v \in Write /\ v.by = q[j].by /\ v.doc = q[j].doc
                 /\ v.name = q[j].name
      BY <1>1, <2>1 DEF Write
    <2>2. TRUE \in BOOLEAN
      OBVIOUS
    <2> QED BY <2>1, <2>2, Zenon
  <1>3. Marked(q, j) = [q EXCEPT ![j] = w]
    BY Zenon DEF Marked
  <1> HIDE DEF w
  <1>4. /\ Marked(q, j) \in [1..Len(q) -> Write] /\ Marked(q, j)[j] = w
        /\ \A k \in 1..Len(q) : k # j => Marked(q, j)[k] = q[k]
    BY <1>1, <1>2, <1>3
  <1>5. Marked(q, j) \in Seq(Write) /\ Len(Marked(q, j)) = Len(q)
    BY <1>1, <1>4
  <1> QED BY <1>2, <1>4, <1>5

LEMMA OrphanedQueue ==
  ASSUME NEW q \in Seq(Write)
  PROVE  /\ Orphaned(q) \in Seq(Write)
         /\ Len(Orphaned(q)) = Len(q)
         /\ \A k \in 1..Len(q) : /\ Orphaned(q)[k].by = None
                                 /\ Orphaned(q)[k].doc = q[k].doc
                                 /\ Orphaned(q)[k].name = q[k].name
                                 /\ Orphaned(q)[k].applied = q[k].applied
  <1> DEFINE m == [k \in 1..Len(q) |-> [q[k] EXCEPT !.by = None]]
  <1>0. Len(q) \in Nat /\ \A k \in 1..Len(q) : q[k] \in Write
    OBVIOUS
  <1>1. ASSUME NEW k \in 1..Len(q)
        PROVE  /\ [q[k] EXCEPT !.by = None] \in Write
               /\ m[k].by = None
               /\ m[k].doc = q[k].doc
               /\ m[k].name = q[k].name
               /\ m[k].applied = q[k].applied
    BY <1>0 DEF Write
  <1>2. m \in Seq(Write) /\ Len(m) = Len(q)
    BY <1>0, <1>1
  <1> QED BY <1>1, <1>2 DEF Orphaned

\* The elements of a queue.
LEMMA QueueElements ==
  ASSUME NEW q \in Seq(Write)
  PROVE  /\ Len(q) \in Nat
         /\ \A k \in 1..Len(q) :
              /\ q[k] \in Write /\ q[k].doc \in Docs
              /\ q[k].name \in Names \cup {None}
              /\ q[k].by \in Slots \cup Taps \cup {None}
  <1>1. Len(q) \in Nat /\ \A k \in 1..Len(q) : q[k] \in Write
    OBVIOUS
  <1> QED BY <1>1 DEF Write

\* What happens to one phone's queues when one of them is replaced.
LEMMA QueueReplaced ==
  ASSUME Sound, NEW d \in Devices, NEW q \in Seq(Write),
         outbox' = [outbox EXCEPT ![d][auth[d]] = q]
  PROVE  /\ outbox' \in [Devices -> [Emails \cup {None} -> Seq(Write)]]
         /\ outbox'[d] = [outbox[d] EXCEPT ![auth[d]] = q]
         /\ \A e \in Devices \ {d} : outbox'[e] = outbox[e]
  <1>1. /\ outbox \in [Devices -> [Boxes -> Seq(Write)]]
        /\ auth[d] \in Boxes
    BY DEF Sound, TypeOK, Boxes
  <1>2. /\ outbox' \in [Devices -> [Boxes -> Seq(Write)]]
        /\ outbox'[d] = [outbox[d] EXCEPT ![auth[d]] = q]
        /\ \A e \in Devices \ {d} : outbox'[e] = outbox[e]
    BY <1>1, TableUpdate
  <1> QED BY <1>2 DEF Boxes

\* What a delivery does.
LEMMA ApplyFacts ==
  ASSUME Sound, NEW d \in Devices, NEW j, Apply(d, j)
  PROVE  LET q == Queue(d)
             w == q[j]
         IN /\ q \in Seq(Write) /\ j \in 1..Len(q) /\ w \in Write
            /\ w.doc \in Docs /\ w.name \in Names \cup {None}
            /\ outbox' \in [Devices -> [Emails \cup {None} -> Seq(Write)]]
            /\ outbox'[d] = [outbox[d] EXCEPT ![auth[d]] = Marked(q, j)]
            /\ \A e \in Devices \ {d} : outbox'[e] = outbox[e]
            /\ users' = [users EXCEPT ![w.doc] = After(w, users[w.doc])]
            /\ reached' = reached \cup
                 {[doc |-> w.doc, name |-> n] : n \in {w.name} \ {None}}
            /\ UNCHANGED <<accounts, device, task, naming, confirmed,
                           attempts>>
  <1> DEFINE q == Queue(d)
             w == q[j]
  <1>1. /\ q \in Seq(Write) /\ j \in 1..Len(q) /\ q = outbox[d][auth[d]]
    BY PhoneTypes DEF Sound, Apply
  <1>2. /\ users' = [users EXCEPT ![w.doc] = After(w, @)]
        /\ reached' = reached \cup
             {[doc |-> w.doc, name |-> n] : n \in {w.name} \ {None}}
        /\ outbox' = [outbox EXCEPT ![d][auth[d]][j].applied = TRUE]
        /\ UNCHANGED <<accounts, device, task, naming, confirmed, attempts>>
    BY Zenon DEF Apply
  <1>3. w \in Write /\ w.doc \in Docs /\ w.name \in Names \cup {None}
    BY <1>1, QueueElements
  <1>4. outbox' = [outbox EXCEPT ![d][auth[d]] = Marked(q, j)]
    BY <1>1, <1>2, Zenon DEF Marked
  <1>5. Marked(q, j) \in Seq(Write)
    BY <1>1, MarkedQueue
  <1>6. users' = [users EXCEPT ![w.doc] = After(w, users[w.doc])]
    BY <1>2
  <1> HIDE DEF q
  <1>7. /\ outbox' \in [Devices -> [Emails \cup {None} -> Seq(Write)]]
        /\ outbox'[d] = [outbox[d] EXCEPT ![auth[d]] = Marked(q, j)]
        /\ \A e \in Devices \ {d} : outbox'[e] = outbox[e]
    BY <1>4, <1>5, QueueReplaced
  <1> QED BY <1>1, <1>2, <1>3, <1>6, <1>7 DEF q

LEMMA ApplySound ==
  ASSUME Sound, NEW d \in Devices, NEW j, Apply(d, j)
  PROVE  Sound'
  <1> DEFINE w == Queue(d)[j]
  <1>1. /\ w \in Write /\ w.doc \in Docs /\ w.name \in Names \cup {None}
        /\ outbox' \in [Devices -> [Emails \cup {None} -> Seq(Write)]]
        /\ users' = [users EXCEPT ![w.doc] = After(w, users[w.doc])]
        /\ reached' = reached \cup
             {[doc |-> w.doc, name |-> n] : n \in {w.name} \ {None}}
        /\ UNCHANGED <<accounts, device, task, naming, confirmed, attempts>>
    BY ApplyFacts
  <1> HIDE DEF w
  <1>2. users' \in [Docs -> UserDoc \cup {None}]
    <2>1. users \in [Docs -> UserDoc \cup {None}]
      BY DEF Sound, TypeOK
    <2>2. After(w, users[w.doc]) \in UserDoc
      BY <1>1, <2>1, AfterType
    <2> QED BY <1>1, <2>1, <2>2
  <1>3. reached' \subseteq [doc : Docs, name : Names]
    BY <1>1 DEF Sound, TypeOK
  <1>4. \A e \in Devices : PhoneFine(e)'
    BY <1>1 DEF Sound, PhoneFine, device
  <1> QED BY <1>1, <1>2, <1>3, <1>4 DEF Sound, TypeOK, device

\* What settling the oldest write does: it wakes a sign-in, a tap or nobody.
LEMMA LeaveFacts ==
  ASSUME Sound, NEW d \in Devices, NEW r \in {"done", "failed"}, Leave(d, r)
  PROVE  LET q == Queue(d)
             w == q[1]
         IN /\ q \in Seq(Write) /\ q # <<>> /\ 1 \in 1..Len(q) /\ w \in Write
            /\ Head(q) = w
            /\ outbox' \in [Devices -> [Emails \cup {None} -> Seq(Write)]]
            /\ outbox'[d] = [outbox[d] EXCEPT ![auth[d]] = Tail(q)]
            /\ \A e \in Devices \ {d} : outbox'[e] = outbox[e]
            /\ \/ /\ w.by \in Slots /\ w.by \notin Taps
                  /\ task' = [task EXCEPT ![d][w.by].io = r]
                  /\ naming' = naming
               \/ /\ w.by \in Taps
                  /\ task' = task
                  /\ naming' = [naming EXCEPT ![d][w.by].io = r]
               \/ w.by \notin Taps /\ task' = task /\ naming' = naming
            /\ UNCHANGED <<cloud, device, history>>
  <1> DEFINE q == Queue(d)
             w == q[1]
  <1>1. /\ q \in Seq(Write) /\ q # <<>> /\ q = outbox[d][auth[d]]
    BY PhoneTypes DEF Sound, Leave
  <1>2. /\ Head(q) = w /\ w \in Write /\ 1 \in 1..Len(q)
        /\ Tail(q) \in Seq(Write)
    <2>1. Len(q) \in Nat /\ Len(q) # 0
      BY <1>1, EmptySeq, LenProperties
    <2>2. 1 \in 1..Len(q)
      BY <2>1
    <2> QED BY <1>1, <2>2, HeadTailProperties, ElementOfSeq
  <1>3. outbox' = [outbox EXCEPT ![d][auth[d]] = Tail(q)]
    BY <1>1 DEF Leave
  <1>4. \/ /\ w.by \in Slots /\ w.by \notin Taps
           /\ task' = [task EXCEPT ![d][w.by].io = r]
           /\ naming' = naming
        \/ /\ w.by \in Taps
           /\ task' = task
           /\ naming' = [naming EXCEPT ![d][w.by].io = r]
        \/ w.by \notin Taps /\ task' = task /\ naming' = naming
    <2>1. /\ task' = IF w.by \in Slots THEN [task EXCEPT ![d][w.by].io = r]
                     ELSE task
          /\ naming' = IF w.by \in Taps
                       THEN [naming EXCEPT ![d][w.by].io = r] ELSE naming
      BY <1>2 DEF Leave
    <2> HIDE DEF w
    <2> QED BY <2>1, SessionAssumption
  <1>5. UNCHANGED <<cloud, device, history>>
    BY DEF Leave
  <1> HIDE DEF q
  <1>6. /\ outbox' \in [Devices -> [Emails \cup {None} -> Seq(Write)]]
        /\ outbox'[d] = [outbox[d] EXCEPT ![auth[d]] = Tail(q)]
        /\ \A e \in Devices \ {d} : outbox'[e] = outbox[e]
    BY <1>2, <1>3, QueueReplaced
  <1> QED BY <1>1, <1>2, <1>4, <1>5, <1>6 DEF q

\* The await of a tap resumes.
Resumes(d, t, io) == naming' = [naming EXCEPT ![d][t].io = io]

\* A tap is answered: nothing else of it changes.
LEMMA TapAnswered ==
  ASSUME Sound, NEW d \in Devices, NEW t \in Taps, NEW io \in IO,
         Resumes(d, t, io)
  PROVE  /\ naming' = [naming EXCEPT ![d][t] = naming'[d][t]]
         /\ naming'[d][t] \in Naming
         /\ naming'[d][t].pc = naming[d][t].pc
         /\ naming'[d][t].io = io
         /\ naming'[d][t].doc = naming[d][t].doc
         /\ naming'[d][t].name = naming[d][t].name
         /\ naming'[d][t].live = naming[d][t].live
         /\ \A k \in Taps \ {t} : naming'[d][k] = naming[d][k]
         /\ \A e \in Devices \ {d} : naming'[e] = naming[e]
  <1> DEFINE n == naming[d][t]
             v == [n EXCEPT !.io = io]
  <1>1. naming' = [naming EXCEPT ![d][t] = v]
    BY DEF Resumes
  <1>2. n \in Naming /\ naming \in [Devices -> [Taps -> Naming]]
    BY NamingFacts DEF Sound, TypeOK
  <1> HIDE DEF n
  <1>3. /\ v \in Naming /\ v.pc = n.pc /\ v.io = io /\ v.doc = n.doc
        /\ v.name = n.name /\ v.live = n.live
    BY <1>2 DEF Naming
  <1> HIDE DEF v
  <1>4. /\ naming'[d][t] = v
        /\ \A k \in Taps \ {t} : naming'[d][k] = naming[d][k]
        /\ \A e \in Devices \ {d} : naming'[e] = naming[e]
    BY <1>1, <1>2, <1>3, TableUpdate
  <1> QED BY <1>1, <1>3, <1>4 DEF n

LEMMA NamingAnswered ==
  ASSUME Sound, NEW d \in Devices, NEW t \in Taps, NEW io \in IO,
         Resumes(d, t, io), UNCHANGED <<user, screen, task>>
  PROVE  /\ naming' \in [Devices -> [Taps -> Naming]]
         /\ \A e \in Devices : PhoneFine(e)'
  <1> DEFINE n == naming[d][t]
             v == naming'[d][t]
  <1>1. /\ naming' = [naming EXCEPT ![d][t] = v] /\ v \in Naming
        /\ v.pc = n.pc /\ v.doc = n.doc /\ v.name = n.name
        /\ v.live = n.live
    BY TapAnswered
  <1>2. NamingFine(n, screen[d])
    BY NamingFacts
  <1> HIDE DEF n, v
  <1>3. NamingFine(v, screen[d])
    BY <1>1, <1>2 DEF NamingFine
  <1> QED BY <1>1, <1>3, NamingMoves

LEMMA LeaveSound ==
  ASSUME Sound, NEW d \in Devices, NEW r \in {"done", "failed"}, Leave(d, r)
  PROVE  Sound'
  <1> DEFINE w == Queue(d)[1]
  <1>1. /\ outbox' \in [Devices -> [Emails \cup {None} -> Seq(Write)]]
        /\ UNCHANGED <<cloud, device, history>>
    BY LeaveFacts
  <1>2. \/ /\ w.by \in Slots
           /\ task' = [task EXCEPT ![d][w.by].io = r]
           /\ naming' = naming
        \/ /\ w.by \in Taps
           /\ task' = task
           /\ naming' = [naming EXCEPT ![d][w.by].io = r]
        \/ task' = task /\ naming' = naming
    BY LeaveFacts
  <1> DEFINE by == w.by
  <1> HIDE DEF w
  <1>3. /\ task' \in [Devices -> [Slots -> Task]]
        /\ naming' \in [Devices -> [Taps -> Naming]]
        /\ \A e \in Devices : PhoneFine(e)'
    <2>0. r \in IO /\ UNCHANGED <<user, screen>>
      BY <1>1 DEF IO, device
    <2>1. CASE /\ by \in Slots
               /\ task' = [task EXCEPT ![d][by].io = r]
               /\ naming' = naming
      <3> DEFINE t == task[d][by]
                 v == Moved(t, t.pc, r, t.found)
      <3>1. /\ t \in Task /\ TaskFine(t, user[d], screen[d])
            /\ t.found \in UserDoc \cup {None}
        BY <2>1, TaskFacts DEF Task
      <3>2. task' = [task EXCEPT ![d][by] = [t EXCEPT !.io = r]]
        BY <2>1
      <3>3. [t EXCEPT !.io = r] = v
        <4> HIDE DEF t
        <4> QED BY <3>1 DEF v, Moved, Task
      <3>4. task' = [task EXCEPT ![d][by] = v]
        BY <3>2, <3>3
      <3>5. v \in Task /\ TaskFine(v, user[d], screen[d])
        BY <2>0, <3>1, AnsweredFine
      <3>6. naming' \in [Devices -> [Taps -> Naming]]
        BY <2>1 DEF Sound, TypeOK
      <3> HIDE DEF v, t, by
      <3>7. /\ task' \in [Devices -> [Slots -> Task]]
            /\ \A e \in Devices : PhoneFine(e)'
        BY <2>0, <2>1, <3>4, <3>5, TaskMovesAlone
      <3> QED BY <3>6, <3>7
    <2>2. CASE /\ by \in Taps
               /\ task' = task
               /\ naming' = [naming EXCEPT ![d][by].io = r]
      <3> HIDE DEF by
      <3>1. Resumes(d, by, r) /\ by \in Taps
        BY <2>2 DEF Resumes
      <3>2. /\ naming' \in [Devices -> [Taps -> Naming]]
            /\ \A e \in Devices : PhoneFine(e)'
        BY <2>0, <2>2, <3>1, NamingAnswered
      <3> QED BY <2>2, <3>2 DEF Sound, TypeOK
    <2>3. CASE task' = task /\ naming' = naming
      BY <2>0, <2>3 DEF Sound, TypeOK, PhoneFine
    <2> QED BY <1>2, <2>1, <2>2, <2>3
  <1> QED BY <1>1, <1>3 DEF Sound, TypeOK, cloud, device, history

\* What a crash does to the queues and the taps.
LEMMA CrashFacts ==
  ASSUME Sound, NEW d \in Devices, Crash(d)
  PROVE  /\ outbox' \in [Devices -> [Emails \cup {None} -> Seq(Write)]]
         /\ \A u \in Boxes : outbox'[d][u] = Orphaned(outbox[d][u])
         /\ \A e \in Devices \ {d} : /\ outbox'[e] = outbox[e]
                                     /\ naming'[e] = naming[e]
         /\ naming' \in [Devices -> [Taps -> Naming]]
         /\ \A t \in Taps : naming'[d][t] = NoNaming
         /\ UNCHANGED <<cloud, auth, google, reached, confirmed>>
  <1> DEFINE B == [u \in Boxes |-> Orphaned(outbox[d][u])]
             N == [t \in Taps |-> NoNaming]
  <1>1. /\ outbox \in [Devices -> [Boxes -> Seq(Write)]]
        /\ naming \in [Devices -> [Taps -> Naming]]
    BY DEF Sound, TypeOK, Boxes
  <1>2. /\ outbox' = [outbox EXCEPT ![d] = B]
        /\ naming' = [naming EXCEPT ![d] = N]
        /\ UNCHANGED <<cloud, auth, google, reached, confirmed>>
    BY Zenon DEF Crash, Orphaned, Boxes
  <1>3. B \in [Boxes -> Seq(Write)]
    BY <1>1, OrphanedQueue
  <1>4. N \in [Taps -> Naming]
    BY IdleTypes
  <1>5. /\ \A u \in Boxes : B[u] = Orphaned(outbox[d][u])
        /\ \A t \in Taps : N[t] = NoNaming
    OBVIOUS
  <1> HIDE DEF B, N
  <1>6. /\ outbox' \in [Devices -> [Boxes -> Seq(Write)]] /\ outbox'[d] = B
        /\ \A e \in Devices \ {d} : outbox'[e] = outbox[e]
    BY <1>1, <1>2, <1>3, RowUpdate
  <1>7. /\ naming' \in [Devices -> [Taps -> Naming]] /\ naming'[d] = N
        /\ \A e \in Devices \ {d} : naming'[e] = naming[e]
    BY <1>1, <1>2, <1>4, RowUpdate
  <1> QED BY <1>2, <1>5, <1>6, <1>7 DEF Boxes

LEMMA CrashSound ==
  ASSUME Sound, NEW d \in Devices, Crash(d)
  PROVE  Sound'
  <1> DEFINE T == [i \in Slots |-> NoTask]
  <1>1. /\ outbox' \in [Devices -> [Emails \cup {None} -> Seq(Write)]]
        /\ naming' \in [Devices -> [Taps -> Naming]]
        /\ \A e \in Devices \ {d} : naming'[e] = naming[e]
        /\ \A t \in Taps : naming'[d][t] = NoNaming
        /\ UNCHANGED <<cloud, auth, google, reached, confirmed>>
    BY CrashFacts
  <1>2. /\ user' = [user EXCEPT ![d] = NoUser]
        /\ screen' = [screen EXCEPT ![d] = "appearing"]
        /\ alert' = [alert EXCEPT ![d] = FALSE]
        /\ submitting' = [submitting EXCEPT ![d] = FALSE]
        /\ task' = [task EXCEPT ![d] = T]
        /\ attempts < MaxAttempts /\ attempts' = attempts + 1
    BY DEF Crash
  <1>10. attempts' \in 0..MaxAttempts
    BY <1>2, SessionAssumption DEF Sound, TypeOK
  <1>3. alert' \in [Devices -> BOOLEAN] /\ submitting' \in [Devices -> BOOLEAN]
    <2>1. /\ FALSE \in BOOLEAN /\ alert \in [Devices -> BOOLEAN]
          /\ submitting \in [Devices -> BOOLEAN]
      BY DEF Sound, TypeOK
    <2>2. alert' \in [Devices -> BOOLEAN]
      BY <1>2, <2>1, RowUpdate, Zenon
    <2>3. submitting' \in [Devices -> BOOLEAN]
      BY <1>2, <2>1, RowUpdate, Zenon
    <2> QED BY <2>2, <2>3
  <1>4. T \in [Slots -> Task] /\ \A i \in Slots : T[i] = NoTask
    BY IdleTypes
  <1> HIDE DEF T
  <1>5. /\ task' \in [Devices -> [Slots -> Task]] /\ task'[d] = T
        /\ \A e \in Devices \ {d} : task'[e] = task[e]
    BY <1>2, <1>4, RowUpdate DEF Sound, TypeOK
  <1>6. /\ screen' \in [Devices -> Screens] /\ screen'[d] = "appearing"
        /\ \A e \in Devices \ {d} : screen'[e] = screen[e]
    BY <1>2 DEF Sound, TypeOK, Screens
  <1>7. /\ user' \in [Devices -> UserRecord]
        /\ \A e \in Devices \ {d} : user'[e] = user[e]
    BY <1>2, IdleTypes, RowUpdate DEF Sound, TypeOK
  <1>8. PhoneFine(d)'
    <2>1. ScreenFine(user'[d], screen'[d])
      BY <1>6 DEF ScreenFine
    <2>2. \A i \in Slots : TaskFine(task'[d][i], user'[d], screen'[d])
      BY <1>4, <1>5, IdleFine
    <2>3. NoNaming.pc = "idle" /\ NoNaming.live = FALSE
      BY Zenon DEF NoNaming
    <2>4. ~NoNaming.live
      BY <2>3, Zenon
    <2>5. \A t \in Taps : NamingFine(naming'[d][t], screen'[d])
      BY <1>1, <2>3, <2>4 DEF NamingFine
    <2> QED BY <2>1, <2>2, <2>5 DEF PhoneFine
  <1>9. ASSUME NEW e \in Devices, e # d
        PROVE  PhoneFine(e)'
    BY <1>1, <1>5, <1>6, <1>7, <1>9 DEF Sound, PhoneFine
  <1> QED BY <1>1, <1>3, <1>5, <1>6, <1>7, <1>8, <1>9, <1>10
             DEF Sound, TypeOK, cloud, Screens

-----------------------------------------------------------------------------
(* Type correctness *)

\* Initially nobody is signed in.
LEMMA InitSound == Init => Sound
  <1> SUFFICES ASSUME Init PROVE Sound
    OBVIOUS
  <1>1. /\ accounts = {} /\ users = [k \in Docs |-> None]
        /\ outbox = [d \in Devices |-> [u \in Emails \cup {None} |-> <<>>]]
        /\ auth = [d \in Devices |-> None]
        /\ google = [d \in Devices |-> None]
        /\ user = [d \in Devices |-> NoUser]
        /\ screen = [d \in Devices |-> "appearing"]
        /\ task = [d \in Devices |-> [i \in Slots |-> NoTask]]
        /\ naming = [d \in Devices |-> [t \in Taps |-> NoNaming]]
        /\ reached = {} /\ confirmed = {} /\ attempts = 0
    BY DEF Init
  <1>2. alert \in [Devices -> BOOLEAN] /\ submitting \in [Devices -> BOOLEAN]
    BY DEF Init
  <1>3. TypeOK
    BY <1>1, <1>2, IdleTypes, SessionAssumption DEF TypeOK
  <1>4. NoNaming.pc = "idle" /\ NoNaming.live = FALSE
    BY Zenon DEF NoNaming
  <1>5. ~NoNaming.live
    BY <1>4, Zenon
  <1>6. ASSUME NEW d \in Devices
        PROVE  PhoneFine(d)
    <2>1. /\ user[d] = NoUser /\ screen[d] = "appearing"
          /\ \A i \in Slots : task[d][i] = NoTask
          /\ \A t \in Taps : naming[d][t] = NoNaming
      BY <1>1
    <2> QED BY <1>4, <1>5, <2>1, IdleFine
               DEF PhoneFine, ScreenFine, NamingFine
  <1> QED BY <1>3, <1>6 DEF Sound

\* The oldest write is acknowledged, once it was applied, or refused.
Settle(d, r) == Leave(d, r) /\ (r = "done" => Head(Queue(d)).applied)

\* The steps of one phone.
PhoneStep(d) ==
  \/ \E j \in 1..Len(Queue(d)) : Apply(d, j)
  \/ \E r \in {"done", "failed"} : Settle(d, r)
  \/ Crash(d)
  \/ EmptyForm(d) \/ DismissAlert(d)
  \/ OpenGame(d)
  \/ Loaded(d) \/ Reappear(d)
  \/ Logout(d)
  \/ \E t \in Taps : \/ TapUsername(d, t) \/ UsernameSaved(d, t)
                     \/ UsernameReply(d, t)
  \/ \E t \in Taps, name \in Names : SubmitUsername(d, t, name)
  \/ \E i \in Slots : Appear(d, i)
  \/ \E i \in Slots, e \in Emails :
       Login(d, i, e) \/ Register(d, i, e) \/ Google(d, i, e)
  \/ \E i \in Slots : TaskStep(d, i)

LEMMA NextPhone == Next => \E d \in Devices : PhoneStep(d)
  <1>1. ASSUME NEW d \in Devices, Acknowledge(d) \/ Reject(d)
        PROVE  \E r \in {"done", "failed"} : Settle(d, r)
    BY <1>1 DEF Acknowledge, Reject, Settle
  <1> QED BY <1>1, Zenon DEF Next, PhoneStep

\* Every step keeps the types and PhoneFine.
LEMMA NextSound ==
  ASSUME Sound, [Next]_vars
  PROVE  Sound'
  <1>1. CASE UNCHANGED vars
    BY <1>1 DEF vars, Sound, TypeOK, PhoneFine
  <1>2. CASE Next
    <2>1. PICK d \in Devices : PhoneStep(d)
      BY <1>2, NextPhone
    <2>2. CASE \/ \E j \in 1..Len(Queue(d)) : Apply(d, j)
               \/ \E r \in {"done", "failed"} : Settle(d, r)
               \/ Crash(d)
      BY <2>2, ApplySound, LeaveSound, CrashSound DEF Settle
    <2>3. CASE \/ EmptyForm(d) \/ DismissAlert(d)
               \/ OpenGame(d)
               \/ Loaded(d) \/ Reappear(d)
               \/ Logout(d)
      BY <2>3, AlertsSound, OpenGameSound, ScreenSound, LogoutSound
    <2>4. CASE \/ \E t \in Taps : \/ TapUsername(d, t) \/ UsernameSaved(d, t)
                                  \/ UsernameReply(d, t)
               \/ \E t \in Taps, name \in Names : SubmitUsername(d, t, name)
      BY <2>4, TapUsernameSound, UsernameSavedSound, UsernameReplySound,
         SubmitUsernameSound
    <2>5. CASE \/ \E i \in Slots : Appear(d, i)
               \/ \E i \in Slots, e \in Emails :
                    Login(d, i, e) \/ Register(d, i, e) \/ Google(d, i, e)
      BY <2>5, AppearSound, BeginSound
    <2>6. CASE \E i \in Slots : TaskStep(d, i)
      BY <2>6, ServeAuthSound, ServeReadSound, AuthReplySound, EnterSound,
         GetReplySound, CreateReplySound, NameReplySound DEF TaskStep
    <2> QED BY <2>1, <2>2, <2>3, <2>4, <2>5, <2>6 DEF PhoneStep
  <1> QED BY <1>1, <1>2

LEMMA SoundAlways == Spec => []Sound
  BY InitSound, NextSound, PTL DEF Spec

\* Every variable keeps its shape, for every number of phones, emails, slots
\* and taps: no users document is read or written under a nil email, and a
\* name that arrives after a logout makes no user.
THEOREM TypeCorrect == Spec => []TypeOK
  <1>1. Sound => TypeOK
    BY DEF Sound
  <1> QED BY <1>1, SoundAlways, PTL

-----------------------------------------------------------------------------
(* No sign-in ends in silence *)

\* What SignInAnswered says of one task.
Told(d, i) ==
  (/\ task[d][i].live /\ task[d][i].flow # "restore"
   /\ task'[d][i].pc = "idle" /\ screen'[d] = "login")
     => (alert'[d] \/ user'[d] # NoUser)

\* A task that has not moved has not ended.
LEMMA StillUnderWay ==
  ASSUME Sound, NEW d \in Devices, NEW i \in Slots,
         task'[d][i].pc = task[d][i].pc \/ task'[d][i].pc # "idle"
  PROVE  Told(d, i)
  BY TaskFacts DEF Told, TaskFine

\* A task that moves: it goes on, or whoever waits for it is answered.
Outcome(d, i) ==
  \/ \E v \in Task : v.pc # "idle" /\ task' = [task EXCEPT ![d][i] = v]
  \/ /\ task' = [task EXCEPT ![d][i] = NoTask]
     /\ (task[d][i].live /\ task[d][i].flow # "restore")
          => (alert'[d] \/ user'[d] # NoUser)

LEMMA OutcomeTold ==
  ASSUME Sound, NEW d \in Devices, NEW i \in Slots, Outcome(d, i),
         NEW e \in Devices, NEW k \in Slots
  PROVE  Told(e, k)
  <1>1. task \in [Devices -> [Slots -> Task]] /\ NoTask \in Task
    BY IdleTypes DEF Sound, TypeOK
  <1>2. PICK v \in Task :
          /\ task' = [task EXCEPT ![d][i] = v]
          /\ \/ v.pc # "idle"
             \/ (task[d][i].live /\ task[d][i].flow # "restore")
                  => (alert'[d] \/ user'[d] # NoUser)
    BY <1>1 DEF Outcome
  <1>3. CASE e = d /\ k = i
    <2>1. task'[d][i] = v
      BY <1>1, <1>2
    <2> QED BY <1>2, <1>3, <2>1 DEF Told
  <1>4. CASE ~(e = d /\ k = i)
    <2>1. task'[e][k] = task[e][k]
      BY <1>1, <1>2, <1>4
    <2> QED BY <2>1, StillUnderWay
  <1> QED BY <1>3, <1>4

\* The catch tells.
LEMMA FailOutcome ==
  ASSUME Sound, NEW d \in Devices, NEW i \in Slots, Fail(d, i)
  PROVE  Outcome(d, i)
  BY FailFacts DEF Outcome

\* A task that goes on has not ended.
LEMMA MovedOutcome ==
  ASSUME Sound, NEW d \in Devices, NEW i \in Slots, NEW pc \in Pc,
         pc # "idle", NEW io \in IO, NEW found \in UserDoc \cup {None},
         task' = [task EXCEPT ![d][i] = Moved(task[d][i], pc, io, found)]
  PROVE  Outcome(d, i)
  <1> DEFINE v == Moved(task[d][i], pc, io, found)
  <1>1. v \in Task /\ v.pc = pc
    BY TaskFacts, MovedFields
  <1>2. task' = [task EXCEPT ![d][i] = v]
    OBVIOUS
  <1> HIDE DEF v
  <1> QED BY <1>1, <1>2 DEF Outcome

LEMMA AwaitOutcome ==
  ASSUME Sound, NEW d \in Devices, NEW i \in Slots, NEW pc \in Pc,
         pc # "idle", Await(d, i, pc)
  PROVE  Outcome(d, i)
  <1>1. /\ task' = [task EXCEPT ![d][i] =
                      Moved(task[d][i], pc, "sent", None)]
        /\ "sent" \in IO /\ None \in UserDoc \cup {None}
    BY AwaitMoves DEF IO
  <1> QED BY <1>1, MovedOutcome

\* A task that moves without going to an await.
LEMMA HopOutcome ==
  ASSUME Sound, NEW d \in Devices, NEW i \in Slots,
         NEW pc \in {"enter", "replace"},
         \/ task' = [task EXCEPT ![d][i] =
              [task[d][i] EXCEPT !.pc = pc, !.io = "none"]]
         \/ task' = [task EXCEPT ![d][i] =
              [task[d][i] EXCEPT !.pc = pc, !.io = "none", !.found = None]]
  PROVE  Outcome(d, i)
  <1> DEFINE t == task[d][i]
  <1>1. t \in Task /\ pc \in Pc /\ pc # "idle"
    BY TaskFacts DEF Pc
  <1>2. PICK v : /\ task' = [task EXCEPT ![d][i] = v]
                 /\ \/ v = [t EXCEPT !.pc = pc, !.io = "none"]
                    \/ v = [t EXCEPT !.pc = pc, !.io = "none", !.found = None]
    OBVIOUS
  <1> HIDE DEF t
  <1>3. v \in Task /\ v.pc = pc
    BY <1>1, <1>2 DEF Task, IO
  <1> QED BY <1>1, <1>2, <1>3 DEF Outcome

\* An answer does not move a task.
LEMMA ServeOutcome ==
  ASSUME Sound, NEW d \in Devices, NEW i \in Slots,
         ServeAuth(d, i) \/ ServeRead(d, i),
         NEW e \in Devices, NEW k \in Slots
  PROVE  Told(e, k)
  <1> DEFINE t == task[d][i]
  <1>1. t \in Task /\ task \in [Devices -> [Slots -> Task]]
    BY TaskFacts DEF Sound, TypeOK
  <1>2. PICK v : task' = [task EXCEPT ![d][i] = v] /\ v.pc = t.pc
    <2>1. \/ \E io : task' = [task EXCEPT ![d][i].io = io]
          \/ \E io, f : task' = [task EXCEPT ![d][i] =
                                   [t EXCEPT !.io = io, !.found = f]]
      BY DEF ServeAuth, ServeRead
    <2>2. CASE \E io : task' = [task EXCEPT ![d][i].io = io]
      <3>1. PICK io : task' = [task EXCEPT ![d][i].io = io]
        BY <2>2
      <3>2. task' = [task EXCEPT ![d][i] = [t EXCEPT !.io = io]]
        BY <3>1
      <3>3. [t EXCEPT !.io = io].pc = t.pc
        BY <1>1 DEF Task
      <3> HIDE DEF t
      <3> QED BY <3>2, <3>3
    <2>3. CASE \E io, f : task' = [task EXCEPT ![d][i] =
                                     [t EXCEPT !.io = io, !.found = f]]
      <3>1. PICK io, f : task' = [task EXCEPT ![d][i] =
                                    [t EXCEPT !.io = io, !.found = f]]
        BY <2>3
      <3>2. [t EXCEPT !.io = io, !.found = f].pc = t.pc
        BY <1>1 DEF Task
      <3> HIDE DEF t
      <3> QED BY <3>1, <3>2
    <2> QED BY <2>1, <2>2, <2>3
  <1>3. task'[e][k].pc = task[e][k].pc
    <2>1. CASE e = d /\ k = i
      BY <1>1, <1>2, <2>1
    <2>2. CASE ~(e = d /\ k = i)
      BY <1>1, <1>2, <2>2
    <2> QED BY <2>1, <2>2
  <1> QED BY <1>3, StillUnderWay

\* The steps of a task, one by one.
LEMMA TaskStepTold ==
  ASSUME Sound, NEW d \in Devices, NEW i \in Slots, TaskStep(d, i),
         NEW e \in Devices, NEW k \in Slots
  PROVE  Told(e, k)
  <1> DEFINE t == task[d][i]
  <1>0. t \in Task /\ TaskFine(t, user[d], screen[d])
    BY TaskFacts
  <1>1. CASE ServeAuth(d, i) \/ ServeRead(d, i)
    BY <1>1, ServeOutcome
  <1>2. CASE AuthReply(d, i)
    <2>1. CASE Await(d, i, "signIn")
      BY <2>1, AwaitOutcome, OutcomeTold DEF Pc
    <2>2. CASE task' = [task EXCEPT ![d][i] =
                 [t EXCEPT !.pc = "enter", !.io = "none"]]
      BY <2>2, HopOutcome, OutcomeTold
    <2>3. CASE Fail(d, i)
      BY <2>3, FailOutcome, OutcomeTold
    <2> QED BY <1>2, <2>1, <2>2, <2>3 DEF AuthReply
  <1>3. CASE Enter(d, i)
    <2> DEFINE pc == IF t.flow = "register" THEN "get" ELSE "name"
    <2>1. pc \in Pc /\ pc # "idle" /\ Await(d, i, pc)
      BY <1>3 DEF Enter, Pc
    <2> HIDE DEF pc
    <2> QED BY <2>1, AwaitOutcome, OutcomeTold
  <1>4. CASE GetReply(d, i)
    <2>1. CASE Await(d, i, "rename") \/ Await(d, i, "create")
      BY <2>1, AwaitOutcome, OutcomeTold DEF Pc
    <2>2. CASE /\ t.pc = "get" /\ t.found # None
               /\ user' = [user EXCEPT ![d] =
                    [doc |-> Key[t.email], username |-> t.found.username]]
               /\ task' = [task EXCEPT ![d][i] = NoTask]
      <3>1. Key[t.email] \in Docs /\ t.found.username \in Names \cup {None}
        BY <1>0, <2>2, TaskFacts DEF Task, UserDoc
      <3>2. user'[d] = [doc |-> Key[t.email], username |-> t.found.username]
        BY <2>2 DEF Sound, TypeOK
      <3>3. user'[d] # NoUser
        BY <3>1, <3>2, SomeUser
      <3>4. Outcome(d, i)
        BY <2>2, <3>3 DEF Outcome
      <3> QED BY <3>4, OutcomeTold
    <2>3. CASE Fail(d, i)
      BY <2>3, FailOutcome, OutcomeTold
    <2> QED BY <1>4, <2>1, <2>2, <2>3 DEF GetReply
  <1>5. CASE CreateReply(d, i)
    <2>1. CASE task' = [task EXCEPT ![d][i] =
                 [t EXCEPT !.pc = "replace", !.io = "none"]]
      BY <2>1, HopOutcome, OutcomeTold
    <2>2. CASE /\ t.pc = "create" /\ t.flow = "register"
               /\ task' = [task EXCEPT ![d][i] = NoTask]
               /\ UNCHANGED user
      <3>1. t.live => user'[d] # NoUser
        BY <1>0, <2>2 DEF TaskFine, Entered
      <3>2. Outcome(d, i)
        BY <2>2, <3>1 DEF Outcome
      <3> QED BY <3>2, OutcomeTold
    <2>3. CASE Fail(d, i)
      BY <2>3, FailOutcome, OutcomeTold
    <2> QED BY <1>5, <2>1, <2>2, <2>3 DEF CreateReply
  <1>6. CASE Replace(d, i)
    <2>1. "name" \in Pc /\ "name" # "idle" /\ Await(d, i, "name")
      BY <1>6 DEF Replace, Pc
    <2> QED BY <2>1, AwaitOutcome, OutcomeTold
  <1>7. CASE NameReply(d, i)
    <2>1. CASE Fail(d, i)
      BY <2>1, FailOutcome, OutcomeTold
    <2>2. CASE t.pc = "rename" /\ ~Fail(d, i)
      <3>1. task' = [task EXCEPT ![d][i] =
              [t EXCEPT !.pc = "replace", !.io = "none", !.found = None]]
        BY <1>7, <2>2 DEF NameReply
      <3> QED BY <3>1, HopOutcome, OutcomeTold
    <2>3. CASE t.pc = "name" /\ ~Fail(d, i)
      <3>1. /\ task' = [task EXCEPT ![d][i] = NoTask]
            /\ user' = [user EXCEPT ![d] = Named(user[d], t.found)]
        BY <1>7, <2>3 DEF NameReply, Named
      <3>2. user[d] \in UserRecord /\ t.found \in UserDoc \cup {None}
        BY <1>0, PhoneTypes DEF Sound, Task
      <3>3. user'[d] = Named(user[d], t.found)
        BY <3>1 DEF Sound, TypeOK
      <3>4. t.live => user[d] # NoUser
        BY <1>0, <2>3 DEF TaskFine, Entered
      <3>5. t.live => user'[d] # NoUser
        BY <3>2, <3>3, <3>4, NamedType
      <3>6. Outcome(d, i)
        BY <3>1, <3>5 DEF Outcome
      <3> QED BY <3>6, OutcomeTold
    <2> QED BY <1>7, <2>1, <2>2, <2>3 DEF NameReply
  <1> QED BY <1>1, <1>2, <1>3, <1>4, <1>5, <1>6, <1>7 DEF TaskStep

\* The steps that are none of a task: they move none, or begin one, or leave
\* the LoginView.
LEMMA OtherStepsTold ==
  ASSUME Sound, NEW d \in Devices, PhoneStep(d),
         ~\E i \in Slots : TaskStep(d, i),
         NEW e \in Devices, NEW k \in Slots
  PROVE  Told(e, k)
  <1>0. task \in [Devices -> [Slots -> Task]]
        /\ screen \in [Devices -> Screens]
    BY DEF Sound, TypeOK, Screens
  <1>1. CASE task' = task
    BY <1>1, StillUnderWay
  <1>2. CASE \E r \in {"done", "failed"} : Settle(d, r)
    <2>1. PICK r \in {"done", "failed"} : Leave(d, r)
      BY <1>2 DEF Settle
    <2> DEFINE by == Queue(d)[1].by
    <2>2. \/ by \in Slots /\ task' = [task EXCEPT ![d][by].io = r]
          \/ task' = task
      BY <2>1, LeaveFacts
    <2> HIDE DEF by
    <2>3. CASE by \in Slots /\ task' = [task EXCEPT ![d][by].io = r]
      <3>1. task'[e][k].pc = task[e][k].pc
        <4> DEFINE t == task[d][by]
                   v == [t EXCEPT !.io = r]
        <4>1. t \in Task /\ task' = [task EXCEPT ![d][by] = v]
          BY <1>0, <2>3
        <4> HIDE DEF t
        <4>2. v.pc = t.pc
          BY <4>1 DEF Task
        <4> HIDE DEF v
        <4>3. CASE e = d /\ k = by
          BY <1>0, <4>1, <4>2, <4>3 DEF t
        <4>4. CASE ~(e = d /\ k = by)
          BY <1>0, <2>3, <4>1, <4>4
        <4> QED BY <4>3, <4>4
      <3> QED BY <3>1, StillUnderWay
    <2> QED BY <1>1, <2>2, <2>3
  <1>3. CASE Crash(d)
    <2>1. /\ screen' = [screen EXCEPT ![d] = "appearing"]
          /\ task' = [task EXCEPT ![d] = [i \in Slots |-> NoTask]]
      BY <1>3 DEF Crash
    <2>2. CASE e = d
      <3>1. screen'[e] # "login"
        BY <1>0, <2>1, <2>2
      <3> QED BY <3>1 DEF Told
    <2>3. CASE e # d
      <3>1. task'[e][k] = task[e][k]
        BY <1>0, <2>1, <2>3
      <3> QED BY <3>1, StillUnderWay
    <2> QED BY <2>2, <2>3
  <1>4. CASE OpenGame(d)
    <2>1. screen' = [screen EXCEPT ![d] = "loading"]
          /\ \E F : task' = [task EXCEPT ![d] = F]
      BY <1>4 DEF OpenGame
    <2>2. CASE e = d
      <3>1. screen'[e] # "login"
        BY <1>0, <2>1, <2>2
      <3> QED BY <3>1 DEF Told
    <2>3. CASE e # d
      <3>1. task'[e][k] = task[e][k]
        BY <1>0, <2>1, <2>3
      <3> QED BY <3>1, StillUnderWay
    <2> QED BY <2>2, <2>3
  <1>5. CASE \E i \in Slots : Appear(d, i)
    <2>1. CASE screen[e] = "login"
      <3>1. e # d
        BY <1>5, <2>1 DEF Appear
      <3>2. \/ \E v : \E i \in Slots : task' = [task EXCEPT ![d][i] = v]
            \/ task' = task
        BY <1>5 DEF Appear
      <3>3. task'[e][k] = task[e][k]
        BY <1>0, <3>1, <3>2
      <3> QED BY <3>3, StillUnderWay
    <2>2. CASE screen[e] # "login"
      <3>1. ~task[e][k].live
        BY <2>2, TaskFacts DEF TaskFine
      <3> QED BY <3>1 DEF Told
    <2> QED BY <2>1, <2>2
  <1>6. CASE \E i \in Slots, f \in Emails :
               Login(d, i, f) \/ Register(d, i, f) \/ Google(d, i, f)
    <2>1. PICK i \in Slots, f \in Emails, flow \in Flow, pc \in Pc \ {"idle"} :
            task' = [task EXCEPT ![d][i] = Begun(flow, pc, "sent", f)]
      <3>1. PICK i \in Slots, f \in Emails :
              Login(d, i, f) \/ Register(d, i, f) \/ Google(d, i, f)
        BY <1>6
      <3>2. PICK flow \in Flow, pc \in Pc \ {"idle"} :
              Begin(d, i, f, flow, pc)
        BY <3>1 DEF Login, Register, Google, Flow, Pc
      <3>3. task' = [task EXCEPT ![d][i] = Begun(flow, pc, "sent", f)]
        BY <3>2, Zenon DEF Begin, Begun
      <3> QED BY <3>3
    <2> DEFINE v == Begun(flow, pc, "sent", f)
    <2>2. v \in Task /\ v.pc # "idle"
      BY BegunFields DEF IO
    <2>3. task' = [task EXCEPT ![d][i] = v]
      BY <2>1
    <2> HIDE DEF v
    <2>4. Outcome(d, i)
      BY <2>2, <2>3 DEF Outcome
    <2> QED BY <2>4, OutcomeTold
  <1>7. CASE \/ EmptyForm(d) \/ DismissAlert(d) \/ Loaded(d) \/ Reappear(d)
             \/ Logout(d)
             \/ \E j \in 1..Len(Queue(d)) : Apply(d, j)
             \/ \E t \in Taps : \/ TapUsername(d, t) \/ UsernameSaved(d, t)
                                \/ UsernameReply(d, t)
             \/ \E t \in Taps, name \in Names : SubmitUsername(d, t, name)
    <2>1. task' = task
      BY <1>7 DEF EmptyForm, DismissAlert, Loaded, Reappear, Logout, Apply,
                  TapUsername, UsernameSaved, UsernameReply,
                  SubmitUsername
    <2> QED BY <1>1, <2>1
  <1> QED BY <1>2, <1>3, <1>4, <1>5, <1>6, <1>7 DEF PhoneStep

\* A sign-in never ends in silence: when the task of a button is over while
\* its LoginView is still there, there is a user or an alert, however the
\* tasks of several buttons, restored sessions and logouts interleave.
THEOREM SignInsAreAnswered == Spec => SignInAnswered
  <1> DEFINE All == \A d \in Devices, i \in Slots :
               (/\ task[d][i].live /\ task[d][i].flow # "restore"
                /\ task'[d][i].pc = "idle" /\ screen'[d] = "login")
                  => (alert'[d] \/ user'[d] # NoUser)
  <1>1. ASSUME Sound, Next
        PROVE  All
    <2>1. PICK d \in Devices : PhoneStep(d)
      BY <1>1, NextPhone
    <2>2. ASSUME NEW e \in Devices, NEW k \in Slots
          PROVE  Told(e, k)
      <3>1. CASE \E i \in Slots : TaskStep(d, i)
        BY <1>1, <3>1, TaskStepTold
      <3>2. CASE ~\E i \in Slots : TaskStep(d, i)
        BY <1>1, <2>1, <3>2, OtherStepsTold
      <3> QED BY <3>1, <3>2
    <2> QED BY <2>2, Zenon DEF Told
  <1>2. Sound /\ [Next]_vars => [All]_vars
    BY <1>1
  <1> QED BY <1>2, SoundAlways, PTL DEF Spec, SignInAnswered

-----------------------------------------------------------------------------
(* Usernames on their way: what happens to the queues of a phone *)

\* The names on record only become more.
LEMMA LinkedGrows ==
  ASSUME NEW box, NEW names, NEW r, NEW r2, r \subseteq r2,
         PhoneLinked(box, names, r)
  PROVE  PhoneLinked(box, names, r2)
  <1>1. AppliedReached(box, r2)
    BY DEF PhoneLinked, AppliedReached, Reached
  <1>2. \A t \in Taps : AnswerReached(names[t], r2)
    BY DEF PhoneLinked, AnswerReached
  <1> QED BY <1>1, <1>2 DEF PhoneLinked

\* A tap goes from n to m without a word from the network.
Keeps(n, m, r) ==
  /\ (n.pc = "write" /\ n.io = "sent") =>
       m.pc = n.pc /\ m.io = n.io /\ m.doc = n.doc /\ m.name = n.name
  /\ AnswerReached(m, r)

\* A write that a tap awaits goes on being awaited.
LEMMA AwaitedKeeps ==
  ASSUME NEW w, NEW n, NEW m, NEW r, Awaited(w, n), Keeps(n, m, r)
  PROVE  Awaited(w, m)
  BY DEF Awaited, Keeps

\* The taps move and the queues stay.
LEMMA LinkedNames ==
  ASSUME NEW box, NEW names, NEW names2, NEW r,
         PhoneLinked(box, names, r),
         \A t \in Taps : Keeps(names[t], names2[t], r)
  PROVE  PhoneLinked(box, names2, r)
  <1>1. Linked(box, names2)
    <2> SUFFICES ASSUME NEW u \in Boxes, NEW j \in 1..Len(box[u]),
                        box[u][j].by \in Taps
                 PROVE  Awaited(box[u][j], names2[box[u][j].by])
      BY Zenon DEF Linked
    <2>1. Awaited(box[u][j], names[box[u][j].by])
      BY DEF PhoneLinked, Linked
    <2> QED BY <2>1, AwaitedKeeps
  <1> QED BY <1>1 DEF PhoneLinked, Keeps

\* A new write joins a queue: of a sign-in, or the one that a tap that
\* awaited nothing now awaits.
LEMMA LinkedPush ==
  ASSUME NEW box \in [Boxes -> Seq(Write)], NEW names, NEW names2, NEW r,
         NEW v \in Boxes, NEW w \in Write, ~w.applied,
         PhoneLinked(box, names, r),
         \A t \in Taps : Keeps(names[t], names2[t], r),
         w.by \in Taps => /\ names[w.by].pc # "write"
                          /\ Awaited(w, names2[w.by])
  PROVE  PhoneLinked([box EXCEPT ![v] = Append(@, w)], names2, r)
  <1> DEFINE box2 == [box EXCEPT ![v] = Append(@, w)]
             q == box[v]
  <1>1. PhoneLinked(box, names2, r)
    BY LinkedNames
  <1>2. /\ box2[v] = Append(q, w) /\ q \in Seq(Write) /\ Len(q) \in Nat
        /\ \A u \in Boxes \ {v} : box2[u] = box[u]
    OBVIOUS
  <1>3. \A u \in Boxes : \A j \in 1..Len(box2[u]) :
          \/ j \in 1..Len(box[u]) /\ box2[u][j] = box[u][j]
          \/ u = v /\ j = Len(q) + 1 /\ box2[u][j] = w
    <2> TAKE u \in Boxes
    <2> TAKE j \in 1..Len(box2[u])
    <2> HIDE DEF box2
    <2>1. CASE u = v
      <3>1. /\ Len(Append(q, w)) = Len(q) + 1
            /\ \A k \in 1..Len(q) : Append(q, w)[k] = q[k]
            /\ Append(q, w)[Len(q) + 1] = w
        BY <1>2, AppendProperties
      <3> QED BY <1>2, <2>1, <3>1
    <2>2. CASE u # v
      BY <1>2, <2>2
    <2> QED BY <2>1, <2>2
  <1> HIDE DEF box2, q
  <1>4. ASSUME NEW u \in Boxes, NEW j \in 1..Len(box[u]), w.by \in Taps
        PROVE  box[u][j].by # w.by
    BY <1>4 DEF PhoneLinked, Linked, Awaited
  <1>5. Linked(box2, names2)
    <2> SUFFICES ASSUME NEW u \in Boxes, NEW j \in 1..Len(box2[u]),
                        box2[u][j].by \in Taps
                 PROVE  Awaited(box2[u][j], names2[box2[u][j].by])
      BY Zenon DEF Linked
    <2>1. CASE j \in 1..Len(box[u]) /\ box2[u][j] = box[u][j]
      BY <1>1, <2>1 DEF PhoneLinked, Linked
    <2>2. CASE box2[u][j] = w
      BY <2>2
    <2> QED BY <1>3, <2>1, <2>2
  <1>6. Once(box2)
    <2> SUFFICES ASSUME NEW u \in Boxes, NEW x \in Boxes,
                        NEW i \in 1..Len(box2[u]), NEW j \in 1..Len(box2[x]),
                        box2[u][i].by \in Taps,
                        box2[u][i].by = box2[x][j].by
                 PROVE  u = x /\ i = j
      BY Zenon DEF Once
    <2>1. \/ i \in 1..Len(box[u]) /\ box2[u][i] = box[u][i]
          \/ u = v /\ i = Len(q) + 1 /\ box2[u][i] = w
      BY <1>3
    <2>2. \/ j \in 1..Len(box[x]) /\ box2[x][j] = box[x][j]
          \/ x = v /\ j = Len(q) + 1 /\ box2[x][j] = w
      BY <1>3
    <2>3. CASE /\ i \in 1..Len(box[u]) /\ box2[u][i] = box[u][i]
               /\ j \in 1..Len(box[x]) /\ box2[x][j] = box[x][j]
      BY <2>3 DEF PhoneLinked, Once
    <2>4. CASE /\ i \in 1..Len(box[u]) /\ box2[u][i] = box[u][i]
               /\ box2[x][j] = w
      BY <1>4, <2>4
    <2>5. CASE /\ box2[u][i] = w
               /\ j \in 1..Len(box[x]) /\ box2[x][j] = box[x][j]
      BY <1>4, <2>5
    <2> QED BY <2>1, <2>2, <2>3, <2>4, <2>5
  <1>7. AppliedReached(box2, r)
    <2> SUFFICES ASSUME NEW u \in Boxes, NEW j \in 1..Len(box2[u])
                 PROVE  Reached(box2[u][j], r)
      BY Zenon DEF AppliedReached
    <2>1. CASE j \in 1..Len(box[u]) /\ box2[u][j] = box[u][j]
      BY <2>1 DEF PhoneLinked, AppliedReached
    <2>2. CASE box2[u][j] = w
      BY <2>2 DEF Reached
    <2> QED BY <1>3, <2>1, <2>2
  <1> QED BY <1>1, <1>5, <1>6, <1>7 DEF PhoneLinked, box2

\* The backend gets a write, and its name is on record.
LEMMA LinkedMark ==
  ASSUME NEW box \in [Boxes -> Seq(Write)], NEW names, NEW r, NEW r2,
         NEW v \in Boxes, NEW j \in 1..Len(box[v]),
         r \subseteq r2, PhoneLinked(box, names, r),
         box[v][j].name # None =>
           [doc |-> box[v][j].doc, name |-> box[v][j].name] \in r2
  PROVE  PhoneLinked([box EXCEPT ![v] = Marked(box[v], j)], names, r2)
  <1> DEFINE q == Marked(box[v], j)
             box2 == [box EXCEPT ![v] = q]
  <1>1. PhoneLinked(box, names, r2)
    BY LinkedGrows
  <1>2. box2[v] = q /\ \A u \in Boxes \ {v} : box2[u] = box[u]
    OBVIOUS
  <1>3. /\ Len(q) = Len(box[v])
        /\ \A k \in 1..Len(box[v]) : /\ q[k].by = box[v][k].by
                                     /\ q[k].doc = box[v][k].doc
                                     /\ q[k].name = box[v][k].name
                                     /\ k # j => q[k] = box[v][k]
    BY MarkedQueue
  <1> HIDE DEF q, box2
  <1>4. ASSUME NEW u \in Boxes
        PROVE  /\ Len(box2[u]) = Len(box[u])
               /\ \A k \in 1..Len(box[u]) :
                    /\ box2[u][k].by = box[u][k].by
                    /\ box2[u][k].doc = box[u][k].doc
                    /\ box2[u][k].name = box[u][k].name
                    /\ ~(u = v /\ k = j) => box2[u][k] = box[u][k]
    <2>1. CASE u = v
      BY <1>2, <1>3, <2>1
    <2>2. CASE u # v
      BY <1>2, <2>2
    <2> QED BY <2>1, <2>2
  <1>5. Linked(box2, names)
    <2> SUFFICES ASSUME NEW u \in Boxes, NEW k \in 1..Len(box2[u]),
                        box2[u][k].by \in Taps
                 PROVE  Awaited(box2[u][k], names[box2[u][k].by])
      BY Zenon DEF Linked
    <2>1. /\ k \in 1..Len(box[u]) /\ box2[u][k].by = box[u][k].by
          /\ box2[u][k].doc = box[u][k].doc
          /\ box2[u][k].name = box[u][k].name
      BY <1>4
    <2>2. Awaited(box[u][k], names[box[u][k].by])
      BY <1>1, <2>1 DEF PhoneLinked, Linked
    <2> QED BY <2>1, <2>2 DEF Awaited
  <1>6. Once(box2)
    <2> SUFFICES ASSUME NEW u \in Boxes, NEW x \in Boxes,
                        NEW i \in 1..Len(box2[u]), NEW k \in 1..Len(box2[x]),
                        box2[u][i].by \in Taps,
                        box2[u][i].by = box2[x][k].by
                 PROVE  u = x /\ i = k
      BY Zenon DEF Once
    <2>1. /\ i \in 1..Len(box[u]) /\ box2[u][i].by = box[u][i].by
          /\ k \in 1..Len(box[x]) /\ box2[x][k].by = box[x][k].by
      BY <1>4
    <2>2. box[u][i].by \in Taps /\ box[u][i].by = box[x][k].by
      BY <2>1
    <2>3. Once(box)
      BY <1>1 DEF PhoneLinked
    <2>4. ASSUME NEW a \in 1..Len(box[u]), NEW b \in 1..Len(box[x]),
                 box[u][a].by \in Taps, box[u][a].by = box[x][b].by
          PROVE  u = x /\ a = b
      BY <2>3, <2>4 DEF Once
    <2> QED BY <2>1, <2>2, <2>4, Zenon
  <1>7. AppliedReached(box2, r2)
    <2> SUFFICES ASSUME NEW u \in Boxes, NEW k \in 1..Len(box2[u])
                 PROVE  Reached(box2[u][k], r2)
      BY Zenon DEF AppliedReached
    <2>1. k \in 1..Len(box[u])
      BY <1>4
    <2>2. CASE u = v /\ k = j
      BY <1>4, <2>1, <2>2 DEF Reached
    <2>3. CASE ~(u = v /\ k = j)
      <3>1. box2[u][k] = box[u][k]
        BY <1>4, <2>1, <2>3
      <3> QED BY <1>1, <2>1, <3>1 DEF PhoneLinked, AppliedReached
    <2> QED BY <2>2, <2>3
  <1> QED BY <1>1, <1>5, <1>6, <1>7 DEF PhoneLinked, box2, q

\* A tap that awaits a name goes from n to m: its write was settled.
Answered(n, m, io) ==
  /\ n.name # None
  /\ m.pc = n.pc /\ m.io = io /\ m.doc = n.doc /\ m.name = n.name

\* The oldest write of a queue is settled, and the tap that awaited it hears:
\* that it is done only if the write was applied.
LEMMA LinkedPop ==
  ASSUME NEW box \in [Boxes -> Seq(Write)], NEW names, NEW names2, NEW r,
         NEW v \in Boxes, box[v] # <<>>, NEW io \in {"done", "failed"},
         PhoneLinked(box, names, r),
         io = "done" => box[v][1].applied,
         \A t \in Taps : t # box[v][1].by => names2[t] = names[t],
         box[v][1].by \in Taps =>
           Answered(names[box[v][1].by], names2[box[v][1].by], io)
  PROVE  PhoneLinked([box EXCEPT ![v] = Tail(box[v])], names2, r)
  <1> DEFINE q == box[v]
             w == q[1]
             box2 == [box EXCEPT ![v] = Tail(q)]
  <1>1. /\ q \in Seq(Write) /\ Len(q) \in Nat /\ Len(q) # 0
        /\ Len(Tail(q)) = Len(q) - 1
        /\ \A k \in 1..(Len(q) - 1) : Tail(q)[k] = q[k + 1]
    <2>1. q \in Seq(Write) /\ q # <<>>
      OBVIOUS
    <2> HIDE DEF q
    <2> QED BY <2>1, EmptySeq, LenProperties, HeadTailProperties
  <1>2. box2[v] = Tail(q) /\ \A u \in Boxes \ {v} : box2[u] = box[u]
    OBVIOUS
  <1> DEFINE from(u, k) == IF u = v THEN k + 1 ELSE k
  <1> HIDE DEF box2
  <1>3. ASSUME NEW u \in Boxes, NEW k \in 1..Len(box2[u])
        PROVE  /\ from(u, k) \in 1..Len(box[u])
               /\ box2[u][k] = box[u][from(u, k)]
               /\ ~(u = v /\ from(u, k) = 1)
    <2>1. CASE u = v
      <3>1. k \in 1..(Len(q) - 1) /\ k + 1 \in 1..Len(q) /\ k + 1 # 1
        BY <1>1, <1>2, <2>1
      <3> QED BY <1>1, <1>2, <2>1, <3>1
    <2>2. CASE u # v
      BY <1>2, <2>2
    <2> QED BY <2>1, <2>2
  <1>4. 1 \in 1..Len(q)
    BY <1>1
  <1>5. ASSUME NEW u \in Boxes, NEW k \in 1..Len(box2[u]),
               box2[u][k].by \in Taps
        PROVE  box2[u][k].by # w.by
    <2>1. /\ from(u, k) \in 1..Len(box[u])
          /\ box2[u][k] = box[u][from(u, k)]
          /\ ~(u = v /\ from(u, k) = 1)
      BY <1>3
    <2> HIDE DEF from
    <2> QED BY <1>4, <1>5, <2>1 DEF PhoneLinked, Once
  <1>6. Linked(box2, names2)
    <2> SUFFICES ASSUME NEW u \in Boxes, NEW k \in 1..Len(box2[u]),
                        box2[u][k].by \in Taps
                 PROVE  Awaited(box2[u][k], names2[box2[u][k].by])
      BY Zenon DEF Linked
    <2>1. /\ from(u, k) \in 1..Len(box[u])
          /\ box2[u][k] = box[u][from(u, k)]
      BY <1>3
    <2> HIDE DEF from
    <2>2. Awaited(box2[u][k], names[box2[u][k].by])
      BY <2>1 DEF PhoneLinked, Linked
    <2> QED BY <1>5, <2>2
  <1>7. Once(box2)
    <2> HIDE DEF from
    <2> SUFFICES ASSUME NEW u \in Boxes, NEW x \in Boxes,
                        NEW i \in 1..Len(box2[u]), NEW k \in 1..Len(box2[x]),
                        box2[u][i].by \in Taps,
                        box2[u][i].by = box2[x][k].by
                 PROVE  u = x /\ i = k
      BY DEF Once
    <2>1. /\ from(u, i) \in 1..Len(box[u])
          /\ box2[u][i] = box[u][from(u, i)]
          /\ from(x, k) \in 1..Len(box[x])
          /\ box2[x][k] = box[x][from(x, k)]
      BY <1>3 DEF from
    <2>2. u = x /\ from(u, i) = from(x, k)
      BY <2>1 DEF PhoneLinked, Once
    <2>3. i \in Nat /\ k \in Nat
      BY DEF from
    <2> QED BY <2>2, <2>3 DEF from
  <1>8. AppliedReached(box2, r)
    <2> SUFFICES ASSUME NEW u \in Boxes, NEW k \in 1..Len(box2[u])
                 PROVE  Reached(box2[u][k], r)
      BY Zenon DEF AppliedReached
    <2>1. /\ from(u, k) \in 1..Len(box[u])
          /\ box2[u][k] = box[u][from(u, k)]
      BY <1>3
    <2> HIDE DEF from
    <2> QED BY <2>1 DEF PhoneLinked, AppliedReached
  <1>9. ASSUME NEW t \in Taps
        PROVE  AnswerReached(names2[t], r)
    <2>1. CASE t # w.by
      BY <2>1 DEF PhoneLinked
    <2>2. CASE t = w.by
      <3>1. Awaited(w, names[t])
        BY <1>4, <2>2 DEF PhoneLinked, Linked
      <3>2. Reached(w, r)
        BY <1>4 DEF PhoneLinked, AppliedReached
      <3>3. /\ names[t].name # None /\ names2[t].pc = "write"
            /\ names2[t].io = io /\ names2[t].doc = names[t].doc
            /\ names2[t].name = names[t].name
        BY <2>2, <3>1 DEF Answered, Awaited
      <3> HIDE DEF w
      <3>4. w.doc = names2[t].doc /\ w.name = names2[t].name /\ w.name # None
        BY <3>1, <3>3 DEF Awaited
      <3>5. io = "done" => w.applied
        BY DEF w, q
      <3> QED BY <3>2, <3>3, <3>4, <3>5 DEF Reached, AnswerReached
    <2> QED BY <2>1, <2>2
  <1> QED BY <1>6, <1>7, <1>8, <1>9 DEF PhoneLinked, box2

\* The process is killed: its queues are kept, and nobody awaits them.
LEMMA LinkedOrphan ==
  ASSUME NEW box \in [Boxes -> Seq(Write)], NEW box2, NEW names, NEW names2,
         NEW r, PhoneLinked(box, names, r),
         \A u \in Boxes : box2[u] = Orphaned(box[u]),
         \A t \in Taps : names2[t] = NoNaming
  PROVE  PhoneLinked(box2, names2, r)
  <1>1. None \notin Taps
    BY SessionAssumption
  <1>2. ASSUME NEW u \in Boxes, NEW k \in 1..Len(box2[u])
        PROVE  /\ k \in 1..Len(box[u])
               /\ box2[u][k].by = None
               /\ box2[u][k].doc = box[u][k].doc
               /\ box2[u][k].name = box[u][k].name
               /\ box2[u][k].applied = box[u][k].applied
    BY OrphanedQueue
  <1>3. Linked(box2, names2)
    BY <1>1, <1>2 DEF Linked
  <1>4. Once(box2)
    BY <1>1, <1>2 DEF Once
  <1>5. AppliedReached(box2, r)
    <2> SUFFICES ASSUME NEW u \in Boxes, NEW k \in 1..Len(box2[u])
                 PROVE  Reached(box2[u][k], r)
      BY Zenon DEF AppliedReached
    <2>1. Reached(box[u][k], r)
      BY <1>2 DEF PhoneLinked, AppliedReached
    <2> QED BY <1>2, <2>1 DEF Reached
  <1>6. NoNaming.pc = "idle"
    BY Zenon DEF NoNaming
  <1>7. \A t \in Taps : AnswerReached(names2[t], r)
    BY <1>6 DEF AnswerReached
  <1> QED BY <1>3, <1>4, <1>5, <1>7 DEF PhoneLinked

-----------------------------------------------------------------------------
(* Usernames on their way: every step keeps Delivered *)

\* A step of phone d leaves the other phones as they are.
LEMMA OnePhone ==
  ASSUME Delivered, NEW d \in Devices, reached \subseteq reached',
         PhoneLinked(outbox'[d], naming'[d], reached'),
         \A e \in Devices \ {d} : /\ outbox'[e] = outbox[e]
                                  /\ naming'[e] = naming[e],
         confirmed' \subseteq reached'
  PROVE  Delivered'
  <1>1. ASSUME NEW e \in Devices
        PROVE  PhoneLinked(outbox'[e], naming'[e], reached')
    <2>1. CASE e = d
      BY <2>1
    <2>2. CASE e # d
      <3>1. PhoneLinked(outbox[e], naming[e], reached)
        BY DEF Delivered
      <3>2. PhoneLinked(outbox[e], naming[e], reached')
        BY <3>1, LinkedGrows
      <3> QED BY <2>2, <3>2
    <2> QED BY <2>1, <2>2
  <1> QED BY <1>1 DEF Delivered, NameReachedFirst

\* What Delivered says of one phone.
LEMMA DeliveredHere ==
  ASSUME Sound, Delivered, NEW d \in Devices
  PROVE  /\ PhoneLinked(outbox[d], naming[d], reached)
         /\ outbox[d] \in [Boxes -> Seq(Write)] /\ auth[d] \in Boxes
         /\ Queue(d) = outbox[d][auth[d]]
         /\ \A t \in Taps : AnswerReached(naming[d][t], reached)
         /\ confirmed \subseteq reached
  <1>1. /\ outbox \in [Devices -> [Boxes -> Seq(Write)]]
        /\ auth[d] \in Boxes
    BY DEF Sound, TypeOK, Boxes
  <1>2. /\ PhoneLinked(outbox[d], naming[d], reached)
        /\ confirmed \subseteq reached
    BY DEF Delivered, NameReachedFirst
  <1> QED BY <1>1, <1>2 DEF Queue, PhoneLinked

\* A tap that does not move keeps what it awaits.
LEMMA KeepsSame ==
  ASSUME NEW n, NEW r, AnswerReached(n, r)
  PROVE  Keeps(n, n, r)
  BY DEF Keeps

\* One that awaits nothing may go anywhere but to an answer.
LEMMA KeepsFree ==
  ASSUME NEW n, NEW m, NEW r, ~(n.pc = "write" /\ n.io = "sent"),
         m.pc # "back", ~(m.pc = "write" /\ m.io = "done")
  PROVE  Keeps(n, m, r)
  BY DEF Keeps, AnswerReached

\* A write reaches its document, and so does the name it carries.
LEMMA ApplyDelivered ==
  ASSUME Sound, Delivered, NEW d \in Devices, NEW j, Apply(d, j)
  PROVE  Delivered'
  <1> DEFINE q == Queue(d)
             w == q[j]
  <1>1. /\ j \in 1..Len(q) /\ w \in Write
        /\ outbox'[d] = [outbox[d] EXCEPT ![auth[d]] = Marked(q, j)]
        /\ \A e \in Devices \ {d} : outbox'[e] = outbox[e]
        /\ reached' = reached \cup
             {[doc |-> w.doc, name |-> n] : n \in {w.name} \ {None}}
        /\ UNCHANGED <<naming, confirmed>>
    BY ApplyFacts
  <1>2. /\ PhoneLinked(outbox[d], naming[d], reached)
        /\ outbox[d] \in [Boxes -> Seq(Write)] /\ auth[d] \in Boxes
        /\ q = outbox[d][auth[d]] /\ confirmed \subseteq reached
    BY DeliveredHere
  <1>3. /\ reached \subseteq reached'
        /\ w.name # None => [doc |-> w.doc, name |-> w.name] \in reached'
    <2> HIDE DEF w
    <2> QED BY <1>1
  <1> DEFINE box == outbox[d]
             v == auth[d]
  <1>4. /\ j \in 1..Len(box[v])
        /\ box[v][j].name # None =>
             [doc |-> box[v][j].doc, name |-> box[v][j].name] \in reached'
    BY <1>1, <1>2, <1>3
  <1>5. PhoneLinked([box EXCEPT ![v] = Marked(box[v], j)], naming[d],
                    reached')
    <2> HIDE DEF box, v
    <2>1. /\ box \in [Boxes -> Seq(Write)] /\ v \in Boxes
          /\ PhoneLinked(box, naming[d], reached)
      BY <1>2 DEF box, v
    <2> QED BY <1>3, <1>4, <2>1, LinkedMark
  <1>6. PhoneLinked(outbox'[d], naming'[d], reached')
    BY <1>1, <1>2, <1>5
  <1>7. \A e \in Devices \ {d} : /\ outbox'[e] = outbox[e]
                                 /\ naming'[e] = naming[e]
    BY <1>1
  <1>8. reached \subseteq reached' /\ confirmed' \subseteq reached'
    BY <1>1, <1>2, <1>3
  <1> QED BY <1>6, <1>7, <1>8, OnePhone

\* A write is settled: the tap that awaits it hears what became of it.
LEMMA SettleDelivered ==
  ASSUME Sound, Delivered, NEW d \in Devices, NEW io \in {"done", "failed"},
         Settle(d, io)
  PROVE  Delivered'
  <1> DEFINE q == Queue(d)
             w == q[1]
             box == outbox[d]
             v == auth[d]
  <1>1. /\ q # <<>> /\ w \in Write /\ Head(q) = w
        /\ outbox'[d] = [outbox[d] EXCEPT ![auth[d]] = Tail(q)]
        /\ \A e \in Devices \ {d} : outbox'[e] = outbox[e]
        /\ UNCHANGED <<cloud, device, history>>
    BY LeaveFacts DEF Settle
  <1>2. \/ /\ w.by \in Taps
           /\ task' = task
           /\ naming' = [naming EXCEPT ![d][w.by].io = io]
        \/ w.by \notin Taps /\ naming' = naming
    BY LeaveFacts DEF Settle
  <1>3. io = "done" => w.applied
    BY <1>1 DEF Settle
  <1>4. /\ PhoneLinked(box, naming[d], reached)
        /\ box \in [Boxes -> Seq(Write)] /\ v \in Boxes
        /\ q = box[v] /\ confirmed \subseteq reached
    BY DeliveredHere
  <1>5. w.by \in Taps => naming[d][w.by].name # None
    <2> SUFFICES ASSUME w.by \in Taps PROVE naming[d][w.by].name # None
      OBVIOUS
    <2>1. 1 \in 1..Len(q)
      BY LeaveFacts DEF Settle
    <2>2. Awaited(w, naming[d][w.by])
      BY <1>4, <2>1 DEF PhoneLinked, Linked
    <2>3. NamingFine(naming[d][w.by], screen[d])
      BY NamingFacts
    <2> QED BY <2>2, <2>3, SessionAssumption DEF Awaited, NamingFine
  <1> DEFINE by == w.by
  <1>6. /\ \A t \in Taps : t # by => naming'[d][t] = naming[d][t]
        /\ \A e \in Devices \ {d} : naming'[e] = naming[e]
        /\ by \in Taps =>
             /\ naming'[d][by].pc = naming[d][by].pc
             /\ naming'[d][by].io = io
             /\ naming'[d][by].doc = naming[d][by].doc
             /\ naming'[d][by].name = naming[d][by].name
    <2>1. CASE /\ by \in Taps
               /\ task' = task
               /\ naming' = [naming EXCEPT ![d][by].io = io]
      <3>1. io \in IO
        BY DEF IO
      <3> HIDE DEF by, w, q, box, v
      <3>2. by \in Taps /\ Resumes(d, by, io)
        BY <2>1 DEF Resumes
      <3>3. /\ naming'[d][by].pc = naming[d][by].pc
            /\ naming'[d][by].io = io
            /\ naming'[d][by].doc = naming[d][by].doc
            /\ naming'[d][by].name = naming[d][by].name
            /\ \A k \in Taps \ {by} : naming'[d][k] = naming[d][k]
            /\ \A e \in Devices \ {d} : naming'[e] = naming[e]
        BY <3>1, <3>2, TapAnswered
      <3> QED BY <3>3
    <2>2. CASE by \notin Taps /\ naming' = naming
      BY <2>2
    <2> QED BY <1>2, <2>1, <2>2
  <1>7. PhoneLinked([box EXCEPT ![v] = Tail(box[v])], naming'[d], reached)
    <2>1. /\ box[v] # <<>> /\ box[v][1].by = by
          /\ io = "done" => box[v][1].applied
      BY <1>1, <1>3, <1>4
    <2>2. by \in Taps => naming[d][by].name # None
      BY <1>5
    <2> HIDE DEF box, v, by, q, w
    <2> DEFINE names == naming[d]
               names2 == naming'[d]
    <2>3. /\ \A t \in Taps : t # box[v][1].by => names2[t] = names[t]
          /\ box[v][1].by \in Taps =>
               Answered(names[box[v][1].by], names2[box[v][1].by], io)
      BY <1>6, <2>1, <2>2 DEF Answered
    <2>4. PhoneLinked(box, names, reached)
      BY <1>4
    <2> HIDE DEF names, names2
    <2>5. PhoneLinked([box EXCEPT ![v] = Tail(box[v])], names2, reached)
      BY <1>4, <2>1, <2>3, <2>4, LinkedPop
    <2> QED BY <2>5 DEF names2
  <1>8. reached' = reached /\ confirmed' = confirmed
    BY <1>1 DEF history
  <1>9. PhoneLinked(outbox'[d], naming'[d], reached')
    BY <1>1, <1>4, <1>7, <1>8
  <1> HIDE DEF q, w, box, v, by
  <1>10. \A e \in Devices \ {d} : /\ outbox'[e] = outbox[e]
                                  /\ naming'[e] = naming[e]
    BY <1>1, <1>6
  <1>11. confirmed' \subseteq reached' /\ reached \subseteq reached'
    BY <1>4, <1>8
  <1> QED BY <1>9, <1>10, <1>11, OnePhone

LEMMA CrashDelivered ==
  ASSUME Sound, Delivered, NEW d \in Devices, Crash(d)
  PROVE  Delivered'
  <1>1. /\ \A u \in Boxes : outbox'[d][u] = Orphaned(outbox[d][u])
        /\ \A e \in Devices \ {d} : /\ outbox'[e] = outbox[e]
                                    /\ naming'[e] = naming[e]
        /\ \A t \in Taps : naming'[d][t] = NoNaming
        /\ reached' = reached /\ confirmed' = confirmed
    BY CrashFacts
  <1>2. /\ PhoneLinked(outbox[d], naming[d], reached)
        /\ outbox[d] \in [Boxes -> Seq(Write)] /\ confirmed \subseteq reached
    BY DeliveredHere
  <1>3. PhoneLinked(outbox'[d], naming'[d], reached)
    BY <1>1, <1>2, LinkedOrphan
  <1> QED BY <1>1, <1>2, <1>3, OnePhone

LEMMA TapUsernameDelivered ==
  ASSUME Sound, Delivered, NEW d \in Devices, NEW t \in Taps,
         TapUsername(d, t)
  PROVE  Delivered'
  <1> DEFINE n == naming[d][t]
             v == [n EXCEPT !.pc = "queued"]
  <1>1. /\ n \in Naming /\ n.pc = "idle"
        /\ naming' = [naming EXCEPT ![d][t].pc = "queued"]
        /\ naming \in [Devices -> [Taps -> Naming]]
        /\ outbox' = outbox /\ reached' = reached /\ confirmed' = confirmed
    BY NamingFacts DEF TapUsername, history, Sound, TypeOK
  <1>2. naming' = [naming EXCEPT ![d][t] = v]
    BY <1>1
  <1>3. v.pc = "queued" /\ v \in Naming
    BY <1>1 DEF Naming
  <1> HIDE DEF v
  <1>4. /\ naming'[d][t] = v
        /\ \A k \in Taps \ {t} : naming'[d][k] = naming[d][k]
        /\ \A e \in Devices \ {d} : naming'[e] = naming[e]
    BY <1>1, <1>2, <1>3, TableUpdate
  <1>5. /\ PhoneLinked(outbox[d], naming[d], reached)
        /\ \A k \in Taps : AnswerReached(naming[d][k], reached)
        /\ confirmed \subseteq reached
    BY DeliveredHere
  <1>6. Keeps(n, v, reached)
    BY <1>1, <1>3, KeepsFree
  <1>7. \A k \in Taps : Keeps(naming[d][k], naming'[d][k], reached)
    BY <1>4, <1>5, <1>6, KeepsSame
  <1>8. PhoneLinked(outbox[d], naming'[d], reached)
    BY <1>5, <1>7, LinkedNames
  <1> QED BY <1>1, <1>4, <1>5, <1>8, OnePhone

\* A write joins the queue of the user signed in: of a sign-in, or of a tap
\* that now awaits it.
LEMMA WriteQueued ==
  ASSUME Sound, Delivered, NEW d \in Devices, NEW doc \in Docs,
         NEW name \in Names \cup {None}, NEW by \in Slots \cup Taps,
         SetData(d, doc, name, by),
         \A t \in Taps : Keeps(naming[d][t], naming'[d][t], reached),
         by \in Taps =>
           /\ naming[d][by].pc # "write"
           /\ naming'[d][by].pc = "write" /\ naming'[d][by].io = "sent"
           /\ naming'[d][by].doc = doc /\ naming'[d][by].name = name,
         \A e \in Devices \ {d} : naming'[e] = naming[e],
         UNCHANGED <<reached, confirmed>>
  PROVE  Delivered'
  <1> DEFINE w == NewWrite(doc, name, by)
             box2 == [outbox[d] EXCEPT ![auth[d]] = Append(@, w)]
  <1>1. /\ w \in Write /\ w.doc = doc /\ w.name = name /\ w.by = by
        /\ ~w.applied
    BY NewWriteFields
  <1>2. /\ outbox'[d] = box2
        /\ \A e \in Devices \ {d} : outbox'[e] = outbox[e]
    BY SetDataQueues
  <1> HIDE DEF w
  <1>3. /\ PhoneLinked(outbox[d], naming[d], reached)
        /\ outbox[d] \in [Boxes -> Seq(Write)] /\ auth[d] \in Boxes
        /\ confirmed \subseteq reached
    BY DeliveredHere
  <1>4. w.by \in Taps => /\ naming[d][w.by].pc # "write"
                         /\ Awaited(w, naming'[d][w.by])
    BY <1>1 DEF Awaited
  <1>5. PhoneLinked(box2, naming'[d], reached)
    BY <1>1, <1>3, <1>4, LinkedPush
  <1>6. PhoneLinked(outbox'[d], naming'[d], reached')
    BY <1>2, <1>5
  <1>7. /\ \A e \in Devices \ {d} : /\ outbox'[e] = outbox[e]
                                    /\ naming'[e] = naming[e]
        /\ confirmed' \subseteq reached' /\ reached \subseteq reached'
    BY <1>2, <1>3
  <1> QED BY <1>6, <1>7, OnePhone

\* A tap that has sent its name awaits its own write.
LEMMA SubmitUsernameDelivered ==
  ASSUME Sound, Delivered, NEW d \in Devices, NEW t \in Taps,
         NEW name \in Names, SubmitUsername(d, t, name)
  PROVE  Delivered'
  <1> DEFINE doc == user[d].doc
             m == Writing(doc, name)
  <1>1. /\ doc \in Docs /\ SetData(d, doc, name, t)
        /\ naming[d][t].pc = "queued"
        /\ naming' = [naming EXCEPT ![d][t] = m]
        /\ UNCHANGED history
    BY SubmitUsernameFacts
  <1>2. naming \in [Devices -> [Taps -> Naming]]
    BY DEF Sound, TypeOK
  <1>3. /\ m \in Naming /\ m.pc = "write" /\ m.io = "sent" /\ m.doc = doc
        /\ m.name = name
    BY <1>1, WritingFields
  <1> HIDE DEF m, doc
  <1>4. /\ naming'[d][t] = m
        /\ \A k \in Taps \ {t} : naming'[d][k] = naming[d][k]
        /\ \A e \in Devices \ {d} : naming'[e] = naming[e]
    BY <1>1, <1>2, <1>3, TableUpdate
  <1>5. \A k \in Taps : AnswerReached(naming[d][k], reached)
    BY DeliveredHere
  <1>6. Keeps(naming[d][t], m, reached)
    BY <1>1, <1>3, KeepsFree
  <1>7. \A k \in Taps : Keeps(naming[d][k], naming'[d][k], reached)
    BY <1>4, <1>5, <1>6, KeepsSame
  <1>8. name \in Names \cup {None} /\ t \in Slots \cup Taps
    OBVIOUS
  <1>9. UNCHANGED <<reached, confirmed>>
    BY <1>1 DEF history
  <1>10. t \in Taps =>
           /\ naming[d][t].pc # "write"
           /\ naming'[d][t].pc = "write" /\ naming'[d][t].io = "sent"
           /\ naming'[d][t].doc = doc /\ naming'[d][t].name = name
    BY <1>1, <1>3, <1>4
  <1> QED BY <1>1, <1>4, <1>7, <1>8, <1>9, <1>10, WriteQueued

\* The name that currentUser gets has reached its document.
LEMMA UsernameSavedDelivered ==
  ASSUME Sound, Delivered, NEW d \in Devices, NEW t \in Taps,
         UsernameSaved(d, t)
  PROVE  Delivered'
  <1> DEFINE n == naming[d][t]
             v == naming'[d][t]
  <1>1. /\ n.pc = "write" /\ n.io = "done" /\ v.pc = "back"
        /\ v.doc = n.doc /\ v.name = n.name
        /\ \A k \in Taps \ {t} : naming'[d][k] = naming[d][k]
        /\ \A e \in Devices \ {d} : naming'[e] = naming[e]
        /\ outbox' = outbox /\ reached' = reached /\ confirmed' = confirmed
    BY UsernameSavedFacts DEF history
  <1>2. /\ PhoneLinked(outbox[d], naming[d], reached)
        /\ \A k \in Taps : AnswerReached(naming[d][k], reached)
        /\ confirmed \subseteq reached
    BY DeliveredHere
  <1>3. AnswerReached(n, reached)
    BY <1>2
  <1>4. Keeps(n, v, reached)
    BY <1>1, <1>3 DEF Keeps, AnswerReached
  <1>5. \A k \in Taps : Keeps(naming[d][k], naming'[d][k], reached)
    BY <1>1, <1>2, <1>4, KeepsSame
  <1>6. PhoneLinked(outbox[d], naming'[d], reached)
    BY <1>2, <1>5, LinkedNames
  <1> QED BY <1>1, <1>2, <1>6, OnePhone

\* The sheet is dismissed over a name that was acknowledged.
LEMMA UsernameReplyDelivered ==
  ASSUME Sound, Delivered, NEW d \in Devices, NEW t \in Taps,
         UsernameReply(d, t)
  PROVE  Delivered'
  <1> DEFINE n == naming[d][t]
  <1>1. /\ ~(n.pc = "write" /\ n.io = "sent")
        /\ outbox' = outbox /\ reached' = reached
    BY DEF UsernameReply
  <1>2. /\ PhoneLinked(outbox[d], naming[d], reached)
        /\ \A k \in Taps : AnswerReached(naming[d][k], reached)
        /\ confirmed \subseteq reached
    BY DeliveredHere
  <1>3. NoNaming.pc = "idle"
    BY Zenon DEF NoNaming
  <1>4. Keeps(n, NoNaming, reached)
    BY <1>1, <1>3, KeepsFree
  <1>5. /\ \A k \in Taps : Keeps(naming[d][k], naming'[d][k], reached)
        /\ \A e \in Devices \ {d} : naming'[e] = naming[e]
        /\ confirmed' \subseteq reached
    <2>1. CASE n.pc = "back"
      <3>1. /\ confirmed' = confirmed \cup {[doc |-> n.doc, name |-> n.name]}
            /\ naming'[d][t] = NoNaming
            /\ \A k \in Taps \ {t} :
                 naming'[d][k] = Detached(naming[d][k], n.live)
            /\ \A e \in Devices \ {d} : naming'[e] = naming[e]
        BY <2>1, UsernameDoneFacts
      <3>2. [doc |-> n.doc, name |-> n.name] \in reached
        BY <1>1, <1>2, <2>1 DEF AnswerReached
      <3>3. n.live \in BOOLEAN
        BY NamingFacts DEF Naming
      <3>4. ASSUME NEW k \in Taps
            PROVE  Keeps(naming[d][k], naming'[d][k], reached)
        <4>1. CASE k = t
          BY <1>4, <3>1, <4>1
        <4>2. CASE k # t
          <5> DEFINE m == naming'[d][k]
                     o == naming[d][k]
          <5>1. o \in Naming /\ m = Detached(o, n.live)
            BY <3>1, <4>2, NamingFacts
          <5>2. AnswerReached(o, reached)
            BY <1>2
          <5> HIDE DEF m, o, n
          <5>3. /\ m.pc = o.pc /\ m.io = o.io /\ m.doc = o.doc
                /\ m.name = o.name
            BY <3>3, <5>1, DetachedFields
          <5>4. Keeps(o, m, reached)
            BY <5>2, <5>3 DEF Keeps, AnswerReached
          <5> QED BY <5>4 DEF m, o
        <4> QED BY <4>1, <4>2
      <3> QED BY <1>2, <3>1, <3>2, <3>4
    <2>2. CASE n.pc # "back"
      <3>1. /\ naming' = [naming EXCEPT ![d][t] = NoNaming]
            /\ confirmed' = confirmed
        BY <2>2 DEF UsernameReply, Complain
      <3>2. naming \in [Devices -> [Taps -> Naming]] /\ NoNaming \in Naming
        BY IdleTypes DEF Sound, TypeOK
      <3> HIDE DEF NoNaming
      <3>3. /\ naming'[d][t] = NoNaming
            /\ \A k \in Taps \ {t} : naming'[d][k] = naming[d][k]
            /\ \A e \in Devices \ {d} : naming'[e] = naming[e]
        BY <3>1, <3>2, TableUpdate
      <3>4. \A k \in Taps : Keeps(naming[d][k], naming'[d][k], reached)
        BY <1>2, <1>4, <3>3, KeepsSame
      <3> QED BY <1>2, <3>1, <3>3, <3>4
    <2> QED BY <2>1, <2>2
  <1>6. PhoneLinked(outbox[d], naming'[d], reached)
    BY <1>2, <1>5, LinkedNames
  <1>7. PhoneLinked(outbox'[d], naming'[d], reached')
    BY <1>1, <1>6
  <1>8. /\ \A e \in Devices \ {d} : /\ outbox'[e] = outbox[e]
                                    /\ naming'[e] = naming[e]
        /\ confirmed' \subseteq reached' /\ reached \subseteq reached'
    BY <1>1, <1>5
  <1> QED BY <1>7, <1>8, OnePhone

\* Steps that touch no queue and no tap.
LEMMA FrameDelivered ==
  ASSUME Delivered, UNCHANGED <<outbox, naming, reached, confirmed>>
  PROVE  Delivered'
  <1>1. ASSUME NEW d \in Devices
        PROVE  PhoneLinked(outbox'[d], naming'[d], reached')
    BY DEF Delivered
  <1> QED BY <1>1 DEF Delivered, NameReachedFirst

\* The creation of a document joins the queue of its sign-in.
LEMMA GetReplyDelivered ==
  ASSUME Sound, Delivered, NEW d \in Devices, NEW i \in Slots,
         GetReply(d, i)
  PROVE  Delivered'
  <1> DEFINE k == Key[task[d][i].email]
  <1>1. /\ k \in Docs
        /\ naming' = naming /\ reached' = reached /\ confirmed' = confirmed
    BY TaskFacts DEF GetReply, history
  <1>2. CASE outbox' = outbox
    BY <1>1, <1>2, FrameDelivered
  <1>3. CASE outbox' # outbox
    <2>1. SetData(d, k, None, i)
      BY <1>3 DEF GetReply
    <2>2. \A t \in Taps : AnswerReached(naming[d][t], reached)
      BY DeliveredHere
    <2>3. \A t \in Taps : Keeps(naming[d][t], naming'[d][t], reached)
      BY <1>1, <2>2, KeepsSame
    <2>4. i \notin Taps /\ i \in Slots \cup Taps
      BY SessionAssumption
    <2> HIDE DEF k
    <2>5. ASSUME NEW name \in Names \cup {None}, SetData(d, k, name, i)
          PROVE  Delivered'
      BY <1>1, <2>3, <2>4, <2>5, WriteQueued
    <2> QED BY <2>1, <2>5
  <1> QED BY <1>2, <1>3

LEMMA InitDelivered == Init => Delivered
  <1> SUFFICES ASSUME Init PROVE Delivered
    OBVIOUS
  <1>1. NoNaming.pc = "idle"
    BY Zenon DEF NoNaming
  <1>2. ASSUME NEW d \in Devices
        PROVE  PhoneLinked(outbox[d], naming[d], reached)
    <2>1. /\ \A u \in Boxes : outbox[d][u] = <<>>
          /\ \A t \in Taps : naming[d][t] = NoNaming
      BY DEF Init, Boxes
    <2>2. \A u \in Boxes : 1..Len(outbox[d][u]) = {}
      BY <2>1
    <2>3. /\ Linked(outbox[d], naming[d]) /\ Once(outbox[d])
          /\ AppliedReached(outbox[d], reached)
      BY <2>2 DEF Linked, Once, AppliedReached
    <2>4. \A t \in Taps : AnswerReached(naming[d][t], reached)
      BY <1>1, <2>1 DEF AnswerReached
    <2> QED BY <2>3, <2>4 DEF PhoneLinked
  <1>3. NameReachedFirst
    BY DEF Init, NameReachedFirst
  <1> QED BY <1>2, <1>3 DEF Delivered

LEMMA NextDelivered ==
  ASSUME Sound, Delivered, [Next]_vars
  PROVE  Delivered'
  <1>1. CASE UNCHANGED vars
    BY <1>1, FrameDelivered DEF vars
  <1>2. CASE Next
    <2>1. PICK d \in Devices : PhoneStep(d)
      BY <1>2, NextPhone
    <2>2. CASE \/ \E j \in 1..Len(Queue(d)) : Apply(d, j)
               \/ \E r \in {"done", "failed"} : Settle(d, r)
               \/ Crash(d)
      BY <2>2, ApplyDelivered, SettleDelivered, CrashDelivered
    <2>3. CASE \/ EmptyForm(d) \/ DismissAlert(d)
               \/ OpenGame(d)
               \/ Loaded(d) \/ Reappear(d)
               \/ Logout(d)
      <3>1. UNCHANGED <<outbox, naming, reached, confirmed>>
        BY <2>3 DEF EmptyForm, DismissAlert, OpenGame, Loaded, Reappear,
                    Logout, history
      <3> QED BY <3>1, FrameDelivered
    <2>4. CASE \/ \E t \in Taps : \/ TapUsername(d, t) \/ UsernameSaved(d, t)
                                  \/ UsernameReply(d, t)
               \/ \E t \in Taps, name \in Names : SubmitUsername(d, t, name)
      BY <2>4, TapUsernameDelivered, UsernameSavedDelivered,
         UsernameReplyDelivered, SubmitUsernameDelivered
    <2>5. CASE \/ \E i \in Slots : Appear(d, i)
               \/ \E i \in Slots, e \in Emails :
                    Login(d, i, e) \/ Register(d, i, e) \/ Google(d, i, e)
      <3>1. UNCHANGED <<outbox, naming, reached, confirmed>>
        <4>1. CASE \E i \in Slots : Appear(d, i)
          <5>1. PICK i \in Slots : Appear(d, i)
            BY <4>1
          <5>2. UNCHANGED <<outbox, naming, history>>
            BY <5>1, Zenon DEF Appear
          <5> QED BY <5>2 DEF history
        <4>2. CASE \E i \in Slots, e \in Emails :
                Login(d, i, e) \/ Register(d, i, e) \/ Google(d, i, e)
          <5>1. PICK i \in Slots, e \in Emails, flow \in Flow, pc \in Pc :
                  Begin(d, i, e, flow, pc)
            BY <4>2 DEF Login, Register, Google, Flow, Pc
          <5> QED BY <5>1 DEF Begin
        <4> QED BY <2>5, <4>1, <4>2
      <3> QED BY <3>1, FrameDelivered
    <2>6. CASE \E i \in Slots : TaskStep(d, i)
      <3>1. PICK i \in Slots : TaskStep(d, i)
        BY <2>6
      <3>2. CASE GetReply(d, i)
        BY <3>2, GetReplyDelivered
      <3>3. CASE ~GetReply(d, i)
        <4>1. UNCHANGED <<outbox, naming, reached, confirmed>>
          BY <3>1, <3>3 DEF TaskStep, ServeAuth, ServeRead, AuthReply, Enter,
                            CreateReply, Replace, NameReply, history
        <4> QED BY <4>1, FrameDelivered
      <3> QED BY <3>2, <3>3
    <2> QED BY <2>1, <2>2, <2>3, <2>4, <2>5, <2>6 DEF PhoneStep
  <1> QED BY <1>1, <1>2

LEMMA InvAlways == Spec => []Inv
  <1>1. Init => Inv
    BY InitSound, InitDelivered DEF Inv
  <1>2. Inv /\ [Next]_vars => Inv'
    BY NextSound, NextDelivered DEF Inv
  <1> QED BY <1>1, <1>2, PTL DEF Spec

\* The sheet is dismissed only over a username that has reached the users
\* document submitUsername took it to, however many taps, sign-ins, logouts
\* and crashes come between the tap and the answer, and whatever happens to
\* the queues in the meantime.
THEOREM NamesReachFirst == Spec => []NameReachedFirst
  <1>1. Inv => NameReachedFirst
    BY DEF Inv, Delivered
  <1> QED BY <1>1, InvAlways, PTL
=============================================================================
