--------------------------- MODULE GamePlayProofs ---------------------------
(***************************************************************************)
(* Theorems about GamePlay, for every number of devices, players, slots,   *)
(* days, texts and taps.                                                   *)
(***************************************************************************)
EXTENDS GamePlay, TLAPS, SequenceTheorems

-----------------------------------------------------------------------------
(* Type correctness *)

\* The values a variable starts from, or is reset to, are of its type.
LEMMA RestingTypes ==
  /\ 1 \in Days
  /\ NoUser \in User
  /\ NewGame \in Game
  /\ NoLogin \in LoginTask
  /\ NoLoad \in LoadTask
  /\ NoSubmit \in SubmitTask
  BY DaysAssumption, TextsAssumption
     DEF Days, NoUser, User, NewGame, Game, NoLogin, LoginTask, LoginPc,
         NoLoad, LoadTask, NoSubmit, SubmitTask, IO

\* Grading yields a response document.
LEMMA AnswerType ==
  ASSUME NEW day \in Days, NEW text \in Texts
  PROVE  Answer(day, text) \in SubmittedAnswer
  BY DEF Answer, IsCorrect, SubmittedAnswer

\* A table of tasks, keychain stays well typed when one slot gets a task.
LEMMA SlotUpdate ==
  ASSUME NEW Slots, NEW Task, NEW f \in [Devices -> [Slots -> Task]],
         NEW d \in Devices, NEW i \in Slots, NEW v \in Task
  PROVE  [f EXCEPT ![d][i] = v] \in [Devices -> [Slots -> Task]]
  OBVIOUS

\* A field of a task's record is updated within its type.
LEMMA TaskUpdates ==
  /\ \A t \in SubmitTask, io \in IO : [t EXCEPT !.io = io] \in SubmitTask
  /\ \A t \in LoginTask, io \in IO : [t EXCEPT !.io = io] \in LoginTask
  /\ \A t \in LoadTask, io \in IO : [t EXCEPT !.io = io] \in LoadTask
  BY DEF SubmitTask, LoginTask, LoadTask

\* Settling a write keeps the tasks, keychain well typed.
LEMMA SettleType ==
  ASSUME TypeOK, NEW d \in Devices, NEW w, NEW io \in IO, Settle(d, w, io)
  PROVE  /\ submit' \in [Devices -> [SubmitSlots -> SubmitTask]]
         /\ login' \in [Devices -> [LoginSlots -> LoginTask]]
  <1>1. submit' \in [Devices -> [SubmitSlots -> SubmitTask]]
    BY TaskUpdates DEF TypeOK, Settle
  <1>2. login' \in [Devices -> [LoginSlots -> LoginTask]]
    BY TaskUpdates DEF TypeOK, Settle
  <1> QED BY <1>1, <1>2

\* The initial values are well typed.
LEMMA InitTypeOK == Init => TypeOK
  BY RestingTypes, SlotsAssumption DEF Init, TypeOK, Accounts

\* The calendar of a device stays within Days.
LEMMA MidnightType ==
  ASSUME TypeOK, NEW d \in Devices, Midnight(d)
  PROVE  TypeOK'
  BY DaysAssumption DEF TypeOK, Midnight, Days, cloud, keychain, tasks, history

\* The queues stay well typed when the one in use is replaced by a queue.
LEMMA QueueUpdate ==
  ASSUME TypeOK, NEW d \in Devices, NEW q \in Seq(Write),
         outbox' = [outbox EXCEPT ![d][authUser[d]] = q]
  PROVE  outbox' \in [Devices -> [Accounts -> Seq(Write)]]
  BY DEF TypeOK

\* The queue in use is a queue, and so is the rest of it.
LEMMA QueueType ==
  ASSUME TypeOK, NEW d \in Devices
  PROVE  /\ Queue(d) \in Seq(Write)
         /\ Len(Queue(d)) \in Nat
         /\ Queue(d) # <<>> => /\ Head(Queue(d)) \in Write
                               /\ Tail(Queue(d)) \in Seq(Write)
         /\ \A j \in 1..Len(Queue(d)) : Queue(d)[j] \in Write
  <1>1. Queue(d) \in Seq(Write)
    BY DEF TypeOK, Queue
  <1> QED BY <1>1

\* A write that has reached the backend is still a write of its queue.
LEMMA MarkType ==
  ASSUME NEW q \in Seq(Write), NEW j \in 1..Len(q)
  PROVE  /\ [q EXCEPT ![j].applied = TRUE] \in Seq(Write)
         /\ Len([q EXCEPT ![j].applied = TRUE]) = Len(q)
  <1>1. q[j] \in Write
    OBVIOUS
  <1>2. [q[j] EXCEPT !.applied = TRUE] \in Write
    BY <1>1 DEF Write, ResponseWrite, StreakWrite
  <1> QED BY <1>2

\* A delivered write only gets its mark.
LEMMA DeliveredType ==
  ASSUME TypeOK, NEW d \in Devices, NEW j, Delivered(d, j)
  PROVE  /\ outbox' \in [Devices -> [Accounts -> Seq(Write)]]
         /\ Queue(d)[j] \in Write
  <1>1. /\ j \in 1..Len(Queue(d))
        /\ outbox' = [outbox EXCEPT ![d][authUser[d]] =
                        [Queue(d) EXCEPT ![j].applied = TRUE]]
    BY DEF Delivered, Queue
  <1>2. [Queue(d) EXCEPT ![j].applied = TRUE] \in Seq(Write)
    BY <1>1, QueueType, MarkType
  <1> QED BY <1>1, <1>2, QueueType, QueueUpdate

\* An applied response lands on a player's day.
LEMMA ApplyResponseType ==
  ASSUME TypeOK, NEW d \in Devices, NEW j, ApplyResponse(d, j)
  PROVE  TypeOK'
  <1> DEFINE w == Queue(d)[j]
  <1>1. outbox' \in [Devices -> [Accounts -> Seq(Write)]] /\ w \in Write
    BY DeliveredType DEF ApplyResponse
  <1>2. w \in ResponseWrite
    BY <1>1 DEF ApplyResponse, Write, StreakWrite
  <1>3. responses' \in [Players -> [Days -> SubmittedAnswer \cup {None}]]
    BY <1>2 DEF TypeOK, ApplyResponse, ResponseWrite
  <1>4. stored' \in Nat
    BY DEF TypeOK, ApplyResponse
  <1> QED BY <1>1, <1>3, <1>4
          DEF TypeOK, ApplyResponse, tasks, keychain, history

\* An applied streak lands on a player.
LEMMA ApplyStreakType ==
  ASSUME TypeOK, NEW d \in Devices, NEW j, ApplyStreak(d, j)
  PROVE  TypeOK'
  <1> DEFINE w == Queue(d)[j]
  <1>1. outbox' \in [Devices -> [Accounts -> Seq(Write)]] /\ w \in Write
    BY DeliveredType DEF ApplyStreak
  <1>2. w.name \in Players /\ w.streak \in Nat
    BY <1>1 DEF ApplyStreak, Write, ResponseWrite, StreakWrite
  <1>3. streaks' \in [Players -> Nat \cup {None}]
    BY <1>2 DEF TypeOK, ApplyStreak
  <1> QED BY <1>1, <1>3 DEF TypeOK, ApplyStreak, tasks, keychain, history

\* A write that is acknowledged or refused only leaves the queue and wakes its
\* task.
LEMMA LeaveType ==
  ASSUME TypeOK, NEW d \in Devices, Acknowledge(d) \/ Reject(d)
  PROVE  TypeOK'
  <1>1. PICK result \in IO : Leave(d, result)
    BY DEF Acknowledge, Reject, IO
  <1>2. outbox' = [outbox EXCEPT ![d][authUser[d]] = Tail(Queue(d))]
    BY <1>1 DEF Leave, Queue
  <1>3. outbox' \in [Devices -> [Accounts -> Seq(Write)]]
    BY <1>1, <1>2, QueueType, QueueUpdate DEF Leave
  <1>4. /\ submit' \in [Devices -> [SubmitSlots -> SubmitTask]]
        /\ login' \in [Devices -> [LoginSlots -> LoginTask]]
    BY <1>1, SettleType DEF Leave
  <1> QED BY <1>1, <1>3, <1>4 DEF TypeOK, Leave, cloud, keychain, history

\* What a read returns is a streak or a response, pending or stored.
LEMMA SeenTypes ==
  ASSUME TypeOK, NEW d \in Devices, NEW p \in Players, NEW k \in Days
  PROVE  /\ StreakSeen(d, p) \subseteq Nat \cup {None}
         /\ ResponseSeen(d, p, k) \subseteq SubmittedAnswer \cup {None}
  <1> DEFINE q == Queue(d)
  <1>1. /\ streaks[p] \in Nat \cup {None}
        /\ responses[p][k] \in SubmittedAnswer \cup {None}
        /\ \A j \in 1..Len(q) : q[j] \in Write
    BY QueueType DEF TypeOK
  <1>2. \A j \in Youngest(WritesStreak(q, p)) :
          q[j].streak \in Nat
    BY <1>1 DEF Youngest, WritesStreak, Write, ResponseWrite, StreakWrite
  <1>3. \A j \in Youngest(WritesResponse(q, p, k)) :
          q[j].answer \in SubmittedAnswer
    BY <1>1 DEF Youngest, WritesResponse, Write, ResponseWrite,
                StreakWrite
  <1>4. StreakSeen(d, p) \subseteq Nat \cup {None}
    BY <1>1, <1>2 DEF StreakSeen
  <1>5. ResponseSeen(d, p, k) \subseteq SubmittedAnswer \cup {None}
    BY <1>1, <1>3 DEF ResponseSeen
  <1> QED BY <1>4, <1>5

\* A sign-in read is answered with the streak of a player, never of nil.
LEMMA ServeLoginType ==
  ASSUME TypeOK, NEW d \in Devices, NEW i \in LoginSlots, ServeLogin(d, i)
  PROVE  TypeOK'
  <1> DEFINE t == login[d][i]
  <1>1. t \in LoginTask
    BY DEF TypeOK
  <1>2. ASSUME t.pc = "getStreak", NEW v \in StreakSeen(d, t.player)
        PROVE  [t EXCEPT !.io = "done", !.reply = v] \in LoginTask
    <2>1. t.player \in Players
      BY <1>1, <1>2 DEF LoginTask
    <2>2. v \in Nat \cup {None}
      BY <2>1, SeenTypes, RestingTypes
    <2> QED BY <1>1, <2>2 DEF LoginTask, IO
  <1>3. /\ [t EXCEPT !.io = "done"] \in LoginTask
        /\ [t EXCEPT !.io = "failed"] \in LoginTask
    BY <1>1, TaskUpdates DEF IO
  <1>4. \E v \in LoginTask : login' = [login EXCEPT ![d][i] = v]
    BY <1>2, <1>3, Zenon DEF ServeLogin
  <1>5. login' \in [Devices -> [LoginSlots -> LoginTask]]
    BY <1>4, SlotUpdate DEF TypeOK
  <1> QED BY <1>5 DEF TypeOK, ServeLogin, cloud, keychain, history

\* A load is answered with a response of a player, never of nil.
LEMMA ServeLoadType ==
  ASSUME TypeOK, NEW d \in Devices, NEW i \in LoadSlots, ServeLoad(d, i)
  PROVE  TypeOK'
  <1> DEFINE t == load[d][i]
  <1>1. t \in LoadTask
    BY DEF TypeOK
  <1>2. ASSUME t.pc = "response", NEW r \in ResponseSeen(d, t.player, t.day)
        PROVE  [t EXCEPT !.io = "done", !.reply = r] \in LoadTask
    <2>1. t.player \in Players /\ t.day \in Days
      BY <1>1, <1>2 DEF LoadTask
    <2>2. r \in SubmittedAnswer \cup {None}
      BY <2>1, SeenTypes
    <2> QED BY <1>1, <2>2 DEF LoadTask, IO
  <1>3. /\ [t EXCEPT !.io = "done"] \in LoadTask
        /\ [t EXCEPT !.io = "failed"] \in LoadTask
    BY <1>1, TaskUpdates DEF IO
  <1>4. \E v \in LoadTask : load' = [load EXCEPT ![d][i] = v]
    BY <1>2, <1>3, Zenon DEF ServeLoad
  <1>5. load' \in [Devices -> [LoadSlots -> LoadTask]]
    BY <1>4, SlotUpdate DEF TypeOK
  <1> QED BY <1>5 DEF TypeOK, ServeLoad, cloud, keychain, history

\* Orphaned writes are still writes, and as many.
LEMMA OrphanedType ==
  ASSUME NEW q \in Seq(Write)
  PROVE  /\ Orphaned(q) \in Seq(Write)
         /\ Len(Orphaned(q)) = Len(q)
         /\ \A j \in 1..Len(q) : Orphaned(q)[j] = [q[j] EXCEPT !.by = None]
  <1>1. ASSUME NEW w \in Write
        PROVE  [w EXCEPT !.by = None] \in Write
    BY DEF Write, ResponseWrite, StreakWrite
  <1>2. Len(q) \in Nat /\ \A j \in 1..Len(q) : q[j] \in Write
    OBVIOUS
  <1>3. \A j \in 1..Len(q) : [q[j] EXCEPT !.by = None] \in Write
    BY <1>1, <1>2
  <1>4. Orphaned(q) \in Seq(Write)
    BY <1>2, <1>3, IsASeq DEF Orphaned
  <1>5. Len(Orphaned(q)) = Len(q)
    BY <1>2, <1>4, LenProperties DEF Orphaned
  <1> QED BY <1>4, <1>5 DEF Orphaned

\* A killed process starts over; its orphaned writes are still writes.
LEMMA CrashType ==
  ASSUME TypeOK, NEW d \in Devices, Crash(d)
  PROVE  TypeOK'
  <1>1. \A u \in Accounts : Orphaned(outbox[d][u]) \in Seq(Write)
    BY OrphanedType DEF TypeOK
  <1>2. outbox' \in [Devices -> [Accounts -> Seq(Write)]]
    BY <1>1 DEF TypeOK, Crash
  <1> QED BY <1>2, RestingTypes DEF TypeOK, Crash, cloud, keychain, history

\* LoginView appears; a session is restored for a player.
LEMMA AppearType ==
  ASSUME TypeOK, NEW d \in Devices, NEW i \in LoginSlots, Appear(d, i)
  PROVE  TypeOK'
  <1>1. Remembered(d) \subseteq Players
    BY DEF TypeOK, Remembered, Accounts
  <1>2. \A p \in Players :
          [NoLogin EXCEPT !.pc = "enter", !.player = p] \in LoginTask
    BY NoneAssumption DEF NoLogin, LoginTask, LoginPc, IO
  <1>3. \/ login' = login
        \/ \E v \in LoginTask : login' = [login EXCEPT ![d][i] = v]
    BY <1>1, <1>2, Zenon DEF Appear
  <1>4. ASSUME NEW v \in LoginTask, login' = [login EXCEPT ![d][i] = v]
        PROVE  login' \in [Devices -> [LoginSlots -> LoginTask]]
    BY <1>4, SlotUpdate DEF TypeOK
  <1>5. login' \in [Devices -> [LoginSlots -> LoginTask]]
    BY <1>3, <1>4 DEF TypeOK
  <1> QED BY <1>5 DEF TypeOK, Appear, cloud, keychain, history

\* A tap on a sign-in button asks for a player.
LEMMA TapSignInType ==
  ASSUME TypeOK, NEW d \in Devices, NEW i \in LoginSlots, NEW p \in Players,
         NEW button \in Buttons, TapSignIn(d, i, p, button)
  PROVE  TypeOK'
  <1>1. [NoLogin EXCEPT !.pc = button, !.io = "sent", !.player = p]
          \in LoginTask
    BY NoneAssumption, SlotsAssumption DEF NoLogin, LoginTask, LoginPc, IO
  <1>2. login' \in [Devices -> [LoginSlots -> LoginTask]]
    BY <1>1, SlotUpdate DEF TypeOK, TapSignIn
  <1>3. signIns' \in 0..MaxSignIns
    BY SlotsAssumption DEF TypeOK, TapSignIn
  <1> QED BY <1>2, <1>3 DEF TypeOK, TapSignIn, cloud, keychain

\* Who signs in, by email or Google, is a player.
LEMMA ServeSignInType ==
  ASSUME TypeOK, NEW d \in Devices, NEW i \in LoginSlots, ServeSignIn(d, i)
  PROVE  TypeOK'
  <1> DEFINE t == login[d][i]
  <1>1. t \in LoginTask
    BY DEF TypeOK
  <1>2. /\ t.player \in Players
        /\ [t EXCEPT !.pc = "enter", !.io = "none"] \in LoginTask
        /\ [t EXCEPT !.pc = "get"] \in LoginTask
    BY <1>1 DEF ServeSignIn, LoginTask, LoginPc, IO
  <1>3. \E v \in LoginTask : login' = [login EXCEPT ![d][i] = v]
    BY <1>2, RestingTypes, Zenon DEF ServeSignIn
  <1>4. login' \in [Devices -> [LoginSlots -> LoginTask]]
    BY <1>3, SlotUpdate DEF TypeOK
  <1>5. /\ authUser' \in [Devices -> Accounts]
        /\ google' \in [Devices -> Accounts]
    BY <1>2 DEF TypeOK, ServeSignIn, Accounts, keychain
  <1> QED BY <1>4, <1>5 DEF TypeOK, ServeSignIn, cloud, history

\* A decoded users document is that of a player with a name.
LEMMA GetReplyType ==
  ASSUME TypeOK, NEW d \in Devices, NEW i \in LoginSlots, GetReply(d, i)
  PROVE  TypeOK'
  <1> DEFINE t == login[d][i]
  <1>1. t \in LoginTask
    BY DEF TypeOK
  <1>2. /\ [NoUser EXCEPT !.account = t.player, !.username = t.player]
             \in User
        /\ [t EXCEPT !.pc = "rename", !.io = "sent"] \in LoginTask
    BY <1>1 DEF GetReply, LoginTask, LoginPc, IO, NoUser, User
  <1>3. \E v \in LoginTask : login' = [login EXCEPT ![d][i] = v]
    BY <1>2, RestingTypes, Zenon DEF GetReply
  <1>4. login' \in [Devices -> [LoginSlots -> LoginTask]]
    BY <1>3, SlotUpdate DEF TypeOK
  <1>5. user' \in [Devices -> User]
    BY <1>2 DEF TypeOK, GetReply
  <1> QED BY <1>4, <1>5 DEF TypeOK, GetReply, cloud, keychain, history

\* The user who enters is a player, without a name.
LEMMA EnterType ==
  ASSUME TypeOK, NEW d \in Devices, NEW i \in LoginSlots, Enter(d, i)
  PROVE  TypeOK'
  <1> DEFINE t == login[d][i]
  <1>1. t \in LoginTask
    BY DEF TypeOK
  <1>2. /\ [NoUser EXCEPT !.account = t.player] \in User
        /\ [t EXCEPT !.pc = "name", !.io = "sent"] \in LoginTask
    BY <1>1 DEF Enter, LoginTask, LoginPc, IO, NoUser, User
  <1>3. login' \in [Devices -> [LoginSlots -> LoginTask]]
    BY <1>2, SlotUpdate DEF TypeOK, Enter
  <1>4. user' \in [Devices -> User]
    BY <1>2 DEF TypeOK, Enter
  <1> QED BY <1>3, <1>4 DEF TypeOK, Enter, cloud, keychain, history

\* A username that arrives is a player's.
LEMMA NameReplyType ==
  ASSUME TypeOK, NEW d \in Devices, NEW i \in LoginSlots, NameReply(d, i)
  PROVE  TypeOK'
  <1> DEFINE t == login[d][i]
             pc == IF t.pc = "name" THEN "named" ELSE "replace"
  <1>1. t \in LoginTask /\ user[d] \in User
    BY DEF TypeOK
  <1>2. SetUsername(user[d], t.player) \in User
    BY <1>1 DEF SetUsername, User, LoginTask
  <1>3. [t EXCEPT !.pc = pc, !.io = "none"] \in LoginTask
    BY <1>1 DEF NameReply, LoginTask, LoginPc, IO
  <1>4. user' \in [Devices -> User]
    BY <1>2 DEF TypeOK, NameReply
  <1>5. \E v \in LoginTask : login' = [login EXCEPT ![d][i] = v]
    BY <1>3, RestingTypes, Zenon DEF NameReply
  <1>6. login' \in [Devices -> [LoginSlots -> LoginTask]]
    BY <1>5, SlotUpdate DEF TypeOK
  <1> QED BY <1>4, <1>6 DEF TypeOK, NameReply, cloud, keychain, history

\* The streak is asked for only under a name.
LEMMA FetchUserStreakType ==
  ASSUME TypeOK, NEW d \in Devices, NEW i \in LoginSlots, FetchUserStreak(d, i)
  PROVE  TypeOK'
  <1> DEFINE n == user[d].username
  <1>1. n \in Players \cup {None}
    BY DEF TypeOK, User
  <1>2. n # None =>
          [NoLogin EXCEPT !.pc = "getStreak", !.io = "sent", !.player = n]
            \in LoginTask
    BY <1>1 DEF NoLogin, LoginTask, LoginPc, IO
  <1>3. \E v \in LoginTask : login' = [login EXCEPT ![d][i] = v]
    BY <1>2, RestingTypes, Zenon DEF FetchUserStreak, HasName
  <1>4. login' \in [Devices -> [LoginSlots -> LoginTask]]
    BY <1>3, SlotUpdate DEF TypeOK
  <1> QED BY <1>4 DEF TypeOK, FetchUserStreak, cloud, keychain, history

\* A streak write of a well-typed user keeps the queue well typed.
LEMMA SendStreakType ==
  ASSUME TypeOK, NEW d \in Devices, HasName(user[d]), NEW n \in Nat,
         NEW by \in LoginSlots \cup SubmitSlots,
         SendStreak(d, user[d].username, n, by)
  PROVE  outbox' \in [Devices -> [Accounts -> Seq(Write)]]
  <1> DEFINE w == [kind |-> "streak", name |-> user[d].username,
                   streak |-> n, by |-> by, applied |-> FALSE]
  <1>1. user[d].username \in Players
    BY DEF TypeOK, HasName, User
  <1>2. w \in Write
    BY <1>1 DEF Write, StreakWrite
  <1>3. outbox' = [outbox EXCEPT ![d][authUser[d]] = Append(Queue(d), w)]
    BY DEF SendStreak, SetData, Queue
  <1> HIDE DEF w
  <1>4. Append(Queue(d), w) \in Seq(Write)
    BY <1>2, QueueType
  <1> QED BY <1>3, <1>4, QueueUpdate

\* The streak that arrives, or the 0 written instead, is a number.
LEMMA StreakReplyType ==
  ASSUME TypeOK, NEW d \in Devices, NEW i \in LoginSlots, StreakReply(d, i)
  PROVE  TypeOK'
  <1> DEFINE t == login[d][i]
  <1>1. t \in LoginTask /\ user[d] \in User
    BY DEF TypeOK
  <1>2. t.reply # None => SetStreak(user[d], t.reply) \in User
    BY <1>1 DEF SetStreak, User, LoginTask
  <1>3. user' \in [Devices -> User]
    BY <1>2 DEF TypeOK, StreakReply
  <1>4. [NoLogin EXCEPT !.pc = "putStreak", !.io = "sent"] \in LoginTask
    BY DEF NoLogin, LoginTask, LoginPc, IO
  <1>5. \E v \in LoginTask : login' = [login EXCEPT ![d][i] = v]
    BY <1>4, RestingTypes, Zenon DEF StreakReply
  <1>6. login' \in [Devices -> [LoginSlots -> LoginTask]]
    BY <1>5, SlotUpdate DEF TypeOK
  <1>7. \/ outbox' = outbox
        \/ HasName(user[d]) /\ SendStreak(d, user[d].username, 0, i)
    BY Zenon DEF StreakReply
  <1>8. outbox' \in [Devices -> [Accounts -> Seq(Write)]]
    BY <1>7, SendStreakType DEF TypeOK
  <1> QED BY <1>3, <1>6, <1>8 DEF TypeOK, StreakReply, cloud, keychain, history

\* The streak of a new player is 0.
LEMMA StreakCreatedType ==
  ASSUME TypeOK, NEW d \in Devices, NEW i \in LoginSlots, StreakCreated(d, i)
  PROVE  TypeOK'
  BY RestingTypes
     DEF TypeOK, StreakCreated, SetStreak, cloud, keychain, history, User

\* Logging out resets the user and the view and detaches the tasks.
LEMMA LogoutType ==
  ASSUME TypeOK, NEW d \in Devices, Logout(d)
  PROVE  TypeOK'
  <1>1. \A t \in SubmitTask : [t EXCEPT !.live = FALSE] \in SubmitTask
    BY DEF SubmitTask
  <1>2. submit' \in [Devices -> [SubmitSlots -> SubmitTask]]
    BY <1>1 DEF TypeOK, Logout
  <1>3. /\ authUser' \in [Devices -> Accounts]
        /\ google' \in [Devices -> Accounts]
    BY DEF TypeOK, Logout, Accounts
  <1> QED BY <1>2, <1>3, RestingTypes DEF TypeOK, Logout, cloud, history

\* onAppear on a well-typed view: the day is stamped, loading starts.
LEMMA OnAppearType ==
  ASSUME TypeOK, NEW d \in Devices, NEW i \in LoadSlots, NEW g \in Game,
         OnAppear(d, i, g)
  PROVE  /\ lastSeen' \in [Devices -> Days \cup {None}]
         /\ game' \in [Devices -> Game]
         /\ load' \in [Devices -> [LoadSlots -> LoadTask]]
         /\ opens' \in 0..MaxOpens
  <1>1. today[d] \in Days
    BY DEF TypeOK
  <1>2. [RefreshData(d, g) EXCEPT !.isLoading = TRUE] \in Game
    BY DEF RefreshData, Game
  <1>3. [NoLoad EXCEPT !.pc = "question", !.io = "sent", !.day = today[d]]
          \in LoadTask
    BY <1>1 DEF NoLoad, LoadTask, IO
  <1>4. opens' \in 0..MaxOpens
    BY SlotsAssumption DEF TypeOK, OnAppear
  <1>5. game' \in [Devices -> Game]
    BY <1>2 DEF TypeOK, OnAppear
  <1>6. load' \in [Devices -> [LoadSlots -> LoadTask]]
    BY <1>3 DEF TypeOK, OnAppear
  <1> QED BY <1>1, <1>4, <1>5, <1>6 DEF TypeOK, OnAppear

\* The game opens with a fresh view.
LEMMA OpenGameType ==
  ASSUME TypeOK, NEW d \in Devices, NEW i \in LoadSlots, OpenGame(d, i)
  PROVE  TypeOK'
  <1>1. OnAppear(d, i, NewGame)
    BY DEF OpenGame
  <1> QED BY <1>1, OnAppearType, RestingTypes
          DEF TypeOK, OpenGame, cloud, keychain

\* The game reappears with the view it had.
LEMMA ReappearType ==
  ASSUME TypeOK, NEW d \in Devices, NEW i \in LoadSlots, Reappear(d, i)
  PROVE  TypeOK'
  <1>1. OnAppear(d, i, game[d]) /\ game[d] \in Game
    BY DEF TypeOK, Reappear
  <1> QED BY <1>1, OnAppearType DEF TypeOK, Reappear, cloud, keychain

\* A question that arrives is one of a day.
LEMMA QuestionReplyType ==
  ASSUME TypeOK, NEW d \in Devices, NEW i \in LoadSlots, QuestionReply(d, i)
  PROVE  TypeOK'
  <1> DEFINE t == load[d][i]
             n == user[d].username
             ok == Succeeded(t.io)
             g == [game[d] EXCEPT
                     !.currentQuestion = IF ok /\ HasQuestion(t.day)
                                         THEN t.day ELSE @,
                     !.isLoading = @ /\ ok]
  <1>1. /\ t \in LoadTask
        /\ n \in Players \cup {None}
        /\ game[d] \in Game
        /\ today[d] \in Days
    BY DEF TypeOK, User
  <1>2. g \in Game
    BY <1>1 DEF Game, LoadTask, Succeeded
  <1>3. game' \in [Devices -> Game]
    <2>1. game' = [game EXCEPT ![d] = g]
      BY DEF QuestionReply
    <2> HIDE DEF g
    <2> QED BY <1>2, <2>1 DEF TypeOK
  <1>4. [NoLoad EXCEPT !.pc = "unchecked"] \in LoadTask
    BY RestingTypes DEF NoLoad, LoadTask, IO
  <1>5. n # None =>
          [NoLoad EXCEPT !.pc = "response", !.io = "sent", !.day = today[d],
                         !.player = n] \in LoadTask
    BY <1>1 DEF NoLoad, LoadTask, IO
  <1>6. \E v \in LoadTask : load' = [load EXCEPT ![d][i] = v]
    BY <1>4, <1>5, Zenon DEF QuestionReply, HasName
  <1>7. load' \in [Devices -> [LoadSlots -> LoadTask]]
    BY <1>6, SlotUpdate DEF TypeOK
  <1> QED BY <1>3, <1>7 DEF TypeOK, QuestionReply, cloud, keychain, history

\* A load that skipped the check ends.
LEMMA UncheckedType ==
  ASSUME TypeOK, NEW d \in Devices, NEW i \in LoadSlots, Unchecked(d, i)
  PROVE  TypeOK'
  BY RestingTypes
     DEF TypeOK, Unchecked, FinishLoad, Game, cloud, keychain, history

\* A response that arrives is shown as it was stored.
LEMMA ResponseReplyType ==
  ASSUME TypeOK, NEW d \in Devices, NEW i \in LoadSlots, ResponseReply(d, i)
  PROVE  TypeOK'
  <1> DEFINE r == load[d][i].reply
             g == IF r # None /\ r.date = load[d][i].day
                  THEN [game[d] EXCEPT !.submittedAnswer = r] ELSE game[d]
  <1>1. game[d] \in Game /\ r \in SubmittedAnswer \cup {None}
    BY DEF TypeOK, LoadTask
  <1>2. g \in Game
    BY <1>1 DEF Game
  <1>3. FinishLoad(d, i, g)
    BY DEF ResponseReply
  <1> HIDE DEF g
  <1>4. [g EXCEPT !.showUsernameEntry = ~HasName(user[d]),
                  !.isLoading = FALSE] \in Game
    BY <1>2 DEF Game, HasName
  <1> QED BY <1>3, <1>4, RestingTypes
          DEF TypeOK, FinishLoad, cloud, keychain, history

\* A load whose check threw ends.
LEMMA ResponseFailedType ==
  ASSUME TypeOK, NEW d \in Devices, NEW i \in LoadSlots, ResponseFailed(d, i)
  PROVE  TypeOK'
  BY RestingTypes
     DEF TypeOK, ResponseFailed, Game, cloud, keychain, history

\* A tap queues a task.
LEMMA TapSubmitType ==
  ASSUME TypeOK, NEW d \in Devices, NEW i \in SubmitSlots, NEW a \in Texts,
         TapSubmit(d, i, a)
  PROVE  TypeOK'
  <1>0. game[d] \in Game
    BY DEF TypeOK
  <1>1. /\ [game[d] EXCEPT !.answerText = a] \in Game
        /\ [NoSubmit EXCEPT !.pc = "queued", !.live = TRUE] \in SubmitTask
    BY <1>0, RestingTypes DEF Game, NoSubmit, SubmitTask, IO
  <1>2. game' \in [Devices -> Game]
    BY <1>1 DEF TypeOK, TapSubmit
  <1>3. submit' \in [Devices -> [SubmitSlots -> SubmitTask]]
    BY <1>1 DEF TypeOK, TapSubmit
  <1>4. taps' \in 0..MaxTaps
    BY SlotsAssumption DEF TypeOK, TapSubmit
  <1> QED BY <1>2, <1>3, <1>4 DEF TypeOK, TapSubmit, cloud, keychain

\* The response sent is that of a player to a question there is.
LEMMA SubmitAnswerType ==
  ASSUME TypeOK, NEW d \in Devices, NEW i \in SubmitSlots, SubmitAnswer(d, i)
  PROVE  TypeOK'
  <1> DEFINE t == submit[d][i]
             q == game[d].currentQuestion
             answer == Answer(q, game[d].answerText)
             w == [kind |-> "response", name |-> user[d].username,
                   day |-> today[d], answer |-> answer, by |-> i,
                   applied |-> FALSE]
             sends == q # None /\ HasName(user[d])
  <1>1. /\ t \in SubmitTask
        /\ game[d] \in Game
        /\ user[d] \in User
        /\ today[d] \in Days
    BY DEF TypeOK
  <1>2. /\ [game[d] EXCEPT !.warnedAboutEmptyAnswer = TRUE] \in Game
        /\ [game[d] EXCEPT !.isLoading = TRUE] \in Game
    BY <1>1 DEF Game
  <1>3. \E g \in Game : game' = [game EXCEPT ![d] = g]
    BY <1>2, Zenon DEF SubmitAnswer
  <1>4. game' \in [Devices -> Game]
    BY <1>3 DEF TypeOK
  <1>5. sends => answer \in SubmittedAnswer
    BY <1>1, AnswerType DEF Game
  <1>6. sends => [t EXCEPT !.pc = "response", !.io = "sent",
                           !.answer = answer, !.name = user[d].username,
                           !.day = today[d]] \in SubmitTask
    <2> HIDE DEF answer
    <2> QED BY <1>1, <1>5 DEF SubmitTask, IO, HasName, User
  <1>7. \E v \in SubmitTask : submit' = [submit EXCEPT ![d][i] = v]
    BY <1>6, RestingTypes, Zenon DEF SubmitAnswer
  <1>8. submit' \in [Devices -> [SubmitSlots -> SubmitTask]]
    BY <1>7, SlotUpdate DEF TypeOK
  <1>9. sends => w \in Write
    <2> HIDE DEF answer
    <2> QED BY <1>1, <1>5 DEF Write, ResponseWrite, User, HasName
  <1>10. \/ outbox' = outbox
         \/ /\ sends
            /\ outbox' = [outbox EXCEPT ![d][authUser[d]] =
                            Append(Queue(d), w)]
    BY Zenon DEF SubmitAnswer, SendResponse, SetData, Queue
  <1>11. outbox' \in [Devices -> [Accounts -> Seq(Write)]]
    <2> HIDE DEF w, sends
    <2>1. sends => Append(Queue(d), w) \in Seq(Write)
      BY <1>9, QueueType
    <2> QED BY <1>10, <2>1, QueueUpdate DEF TypeOK
  <1> QED BY <1>4, <1>8, <1>11
          DEF TypeOK, SubmitAnswer, cloud, keychain, history

\* Stopping the spinner changes nothing else.
LEMMA StopLoadingType ==
  ASSUME TypeOK, NEW d \in Devices, NEW t \in SubmitTask, StopLoading(d, t)
  PROVE  game' \in [Devices -> Game]
  <1>0. game[d] \in Game
    BY DEF TypeOK
  <1>1. [game[d] EXCEPT !.isLoading = IF t.live THEN FALSE ELSE @] \in Game
    BY <1>0 DEF Game, SubmitTask
  <1> QED BY <1>1 DEF TypeOK, StopLoading

\* An acknowledged answer yields a number for the streak.
LEMMA AnswerReplyType ==
  ASSUME TypeOK, NEW d \in Devices, NEW i \in SubmitSlots, AnswerReply(d, i)
  PROVE  TypeOK'
  <1> DEFINE t == submit[d][i]
             n == NewStreak(user[d], t.answer.answerOutcome)
             g == [game[d] EXCEPT
                     !.submittedAnswer = IF t.live THEN t.answer ELSE @]
  <1>1. t \in SubmitTask /\ game[d] \in Game /\ user[d] \in User
    BY DEF TypeOK
  <1>2. n \in Nat
    BY <1>1 DEF NewStreak, User
  <1>3. [t EXCEPT !.pc = "hop", !.io = "none", !.streak = n] \in SubmitTask
    <2>1. t.name # None
      BY <1>1 DEF AnswerReply, SubmitTask
    <2> HIDE DEF n
    <2> QED BY <1>1, <1>2, <2>1 DEF SubmitTask, IO
  <1>4. g \in Game
    BY <1>1 DEF Game, SubmitTask
  <1>5. \/ game' = [game EXCEPT ![d] = g]
        \/ StopLoading(d, t)
    BY Zenon DEF AnswerReply
  <1>6. game' \in [Devices -> Game]
    <2> HIDE DEF g
    <2> QED BY <1>1, <1>4, <1>5, StopLoadingType DEF TypeOK
  <1>7. \E v \in SubmitTask : submit' = [submit EXCEPT ![d][i] = v]
    BY <1>3, RestingTypes, Zenon DEF AnswerReply
  <1>8. submit' \in [Devices -> [SubmitSlots -> SubmitTask]]
    BY <1>7, SlotUpdate DEF TypeOK
  <1> QED BY <1>6, <1>8 DEF TypeOK, AnswerReply, cloud, keychain, history

\* The streak is sent only under a name.
LEMMA UpdateCurrentUsersStreakType ==
  ASSUME TypeOK, NEW d \in Devices, NEW i \in SubmitSlots,
         UpdateCurrentUsersStreak(d, i)
  PROVE  TypeOK'
  <1> DEFINE t == submit[d][i]
  <1>0. t \in SubmitTask /\ t.pc = "hop"
    BY DEF TypeOK, UpdateCurrentUsersStreak
  <1>1. t \in SubmitTask /\ t.streak \in Nat /\ t.name # None
    BY <1>0 DEF SubmitTask
  <1>2. /\ [t EXCEPT !.pc = "streak", !.io = "sent"] \in SubmitTask
        /\ [t EXCEPT !.pc = "back", !.streak = 0] \in SubmitTask
    BY <1>1 DEF SubmitTask, IO
  <1>3. \E v \in SubmitTask : submit' = [submit EXCEPT ![d][i] = v]
    BY <1>2, Zenon DEF UpdateCurrentUsersStreak
  <1>4. submit' \in [Devices -> [SubmitSlots -> SubmitTask]]
    BY <1>3, SlotUpdate DEF TypeOK
  <1>5. \/ /\ HasName(user[d])
           /\ SendStreak(d, user[d].username, t.streak, i)
        \/ outbox' = outbox
    BY Zenon DEF UpdateCurrentUsersStreak
  <1>6. outbox' \in [Devices -> [Accounts -> Seq(Write)]]
    BY <1>1, <1>5, SendStreakType DEF TypeOK
  <1> QED BY <1>4, <1>6
          DEF TypeOK, UpdateCurrentUsersStreak, cloud, keychain, history

\* A saved streak becomes the user's.
LEMMA StreakSavedType ==
  ASSUME TypeOK, NEW d \in Devices, NEW i \in SubmitSlots, StreakSaved(d, i)
  PROVE  TypeOK'
  <1> DEFINE t == submit[d][i]
  <1>1. t \in SubmitTask /\ user[d] \in User
    BY DEF TypeOK
  <1>2. SetStreak(user[d], t.streak) \in User
    BY <1>1 DEF SetStreak, User, SubmitTask
  <1>3. user' \in [Devices -> User]
    BY <1>2 DEF TypeOK, StreakSaved
  <1>4. [t EXCEPT !.pc = "back", !.io = "none", !.streak = 0] \in SubmitTask
    <2>1. t.name # None
      BY <1>1 DEF StreakSaved, SubmitTask
    <2> QED BY <1>1, <2>1 DEF SubmitTask, IO
  <1>5. submit' \in [Devices -> [SubmitSlots -> SubmitTask]]
    BY <1>4, SlotUpdate DEF TypeOK, StreakSaved
  <1> QED BY <1>3, <1>5 DEF TypeOK, StreakSaved, cloud, keychain, history

\* The end of a submission stops the spinner and frees the slot.
LEMMA SubmitReturnsType ==
  ASSUME TypeOK, NEW d \in Devices, NEW i \in SubmitSlots, SubmitReturns(d, i)
  PROVE  TypeOK'
  <1>1. submit[d][i] \in SubmitTask
    BY DEF TypeOK
  <1>2. game' \in [Devices -> Game]
    BY <1>1, StopLoadingType DEF SubmitReturns
  <1> QED BY <1>2, RestingTypes
          DEF TypeOK, SubmitReturns, cloud, keychain, history

\* Every step keeps TypeOK.
LEMMA NextTypeOK == TypeOK /\ [Next]_vars => TypeOK'
  <1> SUFFICES ASSUME TypeOK, [Next]_vars PROVE TypeOK'
    OBVIOUS
  <1>1. CASE UNCHANGED vars
    BY <1>1 DEF TypeOK, vars
  <1>2. CASE Next
    <2>1. PICK d \in Devices :
            \/ Midnight(d) \/ Apply(d) \/ Acknowledge(d) \/ Reject(d)
            \/ Crash(d) \/ Logout(d)
            \/ \E i \in LoginSlots :
                 \/ Appear(d, i)
                 \/ \E p \in Players, button \in Buttons :
                      TapSignIn(d, i, p, button)
                 \/ LoginStep(d, i)
            \/ \E i \in LoadSlots :
                 OpenGame(d, i) \/ Reappear(d, i) \/ LoadStep(d, i)
            \/ \E i \in SubmitSlots :
                 (\E a \in Texts : TapSubmit(d, i, a)) \/ SubmitStep(d, i)
      BY <1>2, Zenon DEF Next
    <2>2. CASE \/ Midnight(d) \/ Apply(d) \/ Acknowledge(d) \/ Reject(d)
               \/ Crash(d) \/ Logout(d)
      BY <2>2, MidnightType, ApplyResponseType, ApplyStreakType, LeaveType,
         CrashType, LogoutType DEF Apply
    <2>3. ASSUME NEW i \in LoginSlots,
                 \/ Appear(d, i)
                 \/ \E p \in Players, button \in Buttons :
                      TapSignIn(d, i, p, button)
                 \/ LoginStep(d, i)
          PROVE  TypeOK'
      BY <2>3, AppearType, TapSignInType, ServeSignInType, ServeLoginType,
         GetReplyType, EnterType, NameReplyType,
         FetchUserStreakType, StreakReplyType, StreakCreatedType
         DEF LoginStep
    <2>4. ASSUME NEW i \in LoadSlots,
                 OpenGame(d, i) \/ Reappear(d, i) \/ LoadStep(d, i)
          PROVE  TypeOK'
      BY <2>4, OpenGameType, ReappearType, ServeLoadType, QuestionReplyType,
         UncheckedType, ResponseReplyType, ResponseFailedType DEF LoadStep
    <2>5. ASSUME NEW i \in SubmitSlots,
                 (\E a \in Texts : TapSubmit(d, i, a)) \/ SubmitStep(d, i)
          PROVE  TypeOK'
      BY <2>5, TapSubmitType, SubmitAnswerType, AnswerReplyType,
         UpdateCurrentUsersStreakType, StreakSavedType, SubmitReturnsType
      DEF SubmitStep
    <2> QED BY <2>1, <2>2, <2>3, <2>4, <2>5
  <1> QED BY <1>1, <1>2

\* TypeOK, for every instance: in particular a read always names the player
\* whose document it asks for, so no document is looked up under nil.
THEOREM TypeCorrect == Spec => []TypeOK
  <1>1. Init => TypeOK
    BY InitTypeOK
  <1>2. TypeOK /\ [Next]_vars => TypeOK'
    BY NextTypeOK
  <1> QED BY <1>1, <1>2, PTL DEF Spec

-----------------------------------------------------------------------------
(***************************************************************************)
(* Responses are graded and filed.  GradedAndFiled alone is not inductive: *)
(* a bad document could come out of a device's queue, into which it could  *)
(* get from a view holding a question of the future or of no document.     *)
(* Filing adds what those places hold.                                     *)
(***************************************************************************)

\* Every response in queue q is already graded and filed.
QueueGraded(q) ==
  \A j \in 1..Len(q) :
    q[j].kind = "response" =>
      Graded(q[j].answer) /\ q[j].answer.date <= q[j].day

\* So it is in every queue, served or parked.
WritesGraded ==
  \A d \in Devices, u \in Accounts : QueueGraded(outbox[d][u])

\* A view holds a question that exists and is not of a day to come.
QuestionsHeld ==
  \A d \in Devices :
    game[d].currentQuestion # None =>
      /\ HasQuestion(game[d].currentQuestion)
      /\ game[d].currentQuestion <= today[d]

\* A load asks for a day that has come.
LoadsOfThePast ==
  \A d \in Devices, i \in LoadSlots : load[d][i].day <= today[d]

Filing == GradedAndFiled /\ WritesGraded /\ QuestionsHeld /\ LoadsOfThePast

\* Days are numbers, so the order on them is the calendar's.
LEMMA DayFacts ==
  ASSUME TypeOK, NEW d \in Devices
  PROVE  today[d] \in Nat /\ 1 <= today[d]
  BY DaysAssumption DEF TypeOK, Days

\* Views keep good questions when a step keeps or drops each of them.
LEMMA QuestionsFrame ==
  ASSUME QuestionsHeld, UNCHANGED today,
         \A e \in Devices : game'[e].currentQuestion
                              \in {None, game[e].currentQuestion}
  PROVE  QuestionsHeld'
  BY DEF QuestionsHeld, HasQuestion

\* Loads stay of the past when a step keeps, resets or stamps each of them.
LEMMA LoadsFrame ==
  ASSUME TypeOK, LoadsOfThePast, UNCHANGED today,
         \A e \in Devices, k \in LoadSlots :
           load'[e][k].day \in {1, today[e], load[e][k].day}
  PROVE  LoadsOfThePast'
  BY DayFacts DEF LoadsOfThePast

\* Queues stay graded when the one in use is replaced by a graded one.
LEMMA WritesUpdate ==
  ASSUME TypeOK, WritesGraded, NEW d \in Devices, NEW q, QueueGraded(q),
         outbox' = [outbox EXCEPT ![d][authUser[d]] = q]
  PROVE  WritesGraded'
  <1> SUFFICES ASSUME NEW e \in Devices, NEW u \in Accounts
               PROVE  QueueGraded(outbox'[e][u])
    BY DEF WritesGraded, QueueGraded, Graded, HasQuestion, Answer, IsCorrect
  <1>1. outbox'[e][u] \in {q, outbox[e][u]}
    BY DEF TypeOK
  <1> QED BY <1>1 DEF WritesGraded

\* A queue stays graded when its oldest write leaves it.
LEMMA QueuePop ==
  ASSUME NEW q \in Seq(Write), q # <<>>, QueueGraded(q)
  PROVE  QueueGraded(Tail(q))
  <1>1. /\ Len(Tail(q)) = Len(q) - 1
        /\ \A j \in 1..Len(Tail(q)) : Tail(q)[j] = q[j + 1]
    BY HeadTailProperties
  <1>2. Len(q) \in Nat
    OBVIOUS
  <1> SUFFICES ASSUME NEW j \in 1..Len(Tail(q)), Tail(q)[j].kind = "response"
               PROVE  /\ Graded(Tail(q)[j].answer)
                      /\ Tail(q)[j].answer.date <= Tail(q)[j].day
    BY DEF QueueGraded
  <1>3. Tail(q)[j] = q[j + 1]
    BY <1>1
  <1>4. j + 1 \in 1..Len(q)
    <2> DEFINE m == Len(q)
               n == Len(Tail(q))
    <2>1. m \in Nat /\ n = m - 1 /\ j \in 1..n
      BY <1>1, <1>2
    <2> HIDE DEF m, n
    <2>2. j + 1 \in 1..m
      BY <2>1
    <2> QED BY <2>2 DEF m
  <1> QED BY <1>3, <1>4 DEF QueueGraded

\* A queue stays graded when a streak, or a graded response, joins it.
LEMMA QueuePush ==
  ASSUME NEW q \in Seq(Write), QueueGraded(q), NEW w,
         w.kind = "response" => Graded(w.answer) /\ w.answer.date <= w.day
  PROVE  QueueGraded(Append(q, w))
  <1> SUFFICES ASSUME NEW j \in 1..Len(Append(q, w)),
                      Append(q, w)[j].kind = "response"
               PROVE  /\ Graded(Append(q, w)[j].answer)
                      /\ Append(q, w)[j].answer.date <= Append(q, w)[j].day
    BY DEF QueueGraded
  <1>1. \/ j \in 1..Len(q) /\ Append(q, w)[j] = q[j]
        \/ Append(q, w)[j] = w
    OBVIOUS
  <1> QED BY <1>1 DEF QueueGraded

\* A queue stays graded when its writes are marked or lose their tasks.
LEMMA QueueRelabel ==
  ASSUME NEW q \in Seq(Write), QueueGraded(q), NEW r, Len(r) = Len(q),
         \A j \in 1..Len(q) :
           \/ r[j] = q[j]
           \/ r[j] = [q[j] EXCEPT !.applied = TRUE]
           \/ r[j] = [q[j] EXCEPT !.by = None]
  PROVE  QueueGraded(r)
  <1> SUFFICES ASSUME NEW j \in 1..Len(q), r[j].kind = "response"
               PROVE  Graded(r[j].answer) /\ r[j].answer.date <= r[j].day
    BY DEF QueueGraded
  <1>1. q[j] \in Write
    OBVIOUS
  <1>2. /\ r[j].kind = q[j].kind
        /\ q[j].kind = "response" =>
             r[j].answer = q[j].answer /\ r[j].day = q[j].day
    BY <1>1 DEF Write, ResponseWrite, StreakWrite
  <1> QED BY <1>2 DEF QueueGraded

\* Delivering a write leaves the queues graded.
LEMMA DeliveredGraded ==
  ASSUME TypeOK, WritesGraded, NEW d \in Devices, NEW j, Delivered(d, j)
  PROVE  WritesGraded'
  <1> DEFINE r == [Queue(d) EXCEPT ![j].applied = TRUE]
  <1>1. /\ Queue(d) \in Seq(Write)
        /\ QueueGraded(Queue(d))
        /\ j \in 1..Len(Queue(d))
    BY QueueType DEF WritesGraded, TypeOK, Queue, Delivered
  <1>2. outbox' = [outbox EXCEPT ![d][authUser[d]] = r]
    BY DEF Delivered, Queue
  <1>3. Len(r) = Len(Queue(d))
    BY <1>1, MarkType
  <1>4. \A k \in 1..Len(Queue(d)) :
          \/ r[k] = Queue(d)[k]
          \/ r[k] = [Queue(d)[k] EXCEPT !.applied = TRUE]
    <2> SUFFICES ASSUME NEW k \in 1..Len(Queue(d))
                 PROVE  r[k] = IF k = j
                               THEN [Queue(d)[k] EXCEPT !.applied = TRUE]
                               ELSE Queue(d)[k]
      OBVIOUS
    <2>1. DOMAIN Queue(d) = 1..Len(Queue(d))
      BY <1>1
    <2> QED BY <1>1, <2>1
  <1>5. QueueGraded(r)
    <2> HIDE DEF r
    <2> QED BY <1>1, <1>3, <1>4, QueueRelabel
  <1> HIDE DEF r
  <1> QED BY <1>2, <1>5, WritesUpdate

\* Queues stay graded when a streak, or a graded response, joins one.
LEMMA WritesPush ==
  ASSUME TypeOK, WritesGraded, NEW d \in Devices, NEW w,
         w.kind = "response" => Graded(w.answer) /\ w.answer.date <= w.day,
         outbox' = [outbox EXCEPT ![d][authUser[d]] = Append(Queue(d), w)]
  PROVE  WritesGraded'
  <1>1. Queue(d) \in Seq(Write) /\ QueueGraded(Queue(d))
    BY QueueType DEF WritesGraded, TypeOK, Queue
  <1>2. QueueGraded(Append(Queue(d), w))
    BY <1>1, QueuePush
  <1> QED BY <1>2, WritesUpdate

\* No step but the delivery of a write changes the responses.
LEMMA ResponsesFrame ==
  ASSUME GradedAndFiled, UNCHANGED responses
  PROVE  GradedAndFiled'
  BY DEF GradedAndFiled

\* No step that leaves the queues alone makes a bad write.
LEMMA WritesFrame ==
  ASSUME WritesGraded, UNCHANGED outbox
  PROVE  WritesGraded'
  BY DEF WritesGraded

\* Steps of sign-in tasks and Firestore that touch no response, queue, view or
\* load.
LEMMA FilingFrame ==
  ASSUME Filing, UNCHANGED <<today, responses, outbox, game, load>>
  PROVE  Filing'
  <1>1. GradedAndFiled' /\ WritesGraded'
    BY ResponsesFrame, WritesFrame DEF Filing
  <1>2. QuestionsHeld' /\ LoadsOfThePast'
    BY DEF Filing, QuestionsHeld, LoadsOfThePast
  <1> QED BY <1>1, <1>2 DEF Filing

\* Time passing makes no question or load one of the future.
LEMMA MidnightFiling ==
  ASSUME TypeOK, Filing, NEW d \in Devices, Midnight(d)
  PROVE  Filing'
  <1>1. \A e \in Devices :
          today[e] \in Nat /\ today'[e] \in Nat /\ today[e] <= today'[e]
    BY DayFacts DEF TypeOK, Midnight
  <1>2. \A e \in Devices : game[e].currentQuestion \in Nat \cup {None}
    BY DEF TypeOK, Game, Days
  <1>3. \A e \in Devices, i \in LoadSlots : load[e][i].day \in Nat
    BY DEF TypeOK, LoadTask, Days
  <1>4. GradedAndFiled' /\ WritesGraded'
    BY ResponsesFrame, WritesFrame DEF Filing, Midnight, cloud
  <1>5. QuestionsHeld'
    BY <1>1, <1>2 DEF Filing, QuestionsHeld, Midnight
  <1>6. LoadsOfThePast'
    BY <1>1, <1>3 DEF Filing, LoadsOfThePast, Midnight, tasks
  <1> QED BY <1>4, <1>5, <1>6 DEF Filing

\* The backend files a write of the queue, which is good.
LEMMA ApplyResponseFiling ==
  ASSUME TypeOK, Filing, NEW d \in Devices, NEW j, ApplyResponse(d, j)
  PROVE  Filing'
  <1> DEFINE w == Queue(d)[j]
  <1>1. j \in 1..Len(Queue(d)) /\ w.kind = "response"
    BY DEF ApplyResponse, Delivered
  <1>2. QueueGraded(Queue(d))
    BY DEF Filing, WritesGraded, TypeOK, Queue
  <1>3. Graded(w.answer) /\ w.answer.date <= w.day
    BY <1>1, <1>2 DEF QueueGraded
  <1>4. responses' = [responses EXCEPT ![w.name][w.day] = w.answer]
    BY DEF ApplyResponse
  <1>5. GradedAndFiled'
    <2> SUFFICES ASSUME NEW p \in Players, NEW k \in Days,
                        responses'[p][k] # None
                 PROVE  /\ Graded(responses'[p][k])
                        /\ responses'[p][k].date <= k
      BY DEF GradedAndFiled
    <2> HIDE DEF w
    <2>1. \/ responses'[p][k] = responses[p][k]
          \/ responses'[p][k] = w.answer /\ k = w.day
      BY <1>4 DEF TypeOK
    <2> QED BY <2>1, <1>3 DEF Filing, GradedAndFiled
  <1>6. WritesGraded'
    BY DeliveredGraded DEF Filing, ApplyResponse
  <1>7. QuestionsHeld' /\ LoadsOfThePast'
    BY QuestionsFrame, LoadsFrame DEF Filing, ApplyResponse, tasks
  <1> QED BY <1>5, <1>6, <1>7 DEF Filing

\* A streak that reaches the backend files no response.
LEMMA ApplyStreakFiling ==
  ASSUME TypeOK, Filing, NEW d \in Devices, NEW j, ApplyStreak(d, j)
  PROVE  Filing'
  <1>1. GradedAndFiled'
    BY ResponsesFrame DEF Filing, ApplyStreak
  <1>2. WritesGraded'
    BY DeliveredGraded DEF Filing, ApplyStreak
  <1>3. QuestionsHeld' /\ LoadsOfThePast'
    BY QuestionsFrame, LoadsFrame DEF Filing, ApplyStreak, tasks
  <1> QED BY <1>1, <1>2, <1>3 DEF Filing

\* An acknowledged or refused write only leaves the queue.
LEMMA LeaveFiling ==
  ASSUME TypeOK, Filing, NEW d \in Devices, Acknowledge(d) \/ Reject(d)
  PROVE  Filing'
  <1>1. /\ Queue(d) # <<>>
        /\ outbox' = [outbox EXCEPT ![d][authUser[d]] = Tail(Queue(d))]
        /\ UNCHANGED <<today, responses, game, load>>
    BY DEF Acknowledge, Reject, Leave, Queue, cloud
  <1>2. WritesGraded'
    <2>1. QueueGraded(Queue(d))
      BY DEF Filing, WritesGraded, TypeOK, Queue
    <2>2. QueueGraded(Tail(Queue(d)))
      BY <1>1, <2>1, QueueType, QueuePop
    <2> QED BY <1>1, <2>2, WritesUpdate DEF Filing
  <1>3. GradedAndFiled'
    BY <1>1, ResponsesFrame DEF Filing
  <1>4. QuestionsHeld' /\ LoadsOfThePast'
    BY <1>1, QuestionsFrame, LoadsFrame DEF Filing
  <1> QED BY <1>2, <1>3, <1>4 DEF Filing

\* A crash forgets views and loads, and only orphans the writes.
LEMMA CrashFiling ==
  ASSUME TypeOK, Filing, NEW d \in Devices, Crash(d)
  PROVE  Filing'
  <1>1. GradedAndFiled'
    BY ResponsesFrame DEF Filing, Crash, cloud
  <1>2. WritesGraded'
    <2> SUFFICES ASSUME NEW e \in Devices, NEW u \in Accounts
                 PROVE  QueueGraded(outbox'[e][u])
      BY DEF WritesGraded, QueueGraded, Graded, HasQuestion, Answer, IsCorrect
    <2>1. outbox'[e][u] \in {outbox[e][u], Orphaned(outbox[e][u])}
      BY DEF TypeOK, Crash
    <2>2. outbox[e][u] \in Seq(Write) /\ QueueGraded(outbox[e][u])
      BY DEF TypeOK, Filing, WritesGraded
    <2>3. QueueGraded(Orphaned(outbox[e][u]))
      BY <2>2, OrphanedType, QueueRelabel
    <2> QED BY <2>1, <2>2, <2>3
  <1>3. QuestionsHeld'
    BY QuestionsFrame DEF Filing, TypeOK, Crash, NewGame
  <1>4. LoadsOfThePast'
    BY LoadsFrame DEF Filing, TypeOK, Crash, NoLoad
  <1> QED BY <1>1, <1>2, <1>3, <1>4 DEF Filing

\* Logging out replaces the view and drops its loads.
LEMMA LogoutFiling ==
  ASSUME TypeOK, Filing, NEW d \in Devices, Logout(d)
  PROVE  Filing'
  <1>1. GradedAndFiled'
    BY ResponsesFrame DEF Filing, Logout, cloud
  <1>2. WritesGraded'
    BY WritesFrame DEF Filing, Logout
  <1>3. QuestionsHeld'
    BY QuestionsFrame DEF Filing, TypeOK, Logout, NewGame
  <1>4. LoadsOfThePast'
    BY LoadsFrame DEF Filing, TypeOK, Logout, NoLoad
  <1> QED BY <1>1, <1>2, <1>3, <1>4 DEF Filing

\* Sign-in steps other than the creation of a streak touch nothing here.
LEMMA LoginFiling ==
  ASSUME Filing, NEW d \in Devices, NEW i \in LoginSlots,
         \/ Appear(d, i)
         \/ \E p \in Players, button \in Buttons : TapSignIn(d, i, p, button)
         \/ ServeSignIn(d, i)
         \/ ServeLogin(d, i)
         \/ GetReply(d, i)
         \/ Enter(d, i)
         \/ NameReply(d, i)
         \/ FetchUserStreak(d, i)
         \/ StreakCreated(d, i)
  PROVE  Filing'
  <1>1. UNCHANGED <<today, responses, outbox, game, load>>
    BY DEF Appear, TapSignIn, ServeSignIn, ServeLogin, GetReply, Enter,
           NameReply, FetchUserStreak, StreakCreated, cloud
  <1> QED BY <1>1, FilingFrame

\* A streak in the queue is no response.
LEMMA StreakReplyFiling ==
  ASSUME TypeOK, Filing, NEW d \in Devices, NEW i \in LoginSlots,
         StreakReply(d, i)
  PROVE  Filing'
  <1> DEFINE w == [kind |-> "streak", name |-> user[d].username,
                   streak |-> 0, by |-> i, applied |-> FALSE]
  <1>0. \/ outbox' = outbox
        \/ outbox' = [outbox EXCEPT ![d][authUser[d]] = Append(Queue(d), w)]
    BY Zenon DEF StreakReply, SendStreak, SetData, Queue
  <1>1. GradedAndFiled'
    BY ResponsesFrame DEF Filing, StreakReply, cloud
  <1>2. WritesGraded'
    BY <1>0, WritesFrame, WritesPush DEF Filing
  <1>3. QuestionsHeld'
    BY QuestionsFrame DEF Filing, StreakReply
  <1>4. LoadsOfThePast'
    BY LoadsFrame DEF Filing, StreakReply
  <1> QED BY <1>1, <1>2, <1>3, <1>4 DEF Filing

\* onAppear keeps or forgets the question and asks for today's.
LEMMA OnAppearFiling ==
  ASSUME TypeOK, Filing, NEW d \in Devices, NEW i \in LoadSlots,
         OpenGame(d, i) \/ Reappear(d, i)
  PROVE  Filing'
  <1> DEFINE g == IF OpenGame(d, i) THEN NewGame ELSE game[d]
  <1>0. /\ OnAppear(d, i, g)
        /\ g \in Game
        /\ g.currentQuestion \in {None, game[d].currentQuestion}
        /\ UNCHANGED <<today, responses, outbox>>
    BY RestingTypes DEF TypeOK, OpenGame, Reappear, NewGame, cloud
  <1> HIDE DEF g
  <1>1. GradedAndFiled'
    BY <1>0, ResponsesFrame DEF Filing
  <1>2. WritesGraded'
    BY <1>0, WritesFrame DEF Filing
  <1>3. QuestionsHeld'
    <2>1. [RefreshData(d, g) EXCEPT !.isLoading = TRUE].currentQuestion
            \in {None, g.currentQuestion}
      BY <1>0 DEF RefreshData, Game
    <2>2. game' = [game EXCEPT ![d] =
                     [RefreshData(d, g) EXCEPT !.isLoading = TRUE]]
      BY <1>0 DEF OnAppear
    <2>3. \A e \in Devices : game'[e].currentQuestion
                                \in {None, game[e].currentQuestion}
      BY <1>0, <2>1, <2>2 DEF TypeOK
    <2> QED BY <1>0, <2>3, QuestionsFrame DEF Filing
  <1>4. LoadsOfThePast'
    <2>1. load' = [load EXCEPT ![d][i] =
            [NoLoad EXCEPT !.pc = "question", !.io = "sent", !.day = today[d]]]
      BY <1>0 DEF OnAppear
    <2>2. \A e \in Devices, k \in LoadSlots :
            load'[e][k].day \in {1, today[e], load[e][k].day}
      BY <2>1 DEF TypeOK, NoLoad
    <2> QED BY <1>0, <2>2, LoadsFrame DEF Filing
  <1> QED BY <1>1, <1>2, <1>3, <1>4 DEF Filing

\* A served read keeps the day it asked for.
LEMMA ServeLoadFiling ==
  ASSUME TypeOK, Filing, NEW d \in Devices, NEW i \in LoadSlots,
         ServeLoad(d, i)
  PROVE  Filing'
  <1> DEFINE t == load[d][i]
  <1>0. t \in LoadTask
    BY DEF TypeOK
  <1>1. GradedAndFiled'
    BY ResponsesFrame DEF Filing, ServeLoad, cloud
  <1>2. WritesGraded'
    BY WritesFrame DEF Filing, ServeLoad
  <1>3. QuestionsHeld'
    BY QuestionsFrame DEF Filing, ServeLoad
  <1>4. LoadsOfThePast'
    <2> DEFINE Same(v) == v.day = t.day
    <2>1. /\ Same([t EXCEPT !.io = "done"])
          /\ Same([t EXCEPT !.io = "failed"])
          /\ \A r : Same([t EXCEPT !.io = "done", !.reply = r])
      BY <1>0 DEF LoadTask
    <2>2. \E v : Same(v) /\ load' = [load EXCEPT ![d][i] = v]
      <3> HIDE DEF Same
      <3> QED BY <2>1, Zenon DEF ServeLoad
    <2>3. \A e \in Devices, k \in LoadSlots :
            load'[e][k].day = load[e][k].day
      BY <2>2 DEF TypeOK
    <2> QED BY <2>3, LoadsFrame DEF Filing, ServeLoad
  <1> QED BY <1>1, <1>2, <1>3, <1>4 DEF Filing

\* The question that arrives exists and is one of a day that has come.
LEMMA QuestionReplyFiling ==
  ASSUME TypeOK, Filing, NEW d \in Devices, NEW i \in LoadSlots,
         QuestionReply(d, i)
  PROVE  Filing'
  <1>1. GradedAndFiled'
    BY ResponsesFrame DEF Filing, QuestionReply, cloud
  <1>2. WritesGraded'
    BY WritesFrame DEF Filing, QuestionReply
  <1>3. QuestionsHeld'
    <2> DEFINE day == load[d][i].day
               found == Succeeded(load[d][i].io) /\ HasQuestion(day)
               q == IF found THEN day ELSE game[d].currentQuestion
    <2>1. game[d] \in Game
      BY DEF TypeOK
    <2>2. game' = [game EXCEPT ![d] =
                     [game[d] EXCEPT !.currentQuestion = q,
                                     !.isLoading =
                                       @ /\ Succeeded(load[d][i].io)]]
      BY DEF QuestionReply
    <2> HIDE DEF q
    <2>3. \A e \in Devices : game'[e].currentQuestion =
            IF e = d THEN q ELSE game[e].currentQuestion
      BY <2>1, <2>2 DEF TypeOK, Game
    <2>4. found => HasQuestion(day) /\ day <= today[d]
      BY DEF Filing, LoadsOfThePast
    <2>5. q # None => HasQuestion(q) /\ q <= today[d]
      BY <2>4 DEF q, Filing, QuestionsHeld
    <2> QED BY <2>3, <2>5 DEF Filing, QuestionsHeld, QuestionReply
  <1>4. LoadsOfThePast'
    <2> DEFINE Stamped(v) == v.day \in {1, today[d]}
    <2>1. /\ Stamped([NoLoad EXCEPT !.pc = "unchecked"])
          /\ Stamped([NoLoad EXCEPT !.pc = "response", !.io = "sent",
                                    !.day = today[d],
                                    !.player = user[d].username])
      BY DEF NoLoad
    <2>2. PICK v : Stamped(v) /\ load' = [load EXCEPT ![d][i] = v]
      <3> HIDE DEF Stamped
      <3> QED BY <2>1, Zenon DEF QuestionReply
    <2>3. \A e \in Devices, k \in LoadSlots :
            load'[e][k].day \in {1, today[e], load[e][k].day}
      BY <2>2 DEF TypeOK
    <2> QED BY <2>3, LoadsFrame DEF Filing, QuestionReply
  <1> QED BY <1>1, <1>2, <1>3, <1>4 DEF Filing

\* The end of a load changes no question.
LEMMA FinishedLoadQuestion ==
  ASSUME TypeOK, NEW d \in Devices, NEW i \in LoadSlots,
         Unchecked(d, i) \/ ResponseReply(d, i) \/ ResponseFailed(d, i)
  PROVE  \A e \in Devices :
           game'[e].currentQuestion = game[e].currentQuestion
  <1>1. game[d] \in Game
    BY DEF TypeOK
  <1> DEFINE Same(g) == g.currentQuestion = game[d].currentQuestion
             r == load[d][i].reply
             b == ~HasName(user[d])
  <1>2. /\ Same([game[d] EXCEPT !.isLoading = FALSE])
        /\ Same([game[d] EXCEPT !.showUsernameEntry = b,
                                !.isLoading = FALSE])
        /\ Same([[game[d] EXCEPT !.submittedAnswer = r] EXCEPT
                   !.showUsernameEntry = b, !.isLoading = FALSE])
    BY <1>1 DEF Game
  <1>3. PICK g : Same(g) /\ game' = [game EXCEPT ![d] = g]
    <2> HIDE DEF Same
    <2> QED BY <1>2, Zenon
            DEF Unchecked, ResponseReply, ResponseFailed, FinishLoad
  <1> QED BY <1>3 DEF TypeOK

\* The end of a load changes neither the question nor a day.
LEMMA FinishedLoadFiling ==
  ASSUME TypeOK, Filing, NEW d \in Devices, NEW i \in LoadSlots,
         Unchecked(d, i) \/ ResponseReply(d, i) \/ ResponseFailed(d, i)
  PROVE  Filing'
  <1>0. UNCHANGED <<today, responses, outbox>>
    BY DEF Unchecked, ResponseReply, ResponseFailed, FinishLoad, cloud
  <1>1. GradedAndFiled'
    BY <1>0, ResponsesFrame DEF Filing
  <1>2. WritesGraded'
    BY <1>0, WritesFrame DEF Filing
  <1>3. QuestionsHeld'
    BY <1>0, FinishedLoadQuestion, QuestionsFrame DEF Filing
  <1>4. LoadsOfThePast'
    <2>1. load' = [load EXCEPT ![d][i] = NoLoad]
      BY DEF Unchecked, ResponseReply, ResponseFailed, FinishLoad
    <2>2. \A e \in Devices, k \in LoadSlots :
            load'[e][k].day \in {1, today[e], load[e][k].day}
      BY <2>1 DEF TypeOK, NoLoad
    <2> QED BY <1>0, <2>2, LoadsFrame DEF Filing
  <1> QED BY <1>1, <1>2, <1>3, <1>4 DEF Filing

\* A submission changes no question.
LEMMA SubmissionQuestion ==
  ASSUME TypeOK, NEW d \in Devices, NEW i \in SubmitSlots,
         (\E a \in Texts : TapSubmit(d, i, a)) \/ SubmitStep(d, i)
  PROVE  \A e \in Devices :
           game'[e].currentQuestion = game[e].currentQuestion
  <1>1. game[d] \in Game
    BY DEF TypeOK
  <1> DEFINE Same(g) == g.currentQuestion = game[d].currentQuestion
  <1>2. /\ \A a : Same([game[d] EXCEPT !.answerText = a])
        /\ \A a : Same([game[d] EXCEPT !.submittedAnswer = a])
        /\ \A a : Same([game[d] EXCEPT !.isLoading = a])
        /\ Same([game[d] EXCEPT !.warnedAboutEmptyAnswer = TRUE])
    BY <1>1 DEF Game
  <1>3. \/ game' = game
        \/ \E g : Same(g) /\ game' = [game EXCEPT ![d] = g]
    <2> HIDE DEF Same
    <2>1. CASE \E a \in Texts : TapSubmit(d, i, a)
      BY <1>2, <2>1, Zenon DEF TapSubmit
    <2>2. CASE SubmitAnswer(d, i)
      BY <1>2, <2>2, Zenon DEF SubmitAnswer
    <2>3. CASE AnswerReply(d, i)
      BY <1>2, <2>3, Zenon DEF AnswerReply, StopLoading
    <2>4. CASE UpdateCurrentUsersStreak(d, i)
      BY <2>4, Zenon DEF UpdateCurrentUsersStreak
    <2>5. CASE StreakSaved(d, i)
      BY <2>5, Zenon DEF StreakSaved
    <2>6. CASE SubmitReturns(d, i)
      BY <1>2, <2>6, Zenon DEF SubmitReturns, StopLoading
    <2> QED BY <2>1, <2>2, <2>3, <2>4, <2>5, <2>6 DEF SubmitStep
  <1> QED BY <1>3 DEF TypeOK

\* A submission is graded against the question on screen, which is not of a
\* day to come, and is filed under today.
LEMMA SubmitAnswerFiling ==
  ASSUME TypeOK, Filing, NEW d \in Devices, NEW i \in SubmitSlots,
         SubmitAnswer(d, i)
  PROVE  Filing'
  <1> DEFINE q == game[d].currentQuestion
             answer == Answer(q, game[d].answerText)
             w == [kind |-> "response", name |-> user[d].username,
                   day |-> today[d], answer |-> answer, by |-> i,
                   applied |-> FALSE]
  <1>1. GradedAndFiled'
    BY ResponsesFrame DEF Filing, SubmitAnswer, cloud
  <1>2. WritesGraded'
    <2>1. q # None => HasQuestion(q) /\ q <= today[d]
      BY DEF Filing, QuestionsHeld
    <2>2. q # None => Graded(w.answer) /\ w.answer.date <= w.day
      BY <2>1 DEF Graded, Answer
    <2>3. \/ outbox' = outbox
          \/ /\ q # None
             /\ outbox' = [outbox EXCEPT ![d][authUser[d]] =
                             Append(Queue(d), w)]
      BY Zenon DEF SubmitAnswer, SendResponse, SetData, Queue
    <2> HIDE DEF w, q
    <2> QED BY <2>2, <2>3, WritesFrame, WritesPush DEF Filing
  <1>3. QuestionsHeld'
    BY SubmissionQuestion, QuestionsFrame DEF Filing, SubmitAnswer, SubmitStep
  <1>4. LoadsOfThePast'
    BY LoadsFrame DEF Filing, SubmitAnswer
  <1> QED BY <1>1, <1>2, <1>3, <1>4 DEF Filing

\* The other steps of a submission leave the question alone, and send at most
\* a streak.
LEMMA SubmissionFiling ==
  ASSUME TypeOK, Filing, NEW d \in Devices, NEW i \in SubmitSlots,
         \/ \E a \in Texts : TapSubmit(d, i, a)
         \/ AnswerReply(d, i)
         \/ UpdateCurrentUsersStreak(d, i)
         \/ StreakSaved(d, i)
         \/ SubmitReturns(d, i)
  PROVE  Filing'
  <1> DEFINE t == submit[d][i]
             w == [kind |-> "streak", name |-> user[d].username,
                   streak |-> t.streak, by |-> i, applied |-> FALSE]
  <1>0. /\ UNCHANGED <<today, responses, load>>
        /\ \/ outbox' = outbox
           \/ outbox' = [outbox EXCEPT ![d][authUser[d]] = Append(Queue(d), w)]
    BY DEF TapSubmit, AnswerReply, UpdateCurrentUsersStreak, StreakSaved,
           SubmitReturns, SendStreak, SetData, Queue, cloud
  <1>1. GradedAndFiled'
    BY <1>0, ResponsesFrame DEF Filing
  <1>2. WritesGraded'
    BY <1>0, WritesFrame, WritesPush DEF Filing
  <1>3. QuestionsHeld'
    BY <1>0, SubmissionQuestion, QuestionsFrame DEF Filing, SubmitStep
  <1>4. LoadsOfThePast'
    BY <1>0, LoadsFrame DEF Filing
  <1> QED BY <1>1, <1>2, <1>3, <1>4 DEF Filing

\* Every step keeps Filing.
LEMMA NextFiling == TypeOK /\ Filing /\ [Next]_vars => Filing'
  <1> SUFFICES ASSUME TypeOK, Filing, [Next]_vars PROVE Filing'
    OBVIOUS
  <1>1. CASE UNCHANGED vars
    BY <1>1, FilingFrame DEF vars
  <1>2. CASE Next
    <2>1. PICK d \in Devices :
            \/ Midnight(d) \/ Apply(d) \/ Acknowledge(d) \/ Reject(d)
            \/ Crash(d) \/ Logout(d)
            \/ \E i \in LoginSlots :
                 \/ Appear(d, i)
                 \/ \E p \in Players, button \in Buttons :
                      TapSignIn(d, i, p, button)
                 \/ LoginStep(d, i)
            \/ \E i \in LoadSlots :
                 OpenGame(d, i) \/ Reappear(d, i) \/ LoadStep(d, i)
            \/ \E i \in SubmitSlots :
                 (\E a \in Texts : TapSubmit(d, i, a)) \/ SubmitStep(d, i)
      BY <1>2, Zenon DEF Next
    <2>2. CASE \/ Midnight(d) \/ Apply(d) \/ Acknowledge(d) \/ Reject(d)
               \/ Crash(d) \/ Logout(d)
      BY <2>2, MidnightFiling, ApplyResponseFiling, ApplyStreakFiling,
         LeaveFiling, CrashFiling, LogoutFiling DEF Apply
    <2>3. ASSUME NEW i \in LoginSlots,
                 \/ Appear(d, i)
                 \/ \E p \in Players, button \in Buttons :
                      TapSignIn(d, i, p, button)
                 \/ LoginStep(d, i)
          PROVE  Filing'
      BY <2>3, LoginFiling, StreakReplyFiling DEF LoginStep
    <2>4. ASSUME NEW i \in LoadSlots,
                 OpenGame(d, i) \/ Reappear(d, i) \/ LoadStep(d, i)
          PROVE  Filing'
      BY <2>4, OnAppearFiling, ServeLoadFiling, QuestionReplyFiling,
         FinishedLoadFiling DEF LoadStep
    <2>5. ASSUME NEW i \in SubmitSlots,
                 (\E a \in Texts : TapSubmit(d, i, a)) \/ SubmitStep(d, i)
          PROVE  Filing'
      BY <2>5, SubmitAnswerFiling, SubmissionFiling DEF SubmitStep
    <2> QED BY <2>1, <2>2, <2>3, <2>4, <2>5
  <1> QED BY <1>1, <1>2

\* Filing always holds.
LEMMA FilingAlways == Spec => []Filing
  <1>1. Init => Filing
    <2> SUFFICES ASSUME Init PROVE Filing
      OBVIOUS
    <2>1. GradedAndFiled /\ QuestionsHeld
      BY DEF Init, GradedAndFiled, QuestionsHeld, NewGame
    <2>2. WritesGraded
      BY DEF Init, WritesGraded, QueueGraded
    <2>3. LoadsOfThePast
      BY DEF Init, LoadsOfThePast, NoLoad
    <2> QED BY <2>1, <2>2, <2>3 DEF Filing
  <1>2. TypeOK /\ Filing /\ [Next]_vars => Filing'
    BY NextFiling
  <1> QED BY <1>1, <1>2, TypeCorrect, PTL DEF Spec

\* Every response in Firestore is graded against the question its own date
\* names and filed on that day or later, however many devices, players and
\* tasks there are and whatever interleaving, crash or rejection occurs.
THEOREM FilingCorrect == Spec => []GradedAndFiled
  <1>1. Filing => GradedAndFiled
    BY DEF Filing
  <1> QED BY <1>1, FilingAlways, PTL

-----------------------------------------------------------------------------
(***************************************************************************)
(* Spinners have an owner.  SpinnerOwned is about steps; what it needs of  *)
(* the state is that a queued submission belongs to the view on screen,    *)
(* which holds a question: so only the username can be missing.            *)
(***************************************************************************)

\* A submit task waiting for its first turn is of the view on screen.
QueuedAtQuestion ==
  \A d \in Devices, i \in SubmitSlots :
    submit[d][i].pc = "queued" =>
      /\ submit[d][i].live
      /\ screen[d] = "game"
      /\ game[d].currentQuestion # None

\* Nothing is queued on a device whose main actor is free, or off the game.
LEMMA NothingQueued ==
  ASSUME QueuedAtQuestion, NEW d \in Devices,
         MainActorFree(d) \/ screen[d] # "game"
  PROVE  \A i \in SubmitSlots : submit[d][i].pc # "queued"
  BY DEF QueuedAtQuestion, MainActorFree

\* Steps that queue nothing, on devices that keep view and question if
\* something is queued there.
LEMMA QueuedFrame ==
  ASSUME QueuedAtQuestion,
         \A e \in Devices, k \in SubmitSlots :
           submit'[e][k].pc = "queued" =>
             /\ submit[e][k].pc = "queued"
             /\ submit'[e][k].live = submit[e][k].live
             /\ screen'[e] = screen[e]
             /\ game'[e].currentQuestion = game[e].currentQuestion
  PROVE  QueuedAtQuestion'
  BY DEF QueuedAtQuestion

\* The await of a write that left the queue leaves place and view alone.
LEMMA SettleKeeps ==
  ASSUME TypeOK, NEW d \in Devices, NEW w, NEW io, Settle(d, w, io)
  PROVE  \A e \in Devices, k \in SubmitSlots :
           /\ submit'[e][k].pc = submit[e][k].pc
           /\ submit'[e][k].live = submit[e][k].live
  <1> SUFFICES ASSUME NEW e \in Devices, NEW k \in SubmitSlots
               PROVE  /\ submit'[e][k].pc = submit[e][k].pc
                      /\ submit'[e][k].live = submit[e][k].live
    OBVIOUS
  <1>1. submit[e][k] \in SubmitTask
    BY DEF TypeOK
  <1>2. \/ submit'[e][k] = submit[e][k]
        \/ submit'[e][k] = [submit[e][k] EXCEPT !.io = io]
    BY DEF TypeOK, Settle
  <1> QED BY <1>1, <1>2 DEF SubmitTask

\* What a submission's own steps do to its slot and to the others.
LEMMA OwnSlot ==
  ASSUME TypeOK, NEW d \in Devices, NEW i \in SubmitSlots, NEW v,
         submit' = [submit EXCEPT ![d][i] = v]
  PROVE  /\ submit'[d][i] = v
         /\ \A e \in Devices, k \in SubmitSlots :
              e # d \/ k # i => submit'[e][k] = submit[e][k]
  BY DEF TypeOK

\* Where a submission goes from one step to the next; it stays with its view
\* until it ends, and is at work after its first turn unless it has ended.
LEMMA SubmissionPlace ==
  ASSUME TypeOK, NEW d \in Devices, NEW i \in SubmitSlots, SubmitStep(d, i)
  PROVE  /\ \/ submit'[d][i] = NoSubmit
            \/ /\ submit'[d][i].pc \in {"response", "hop", "streak", "back"}
               /\ submit'[d][i].live = submit[d][i].live
         /\ \A e \in Devices, k \in SubmitSlots :
              e # d \/ k # i => submit'[e][k] = submit[e][k]
  <1> DEFINE t == submit[d][i]
             Placed(v) == \/ v = NoSubmit
                          \/ /\ v.pc \in {"response", "hop", "streak", "back"}
                             /\ v.live = t.live
  <1>1. t \in SubmitTask
    BY DEF TypeOK
  <1>2. /\ \A a, n, k : Placed([t EXCEPT !.pc = "response", !.io = "sent",
                                         !.answer = a, !.name = n,
                                         !.day = k])
        /\ \A n : Placed([t EXCEPT !.pc = "hop", !.io = "none",
                                   !.streak = n])
        /\ Placed([t EXCEPT !.pc = "streak", !.io = "sent"])
        /\ Placed([t EXCEPT !.pc = "back", !.streak = 0])
        /\ Placed([t EXCEPT !.pc = "back", !.io = "none", !.streak = 0])
        /\ Placed(NoSubmit)
    BY <1>1 DEF SubmitTask
  <1>3. PICK v : Placed(v) /\ submit' = [submit EXCEPT ![d][i] = v]
    <2> HIDE DEF Placed
    <2>1. CASE SubmitAnswer(d, i)
      BY <1>2, <2>1, Zenon DEF SubmitAnswer
    <2>2. CASE AnswerReply(d, i)
      BY <1>2, <2>2, Zenon DEF AnswerReply
    <2>3. CASE UpdateCurrentUsersStreak(d, i)
      BY <1>2, <2>3, Zenon DEF UpdateCurrentUsersStreak
    <2>4. CASE StreakSaved(d, i)
      BY <1>2, <2>4, Zenon DEF StreakSaved
    <2>5. CASE SubmitReturns(d, i)
      BY <1>2, <2>5, Zenon DEF SubmitReturns
    <2> QED BY <2>1, <2>2, <2>3, <2>4, <2>5 DEF SubmitStep
  <1>4. /\ submit'[d][i] = v
        /\ \A e \in Devices, k \in SubmitSlots :
             e # d \/ k # i => submit'[e][k] = submit[e][k]
    BY <1>3, OwnSlot
  <1> QED BY <1>3, <1>4

\* A tap queues a task of the view on screen, which shows a question.
LEMMA TapQueued ==
  ASSUME TypeOK, QueuedAtQuestion, NEW d \in Devices, NEW i \in SubmitSlots,
         NEW a \in Texts, TapSubmit(d, i, a)
  PROVE  QueuedAtQuestion'
  <1> DEFINE v == [NoSubmit EXCEPT !.pc = "queued", !.live = TRUE]
  <1>1. v.live
    BY DEF NoSubmit
  <1>2. submit' = [submit EXCEPT ![d][i] = v]
    BY DEF TapSubmit
  <1> HIDE DEF v
  <1>3. submit'[d][i] = v
    BY <1>2 DEF TypeOK
  <1>4. \A e \in Devices, k \in SubmitSlots :
          e # d \/ k # i => submit'[e][k] = submit[e][k]
    BY <1>2 DEF TypeOK
  <1>5. \A e \in Devices :
          game'[e].currentQuestion = game[e].currentQuestion
    BY SubmissionQuestion
  <1>6. /\ screen[d] = "game"
        /\ game[d].currentQuestion # None
        /\ UNCHANGED screen
    BY DEF TapSubmit, QuestionVisible
  <1> QED BY <1>1, <1>3, <1>4, <1>5, <1>6 DEF QueuedAtQuestion

\* Every step keeps QueuedAtQuestion.
LEMMA NextQueued ==
  TypeOK /\ QueuedAtQuestion /\ [Next]_vars => QueuedAtQuestion'
  <1> SUFFICES ASSUME TypeOK, QueuedAtQuestion, [Next]_vars
               PROVE  QueuedAtQuestion'
    OBVIOUS
  <1>1. CASE UNCHANGED vars
    BY <1>1, QueuedFrame DEF vars
  <1>2. CASE Next
    <2>1. PICK d \in Devices :
            \/ Midnight(d) \/ Apply(d) \/ Acknowledge(d) \/ Reject(d)
            \/ Crash(d) \/ Logout(d)
            \/ \E i \in LoginSlots :
                 \/ Appear(d, i)
                 \/ \E p \in Players, button \in Buttons :
                      TapSignIn(d, i, p, button)
                 \/ LoginStep(d, i)
            \/ \E i \in LoadSlots :
                 OpenGame(d, i) \/ Reappear(d, i) \/ LoadStep(d, i)
            \/ \E i \in SubmitSlots :
                 (\E a \in Texts : TapSubmit(d, i, a)) \/ SubmitStep(d, i)
      BY <1>2, Zenon DEF Next
    <2>2. CASE Midnight(d) \/ Apply(d)
      <3>1. UNCHANGED <<screen, game, submit>>
        BY <2>2 DEF Midnight, Apply, ApplyResponse, ApplyStreak, tasks
      <3> QED BY <3>1, QueuedFrame
    <2>3. CASE Acknowledge(d) \/ Reject(d)
      <3>1. PICK result : Leave(d, result)
        BY <2>3 DEF Acknowledge, Reject
      <3>2. UNCHANGED <<screen, game>> /\ Settle(d, Head(Queue(d)), result)
        BY <3>1 DEF Leave
      <3>3. \A e \in Devices, k \in SubmitSlots :
              /\ submit'[e][k].pc = submit[e][k].pc
              /\ submit'[e][k].live = submit[e][k].live
        BY <3>2, SettleKeeps
      <3> QED BY <3>2, <3>3, QueuedFrame
    <2>4. CASE Crash(d)
      <3>1. \A k \in SubmitSlots : submit'[d][k].pc # "queued"
        BY <2>4 DEF TypeOK, Crash, NoSubmit
      <3>2. \A e \in Devices :
              e # d => /\ submit'[e] = submit[e]
                       /\ screen'[e] = screen[e]
                       /\ game'[e] = game[e]
        BY <2>4 DEF TypeOK, Crash
      <3> QED BY <3>1, <3>2, QueuedFrame
    <2>5. CASE Logout(d)
      <3>1. \A k \in SubmitSlots : submit[d][k].pc # "queued"
        BY <2>5, NothingQueued DEF Logout
      <3>2. \A k \in SubmitSlots : submit[d][k] \in SubmitTask
        BY DEF TypeOK
      <3>3. \A k \in SubmitSlots :
              submit'[d][k] = [submit[d][k] EXCEPT !.live = FALSE]
        BY <2>5 DEF TypeOK, Logout
      <3>4. \A k \in SubmitSlots : submit'[d][k].pc # "queued"
        BY <3>1, <3>2, <3>3 DEF SubmitTask
      <3>5. \A e \in Devices :
              e # d => /\ submit'[e] = submit[e]
                       /\ screen'[e] = screen[e]
                       /\ game'[e] = game[e]
        BY <2>5 DEF TypeOK, Logout
      <3> QED BY <3>4, <3>5, QueuedFrame
    <2>6. ASSUME NEW i \in LoginSlots,
                 \/ Appear(d, i)
                 \/ \E p \in Players, button \in Buttons :
                      TapSignIn(d, i, p, button)
                 \/ LoginStep(d, i)
          PROVE  QueuedAtQuestion'
      <3>1. CASE Appear(d, i)
        <4>1. /\ UNCHANGED <<game, submit>>
              /\ screen[d] # "game"
              /\ \A e \in Devices : e # d => screen'[e] = screen[e]
          BY <3>1 DEF TypeOK, Appear
        <4>2. \A k \in SubmitSlots : submit[d][k].pc # "queued"
          BY <4>1, NothingQueued
        <4> QED BY <4>1, <4>2, QueuedFrame
      <3>2. CASE (\E p \in Players, button \in Buttons :
                    TapSignIn(d, i, p, button))
                 \/ LoginStep(d, i)
        <4>1. UNCHANGED <<screen, game, submit>>
          BY <3>2 DEF TapSignIn, LoginStep, ServeSignIn, ServeLogin, GetReply,
                      Enter, NameReply, FetchUserStreak, StreakReply,
                      StreakCreated
        <4> QED BY <4>1, QueuedFrame
      <3> QED BY <2>6, <3>1, <3>2
    <2>7. ASSUME NEW i \in LoadSlots,
                 OpenGame(d, i) \/ Reappear(d, i) \/ LoadStep(d, i)
          PROVE  QueuedAtQuestion'
      <3>1. CASE ServeLoad(d, i)
        BY <3>1, QueuedFrame DEF ServeLoad
      <3>2. CASE Unchecked(d, i) \/ ResponseReply(d, i) \/ ResponseFailed(d, i)
        <4>1. UNCHANGED <<screen, submit>>
          BY <3>2 DEF Unchecked, ResponseReply, ResponseFailed, FinishLoad
        <4> QED BY <3>2, <4>1, FinishedLoadQuestion, QueuedFrame
      <3>3. CASE OpenGame(d, i) \/ Reappear(d, i) \/ QuestionReply(d, i)
        <4>1. MainActorFree(d) \/ screen[d] # "game"
          BY <3>3 DEF OpenGame, Reappear, QuestionReply
        <4>2. \A k \in SubmitSlots : submit[d][k].pc # "queued"
          BY <4>1, NothingQueued
        <4>3. UNCHANGED submit
          BY <3>3 DEF OpenGame, Reappear, QuestionReply
        <4>4. \A e \in Devices :
                e # d => screen'[e] = screen[e] /\ game'[e] = game[e]
          BY <3>3 DEF TypeOK, OpenGame, Reappear, QuestionReply, OnAppear
        <4> QED BY <4>2, <4>3, <4>4, QueuedFrame
      <3> QED BY <2>7, <3>1, <3>2, <3>3 DEF LoadStep
    <2>8. ASSUME NEW i \in SubmitSlots, NEW a \in Texts, TapSubmit(d, i, a)
          PROVE  QueuedAtQuestion'
      BY <2>8, TapQueued
    <2>9. ASSUME NEW i \in SubmitSlots, SubmitStep(d, i)
          PROVE  QueuedAtQuestion'
      <3>1. UNCHANGED screen
        BY <2>9 DEF SubmitStep, SubmitAnswer, AnswerReply,
                    UpdateCurrentUsersStreak, StreakSaved, SubmitReturns
      <3>2. /\ submit'[d][i].pc # "queued"
            /\ \A e \in Devices, k \in SubmitSlots :
                 e # d \/ k # i => submit'[e][k] = submit[e][k]
        BY <2>9, SubmissionPlace DEF NoSubmit
      <3>3. \A e \in Devices :
              game'[e].currentQuestion = game[e].currentQuestion
        BY <2>9, SubmissionQuestion
      <3> QED BY <3>1, <3>2, <3>3, QueuedFrame
    <2> QED BY <2>1, <2>2, <2>3, <2>4, <2>5, <2>6, <2>7, <2>8, <2>9
  <1> QED BY <1>1, <1>2

\* What SpinnerOwned says of one device.
Owned(e) ==
  (/\ Spinning(e)' /\ ~AtWork(e)'
   /\ ~(Spinning(e) /\ ~AtWork(e))) => ~HasName(user[e])

\* A device on which nothing starts to spin and no task stops working.
LEMMA OwnedFrame ==
  ASSUME NEW e \in Devices,
         Spinning(e)' => Spinning(e),
         AtWork(e) => AtWork(e)'
  PROVE  Owned(e)
  BY DEF Owned

\* A device that does not spin, or where a task is at work, is fine.
LEMMA OwnedAfter ==
  ASSUME NEW e \in Devices, ~Spinning(e)' \/ AtWork(e)'
  PROVE  Owned(e)
  BY DEF Owned

\* Work goes on when every task keeps its place.
LEMMA WorkFrame ==
  ASSUME NEW e \in Devices,
         \A k \in LoadSlots : load'[e][k].pc = load[e][k].pc,
         \A k \in SubmitSlots : /\ submit'[e][k].pc = submit[e][k].pc
                                /\ submit'[e][k].live = submit[e][k].live
  PROVE  AtWork(e) => AtWork(e)'
  BY DEF AtWork

\* A device that a step leaves alone.
LEMMA OwnedElsewhere ==
  ASSUME NEW e \in Devices,
         screen'[e] = screen[e] \/ screen'[e] # "game",
         game'[e] = game[e], load'[e] = load[e], submit'[e] = submit[e]
  PROVE  Owned(e)
  <1>1. AtWork(e) => AtWork(e)'
    BY WorkFrame
  <1>2. Spinning(e)' => Spinning(e)
    BY DEF Spinning
  <1> QED BY <1>1, <1>2, OwnedFrame

\* isLoading set in a view is the isLoading it then has.
LEMMA SpinnerField ==
  ASSUME NEW g \in Game, NEW b \in BOOLEAN
  PROVE  /\ [g EXCEPT !.isLoading = b] \in Game
         /\ [g EXCEPT !.isLoading = b].isLoading = b
         /\ \A c \in BOOLEAN :
              [g EXCEPT !.showUsernameEntry = c, !.isLoading = b].isLoading
                = b
  BY DEF Game

\* The end of a load stops the spinner.
LEMMA LoadEndStops ==
  ASSUME TypeOK, NEW d \in Devices, NEW i \in LoadSlots,
         Unchecked(d, i) \/ ResponseReply(d, i) \/ ResponseFailed(d, i)
  PROVE  ~game'[d].isLoading
  <1> DEFINE Still(g) == ~g.isLoading
             c == ~HasName(user[d])
             r == load[d][i].reply
             x == [game[d] EXCEPT !.submittedAnswer = r]
  <1>1. /\ game[d] \in Game
        /\ r \in SubmittedAnswer \cup {None}
    BY DEF TypeOK, LoadTask
  <1>2. x \in Game
    BY <1>1 DEF Game
  <1>3. c \in BOOLEAN /\ FALSE \in BOOLEAN
    BY DEF HasName
  <1> HIDE DEF x, c
  <1>4. /\ Still([game[d] EXCEPT !.isLoading = FALSE])
        /\ Still([game[d] EXCEPT !.showUsernameEntry = c,
                                 !.isLoading = FALSE])
        /\ Still([x EXCEPT !.showUsernameEntry = c, !.isLoading = FALSE])
    BY <1>1, <1>2, <1>3, SpinnerField, Zenon
  <1>5. PICK g : Still(g) /\ game' = [game EXCEPT ![d] = g]
    <2> HIDE DEF Still
    <2> QED BY <1>4, Zenon
            DEF Unchecked, ResponseReply, ResponseFailed, FinishLoad, x, c
  <1> QED BY <1>5 DEF TypeOK

\* A submission is at work for the view on screen.
Working(t) == t.live /\ t.pc \notin {"idle", "queued"}

\* Work goes on when one submission moves, and goes on or was not at work.
LEMMA WorkMoves ==
  ASSUME NEW d \in Devices, NEW i \in SubmitSlots, UNCHANGED load,
         \A e \in Devices, k \in SubmitSlots :
           e # d \/ k # i => submit'[e][k] = submit[e][k],
         Working(submit[d][i]) => Working(submit'[d][i])
  PROVE  AtWork(d) => AtWork(d)'
  BY DEF AtWork, Working

\* The end of a submission stops the spinner of its view, if that is still
\* there, and no other.
LEMMA StopLoadingStops ==
  ASSUME TypeOK, NEW d \in Devices, NEW t \in SubmitTask, StopLoading(d, t)
  PROVE  IF t.live THEN ~game'[d].isLoading
         ELSE game'[d].isLoading = game[d].isLoading
  <1> DEFINE b == IF t.live THEN FALSE ELSE game[d].isLoading
             g == [game[d] EXCEPT !.isLoading = b]
  <1>1. game[d] \in Game
    BY DEF TypeOK
  <1>2. b \in BOOLEAN
    BY <1>1 DEF Game
  <1>3. game' = [game EXCEPT ![d] = g]
    BY Zenon DEF StopLoading
  <1> HIDE DEF b
  <1>4. g.isLoading = b
    BY <1>1, <1>2, SpinnerField, Zenon
  <1> HIDE DEF g
  <1>5. game'[d] = g
    BY <1>3 DEF TypeOK
  <1>6. game'[d].isLoading = b
    BY <1>4, <1>5
  <1> QED BY <1>6, Zenon DEF b

\* A submission that ends: it was not at work for the view, or it stops the
\* view's spinner.
LEMMA EndOwned ==
  ASSUME TypeOK, NEW d \in Devices, NEW i \in SubmitSlots, SubmitStep(d, i),
         StopLoading(d, submit[d][i]), UNCHANGED <<screen, load>>
  PROVE  Owned(d)
  <1> DEFINE t == submit[d][i]
  <1>1. t \in SubmitTask
    BY DEF TypeOK
  <1>2. CASE t.live
    <2>1. ~game'[d].isLoading
      BY <1>1, <1>2, StopLoadingStops
    <2> QED BY <2>1, OwnedAfter DEF Spinning
  <1>3. CASE ~t.live
    <2>1. game'[d].isLoading = game[d].isLoading
      BY <1>1, <1>3, StopLoadingStops
    <2>2. AtWork(d) => AtWork(d)'
      BY <1>3, SubmissionPlace, WorkMoves DEF Working
    <2> QED BY <2>1, <2>2, OwnedFrame DEF Spinning
  <1> QED BY <1>2, <1>3

\* A submission that goes on, or was not at work, and starts no spinner.
LEMMA GoesOnOwned ==
  ASSUME TypeOK, NEW d \in Devices, NEW i \in SubmitSlots, SubmitStep(d, i),
         UNCHANGED <<screen, load>>,
         game'[d].isLoading = game[d].isLoading,
         submit'[d][i].pc = "idle" => submit[d][i].pc = "queued"
  PROVE  Owned(d)
  <1>1. Working(submit[d][i]) => Working(submit'[d][i])
    BY SubmissionPlace DEF Working, NoSubmit
  <1>2. AtWork(d) => AtWork(d)'
    BY <1>1, SubmissionPlace, WorkMoves
  <1> QED BY <1>2, OwnedFrame DEF Spinning

\* The first turn of a submission starts the spinner, and goes to work unless
\* there is no username: the question is there.
LEMMA SubmitAnswerOwned ==
  ASSUME TypeOK, QueuedAtQuestion, NEW d \in Devices, NEW i \in SubmitSlots,
         SubmitAnswer(d, i)
  PROVE  Owned(d)
  <1> DEFINE t == submit[d][i]
             warn == /\ game[d].answerText \in BlankTexts
                     /\ ~game[d].warnedAboutEmptyAnswer
             send == ~warn /\ HasName(user[d])
             sent == [t EXCEPT !.pc = "response", !.io = "sent",
                               !.answer = Answer(game[d].currentQuestion,
                                                 game[d].answerText),
                               !.name = user[d].username, !.day = today[d]]
             warned == [game[d] EXCEPT !.warnedAboutEmptyAnswer = TRUE]
  <1>1. t \in SubmitTask /\ game[d] \in Game
    BY DEF TypeOK
  <1>2. t.live /\ game[d].currentQuestion # None /\ t.pc = "queued"
    BY DEF QueuedAtQuestion, SubmitAnswer
  <1>3. UNCHANGED <<screen, load>> /\ SubmitStep(d, i)
    BY DEF SubmitAnswer, SubmitStep
  <1>4. CASE send
    <2>1. submit' = [submit EXCEPT ![d][i] = sent]
      BY <1>2, <1>4, Zenon DEF SubmitAnswer
    <2>2. sent.pc = "response" /\ sent.live = t.live
      BY <1>1 DEF SubmitTask
    <2> HIDE DEF sent
    <2>3. submit'[d][i] = sent
      BY <2>1 DEF TypeOK
    <2>4. AtWork(d)'
      BY <1>2, <2>2, <2>3 DEF AtWork
    <2> QED BY <2>4, OwnedAfter
  <1>5. CASE warn
    <2>1. game' = [game EXCEPT ![d] = warned]
      BY <1>5, Zenon DEF SubmitAnswer
    <2>2. warned.isLoading = game[d].isLoading
      BY <1>1 DEF Game
    <2> HIDE DEF warned
    <2>3. game'[d].isLoading = game[d].isLoading
      BY <2>1, <2>2 DEF TypeOK
    <2> QED BY <1>2, <1>3, <2>3, GoesOnOwned
  <1>6. CASE ~HasName(user[d])
    BY <1>6 DEF Owned
  <1> QED BY <1>4, <1>5, <1>6

\* The later steps of a submission.
LEMMA SubmissionOwned ==
  ASSUME TypeOK, QueuedAtQuestion, NEW d \in Devices, NEW i \in SubmitSlots,
         SubmitStep(d, i)
  PROVE  Owned(d)
  <1> DEFINE t == submit[d][i]
             shown == [game[d] EXCEPT !.submittedAnswer =
                                        IF t.live THEN t.answer ELSE @]
             hop == [t EXCEPT !.pc = "hop", !.io = "none",
                              !.streak = NewStreak(user[d],
                                                   t.answer.answerOutcome)]
  <1>1. t \in SubmitTask /\ game[d] \in Game
    BY DEF TypeOK
  <1>2. CASE SubmitAnswer(d, i)
    BY <1>2, SubmitAnswerOwned
  <1>3. CASE AnswerReply(d, i)
    <2>1. UNCHANGED <<screen, load>>
      BY <1>3 DEF AnswerReply
    <2>2. \/ /\ game' = [game EXCEPT ![d] = shown]
             /\ submit' = [submit EXCEPT ![d][i] = hop]
          \/ StopLoading(d, t)
      BY <1>3, Zenon DEF AnswerReply
    <2>3. shown.isLoading = game[d].isLoading /\ hop.pc = "hop"
      BY <1>1 DEF Game, SubmitTask
    <2> HIDE DEF shown, hop
    <2>4. CASE /\ game' = [game EXCEPT ![d] = shown]
               /\ submit' = [submit EXCEPT ![d][i] = hop]
      <3>1. game'[d] = shown /\ submit'[d][i] = hop
        BY <2>4 DEF TypeOK
      <3> QED BY <2>1, <2>3, <3>1, GoesOnOwned
    <2>5. CASE StopLoading(d, t)
      BY <2>1, <2>5, EndOwned
    <2> QED BY <2>2, <2>4, <2>5
  <1>4. CASE UpdateCurrentUsersStreak(d, i) \/ StreakSaved(d, i)
    <2>1. UNCHANGED <<screen, game, load>>
      BY <1>4 DEF UpdateCurrentUsersStreak, StreakSaved
    <2>2. \E v : /\ v.pc # "idle"
                 /\ submit' = [submit EXCEPT ![d][i] = v]
      <3>1. /\ [t EXCEPT !.pc = "streak", !.io = "sent"].pc # "idle"
            /\ [t EXCEPT !.pc = "back", !.streak = 0].pc # "idle"
            /\ [t EXCEPT !.pc = "back", !.io = "none",
                         !.streak = 0].pc # "idle"
        BY <1>1 DEF SubmitTask
      <3> QED BY <1>4, <3>1, Zenon DEF UpdateCurrentUsersStreak, StreakSaved
    <2>3. submit'[d][i].pc # "idle"
      BY <2>2 DEF TypeOK
    <2> QED BY <2>1, <2>3, GoesOnOwned
  <1>5. CASE SubmitReturns(d, i)
    BY <1>5, EndOwned DEF SubmitReturns
  <1> QED BY <1>2, <1>3, <1>4, <1>5 DEF SubmitStep

\* A load that appears or goes on is at work; one that ends stops the spinner.
LEMMA LoadOwned ==
  ASSUME TypeOK, NEW d \in Devices, NEW i \in LoadSlots,
         OpenGame(d, i) \/ Reappear(d, i) \/ LoadStep(d, i)
  PROVE  Owned(d)
  <1>1. CASE OpenGame(d, i) \/ Reappear(d, i) \/ QuestionReply(d, i)
    <2>1. PICK v : v.pc # "idle" /\ load' = [load EXCEPT ![d][i] = v]
      <3>1. /\ [NoLoad EXCEPT !.pc = "question", !.io = "sent",
                              !.day = today[d]].pc # "idle"
            /\ [NoLoad EXCEPT !.pc = "unchecked"].pc # "idle"
            /\ [NoLoad EXCEPT !.pc = "response", !.io = "sent",
                              !.day = today[d],
                              !.player = user[d].username].pc # "idle"
        BY DEF NoLoad
      <3> QED BY <1>1, <3>1, Zenon
              DEF OpenGame, Reappear, OnAppear, QuestionReply
    <2>2. load'[d][i].pc # "idle"
      BY <2>1 DEF TypeOK
    <2>3. AtWork(d)'
      BY <2>2 DEF AtWork
    <2> QED BY <2>3, OwnedAfter
  <1>2. CASE ServeLoad(d, i)
    <2> DEFINE t == load[d][i]
               Same(v) == v.pc = t.pc
    <2>1. t \in LoadTask
      BY DEF TypeOK
    <2>2. /\ Same([t EXCEPT !.io = "done"])
          /\ Same([t EXCEPT !.io = "failed"])
          /\ \A r : Same([t EXCEPT !.io = "done", !.reply = r])
      BY <2>1 DEF LoadTask
    <2>3. PICK v : Same(v) /\ load' = [load EXCEPT ![d][i] = v]
      <3> HIDE DEF Same
      <3> QED BY <1>2, <2>2, Zenon DEF ServeLoad
    <2>4. \A k \in LoadSlots : load'[d][k].pc = load[d][k].pc
      BY <2>3 DEF TypeOK
    <2>5. UNCHANGED <<screen, game, submit>>
      BY <1>2 DEF ServeLoad
    <2>6. AtWork(d) => AtWork(d)'
      BY <2>4, <2>5, WorkFrame
    <2> QED BY <2>5, <2>6, OwnedFrame DEF Spinning
  <1>3. CASE Unchecked(d, i) \/ ResponseReply(d, i) \/ ResponseFailed(d, i)
    <2>1. ~game'[d].isLoading
      BY <1>3, LoadEndStops
    <2> QED BY <2>1, OwnedAfter DEF Spinning
  <1> QED BY <1>1, <1>2, <1>3 DEF LoadStep

\* A tap only queues.
LEMMA TapOwned ==
  ASSUME TypeOK, NEW d \in Devices, NEW i \in SubmitSlots, NEW a \in Texts,
         TapSubmit(d, i, a)
  PROVE  Owned(d)
  <1> DEFINE g == [game[d] EXCEPT !.answerText = a]
             v == [NoSubmit EXCEPT !.pc = "queued", !.live = TRUE]
  <1>1. game[d] \in Game
    BY DEF TypeOK
  <1>2. g.isLoading = game[d].isLoading
    BY <1>1 DEF Game
  <1>3. /\ game' = [game EXCEPT ![d] = g]
        /\ submit' = [submit EXCEPT ![d][i] = v]
        /\ UNCHANGED <<screen, load>>
        /\ submit[d][i].pc = "idle"
    BY DEF TapSubmit
  <1> HIDE DEF g, v
  <1>4. game'[d].isLoading = game[d].isLoading
    BY <1>2, <1>3 DEF TypeOK
  <1>5. \A e \in Devices, k \in SubmitSlots :
          e # d \/ k # i => submit'[e][k] = submit[e][k]
    BY <1>3 DEF TypeOK
  <1>6. AtWork(d) => AtWork(d)'
    BY <1>3, <1>5, WorkMoves DEF Working
  <1> QED BY <1>3, <1>4, <1>6, OwnedFrame DEF Spinning

\* A step on one device leaves the spinners of the others alone.
LEMMA OthersOwned ==
  ASSUME TypeOK, NEW d \in Devices, NEW e \in Devices, e # d,
         \/ Crash(d) \/ Logout(d)
         \/ \E i \in LoadSlots :
              OpenGame(d, i) \/ Reappear(d, i) \/ LoadStep(d, i)
         \/ \E i \in SubmitSlots :
              (\E a \in Texts : TapSubmit(d, i, a)) \/ SubmitStep(d, i)
  PROVE  Owned(e)
  <1>1. screen'[e] = screen[e]
    BY DEF TypeOK, Crash, Logout, OpenGame, Reappear, LoadStep, ServeLoad,
           QuestionReply, Unchecked, ResponseReply, ResponseFailed,
           FinishLoad, TapSubmit, SubmitStep, SubmitAnswer, AnswerReply,
           UpdateCurrentUsersStreak, StreakSaved, SubmitReturns
  <1>2. game'[e] = game[e]
    <2>1. CASE Crash(d) \/ Logout(d)
      BY <2>1 DEF TypeOK, Crash, Logout
    <2>2. CASE \E i \in LoadSlots :
                 OpenGame(d, i) \/ Reappear(d, i) \/ LoadStep(d, i)
      BY <2>2 DEF TypeOK, OpenGame, Reappear, OnAppear, LoadStep, ServeLoad,
                  QuestionReply, Unchecked, ResponseReply, ResponseFailed,
                  FinishLoad
    <2>3. CASE \E i \in SubmitSlots :
                 (\E a \in Texts : TapSubmit(d, i, a)) \/ SubmitStep(d, i)
      BY <2>3 DEF TypeOK, TapSubmit, SubmitStep, SubmitAnswer, AnswerReply,
                  StopLoading, UpdateCurrentUsersStreak, StreakSaved,
                  SubmitReturns
    <2> QED BY <2>1, <2>2, <2>3
  <1>3. load'[e] = load[e]
    BY DEF TypeOK, Crash, Logout, OpenGame, Reappear, OnAppear, LoadStep,
           ServeLoad, QuestionReply, Unchecked, ResponseReply,
           ResponseFailed, FinishLoad, TapSubmit, SubmitStep, SubmitAnswer,
           AnswerReply, UpdateCurrentUsersStreak, StreakSaved, SubmitReturns
  <1>4. submit'[e] = submit[e]
    BY DEF TypeOK, Crash, Logout, OpenGame, Reappear, LoadStep, ServeLoad,
           QuestionReply, Unchecked, ResponseReply, ResponseFailed,
           FinishLoad, TapSubmit, SubmitStep, SubmitAnswer, AnswerReply,
           UpdateCurrentUsersStreak, StreakSaved, SubmitReturns
  <1> QED BY <1>1, <1>2, <1>3, <1>4, OwnedElsewhere

\* Every step is as SpinnerOwned says, on every device.
LEMMA NextOwned ==
  ASSUME TypeOK, QueuedAtQuestion, [Next]_vars, NEW e \in Devices
  PROVE  Owned(e)
  <1>1. CASE UNCHANGED vars
    BY <1>1, OwnedElsewhere DEF vars
  <1>2. CASE Next
    <2>1. PICK d \in Devices :
            \/ Midnight(d) \/ Apply(d) \/ Acknowledge(d) \/ Reject(d)
            \/ Crash(d) \/ Logout(d)
            \/ \E i \in LoginSlots :
                 \/ Appear(d, i)
                 \/ \E p \in Players, button \in Buttons :
                      TapSignIn(d, i, p, button)
                 \/ LoginStep(d, i)
            \/ \E i \in LoadSlots :
                 OpenGame(d, i) \/ Reappear(d, i) \/ LoadStep(d, i)
            \/ \E i \in SubmitSlots :
                 (\E a \in Texts : TapSubmit(d, i, a)) \/ SubmitStep(d, i)
      BY <1>2, Zenon DEF Next
    <2>2. CASE Midnight(d) \/ Apply(d)
      <3>1. UNCHANGED <<screen, game, load, submit>>
        BY <2>2 DEF Midnight, Apply, ApplyResponse, ApplyStreak, tasks
      <3> QED BY <3>1, OwnedElsewhere
    <2>3. CASE Acknowledge(d) \/ Reject(d)
      <3>1. PICK result : Leave(d, result)
        BY <2>3 DEF Acknowledge, Reject
      <3>2. /\ UNCHANGED <<screen, game, load>>
            /\ Settle(d, Head(Queue(d)), result)
        BY <3>1 DEF Leave
      <3>3. \A k \in SubmitSlots :
              /\ submit'[e][k].pc = submit[e][k].pc
              /\ submit'[e][k].live = submit[e][k].live
        BY <3>2, SettleKeeps
      <3>4. AtWork(e) => AtWork(e)'
        BY <3>2, <3>3, WorkFrame
      <3> QED BY <3>2, <3>4, OwnedFrame DEF Spinning
    <2>4. ASSUME NEW i \in LoginSlots,
                 \/ Appear(d, i)
                 \/ \E p \in Players, button \in Buttons :
                      TapSignIn(d, i, p, button)
                 \/ LoginStep(d, i)
          PROVE  Owned(e)
      <3>1. UNCHANGED <<game, load, submit>>
        BY <2>4 DEF Appear, TapSignIn, LoginStep, ServeSignIn, ServeLogin,
                    GetReply, Enter, NameReply, FetchUserStreak, StreakReply,
                    StreakCreated
      <3>2. screen'[e] = screen[e] \/ screen'[e] # "game"
        BY <2>4 DEF TypeOK, Appear, TapSignIn, LoginStep, ServeSignIn,
                    ServeLogin, GetReply, Enter, NameReply, FetchUserStreak,
                    StreakReply, StreakCreated
      <3> QED BY <3>1, <3>2, OwnedElsewhere
    <2>5. CASE e = d /\ (Crash(d) \/ Logout(d))
      <3>1. screen'[e] # "game"
        BY <2>5 DEF TypeOK, Crash, Logout
      <3> QED BY <3>1, OwnedAfter DEF Spinning
    <2>6. ASSUME e = d, NEW i \in LoadSlots,
                 OpenGame(d, i) \/ Reappear(d, i) \/ LoadStep(d, i)
          PROVE  Owned(e)
      BY <2>6, LoadOwned
    <2>7. ASSUME e = d, NEW i \in SubmitSlots, NEW a \in Texts,
                 TapSubmit(d, i, a)
          PROVE  Owned(e)
      BY <2>7, TapOwned
    <2>8. ASSUME e = d, NEW i \in SubmitSlots, SubmitStep(d, i)
          PROVE  Owned(e)
      BY <2>8, SubmissionOwned
    <2>9. CASE e # d
      BY <2>1, <2>2, <2>3, <2>4, <2>9, OthersOwned
    <2> QED BY <2>1, <2>2, <2>3, <2>4, <2>5, <2>6, <2>7, <2>8, <2>9
  <1> QED BY <1>1, <1>2

\* A spinner that no task will stop comes about only when Submit meets a
\* currentUser without a name, on every phone, whatever loads, submissions,
\* refusals, sign-ins and crashes overlap.
THEOREM SpinnersAreOwned == Spec => SpinnerOwned
  <1>1. Init => QueuedAtQuestion
    BY DEF Init, QueuedAtQuestion, NoSubmit
  <1>2. TypeOK /\ QueuedAtQuestion /\ [Next]_vars => QueuedAtQuestion'
    BY NextQueued
  <1>3. TypeOK /\ QueuedAtQuestion /\ [Next]_vars =>
          [\A d \in Devices :
             (/\ Spinning(d)' /\ ~AtWork(d)'
              /\ ~(Spinning(d) /\ ~AtWork(d))) => ~HasName(user[d])]_vars
    BY NextOwned DEF Owned
  <1> QED BY <1>1, <1>2, <1>3, TypeCorrect, PTL DEF Spec, SpinnerOwned
=============================================================================
