------------------------------ MODULE GamePlay ------------------------------
(***************************************************************************)
(* Players who already have a username signing in, by email or Google,     *)
(* loading the day's question, answering it and having their streak kept,  *)
(* on devices that share one Firestore: TriviaGameView, GameService and    *)
(* the session and streak operations of AuthService.                       *)
(*                                                                         *)
(* Every Swift Task is a record in a slot of its device.  A step of a task *)
(* is the code between two awaits; the network (external) serves a read at *)
(* some moment of its own, and the continuation runs later still.  Tasks   *)
(* survive the view that started them.                                     *)
(*                                                                         *)
(* Writes go through the Firestore SDK, which keeps a persistent queue for *)
(* every Firebase user of the phone, serves only that of the one signed    *)
(* in, and may send a write again: module WriteQueue, which the SDK is     *)
(* shown to implement in module WritePipeline.                             *)
(*                                                                         *)
(* Continuations on the main actor wait for the submit tasks already       *)
(* queued there (MainActorFree).  AuthService's plain async functions run  *)
(* on the shared executor and do not, so they interleave with statements   *)
(* of the main actor too.                                                  *)
(***************************************************************************)
EXTENDS Trivia, Sequences

CONSTANTS
  Devices,      \* phones
  Players,      \* usernames; player p's users document says username = p
  LoginSlots,   \* sign-in tasks a device can have in flight
  LoadSlots,    \* onAppear tasks a device can have in flight
  SubmitSlots,  \* submit tasks a device can have in flight
  Buttons,      \* bound: the sign-in buttons that are used
  MaxSignIns,   \* bound: taps on them in a behaviour
  MaxOpens,     \* bound: appearances of a game view in a behaviour
  MaxTaps,      \* bound: taps on "Submit Answer" in a behaviour
  MayCrash,     \* bound: whether processes are killed at all
  MaxOutbox     \* bound: writes a device has waiting for the network

ASSUME SlotsAssumption ==
  /\ LoginSlots \cap SubmitSlots = {}
  /\ None \notin LoginSlots \cup SubmitSlots \cup LoadSlots
  /\ Buttons \subseteq {"signIn", "google"}
  /\ MaxSignIns \in Nat
  /\ MaxOpens \in Nat
  /\ MaxTaps \in Nat
  /\ MayCrash \in BOOLEAN
  /\ MaxOutbox \in Nat

ASSUME NoneAssumption ==
  None \notin Players /\ None \notin Nat /\ None \notin SubmittedAnswer

VARIABLES
  today,      \* device -> its calendar day
  responses,  \* responses/<username>/responses/<day>, or None
  streaks,    \* streaks/<username>.streak, or None
  stored,     \* history: correct answers that reached responses so far
  outbox,     \* device, Firebase user -> the SDK's persistent queue of writes
  authUser,   \* device -> Auth.auth().currentUser (kept in the keychain)
  google,     \* device -> the account GIDSignIn remembers (there too)
  lastSeen,   \* device -> @AppStorage("lastSeenDate"), None for ""
  user,       \* device -> AuthService.currentUser
  screen,     \* device -> "game" iff AuthService.isUserLoggedIn, else
              \* LoginView, "appearing" or there
  game,       \* device -> @State of TriviaGameView and its GameService
  login,      \* device, slot -> sign-in task
  load,       \* device, slot -> TriviaGameView.onAppear task
  submit,     \* device, slot -> TriviaGameView.submitAnswer task
  signIns,    \* history: taps on a sign-in button so far
  opens,      \* history: times a game view appeared so far
  taps        \* history: taps on "Submit Answer" so far

cloud == <<responses, streaks, stored>>
keychain == <<authUser, google>>
tasks == <<login, load, submit>>
history == <<signIns, opens, taps>>
vars == <<today, responses, streaks, stored, outbox, authUser, google,
          lastSeen, user, screen, game, login, load, submit, signIns, opens,
          taps>>

-----------------------------------------------------------------------------
(* Types.  io is the state of the call a task awaits. *)

IO == {"none", "sent", "done", "failed"}

User == [account : Players \cup {None}, username : Players \cup {None},
         streak : Nat \cup {None}]
Game == [isLoading : BOOLEAN, showUsernameEntry : BOOLEAN,
         currentQuestion : Days \cup {None},
         submittedAnswer : SubmittedAnswer \cup {None},
         answerText : Texts, warnedAboutEmptyAnswer : BOOLEAN]

\* Firebase users of a phone, None for nobody signed in.
Accounts == Players \cup {None}

\* A read names the player whose document it asks for.
LoginPc == {"idle", "signIn", "google", "enter", "get", "rename", "replace",
            "name", "named", "getStreak", "putStreak"}
LoginTask ==
  {t \in [pc : LoginPc, io : IO, player : Players \cup {None},
          reply : Nat \cup {None}] :
     t.pc \notin {"idle", "named", "putStreak"} => t.player # None}
LoadTask ==
  {t \in [pc : {"idle", "question", "response", "unchecked"}, io : IO,
          day : Days, player : Players \cup {None},
          reply : SubmittedAnswer \cup {None}] :
     t.pc = "response" => t.player # None}
\* A submission knows under which name and day it files its answer.
SubmitTask ==
  {t \in [pc : {"idle", "queued", "response", "hop", "streak", "back"},
          io : IO, answer : SubmittedAnswer \cup {None},
          name : Players \cup {None}, day : Days, streak : Nat,
          live : BOOLEAN] :
     t.pc \in {"response", "hop", "streak", "back"} => t.name # None}

\* applied: the backend has it, though the phone may not know yet.
ResponseWrite == [kind : {"response"}, name : Players, day : Days,
                  answer : SubmittedAnswer, by : SubmitSlots \cup {None},
                  applied : BOOLEAN]
StreakWrite == [kind : {"streak"}, name : Players, streak : Nat,
                by : LoginSlots \cup SubmitSlots \cup {None},
                applied : BOOLEAN]
Write == ResponseWrite \cup StreakWrite

NoUser == [account |-> None, username |-> None, streak |-> None]
NewGame == [isLoading |-> TRUE, showUsernameEntry |-> FALSE,
            currentQuestion |-> None, submittedAnswer |-> None,
            answerText |-> Empty, warnedAboutEmptyAnswer |-> FALSE]
NoLogin == [pc |-> "idle", io |-> "none", player |-> None, reply |-> None]
NoLoad == [pc |-> "idle", io |-> "none", day |-> 1, player |-> None,
           reply |-> None]
NoSubmit == [pc |-> "idle", io |-> "none", answer |-> None, name |-> None,
             day |-> 1, streak |-> 0, live |-> FALSE]

Init ==
  /\ today = [d \in Devices |-> 1]
  /\ responses = [p \in Players |-> [k \in Days |-> None]]
  /\ streaks = [p \in Players |-> None]
  /\ stored = 0
  /\ outbox = [d \in Devices |-> [u \in Accounts |-> <<>>]]
  /\ authUser = [d \in Devices |-> None]
  /\ google = [d \in Devices |-> None]
  /\ lastSeen = [d \in Devices |-> None]
  /\ user = [d \in Devices |-> NoUser]
  /\ screen = [d \in Devices |-> "appearing"]
  /\ game = [d \in Devices |-> NewGame]
  /\ login = [d \in Devices |-> [i \in LoginSlots |-> NoLogin]]
  /\ load = [d \in Devices |-> [i \in LoadSlots |-> NoLoad]]
  /\ submit = [d \in Devices |-> [i \in SubmitSlots |-> NoSubmit]]
  /\ signIns = 0
  /\ opens = 0
  /\ taps = 0

-----------------------------------------------------------------------------
(* Calls on Firestore and the main actor. *)

Arrived(io) == io \in {"done", "failed"}

\* Mutant: try? swallows the error of the awaited call.
SucceededOrSwallowed(io) == Arrived(io)

\* `try await` goes on to the next statement.
Succeeded(io) == io = "done"

\* An onAppear task holds the main actor of d between two statements.
MainActorBusy(d) == \E i \in LoadSlots : load[d][i].pc = "unchecked"

\* A continuation gets its turn on the main actor of d: nobody holds it, and
\* no submit task waits for its first turn.
MainActorFree(d) ==
  ~MainActorBusy(d) /\ \A i \in SubmitSlots : submit[d][i].pc # "queued"

\* Mutant: the guard is forgotten.
HasNameUnguarded(u) == TRUE

\* guard let username = currentUser?.username
HasName(u) == u.username # None

\* self.currentUser?.username = name: nothing happens without a user.
SetUsername(u, name) ==
  IF u.account = None THEN u ELSE [u EXCEPT !.username = name]

\* self.currentUser?.streak = n
SetStreak(u, n) ==
  IF u.account = None THEN u ELSE [u EXCEPT !.streak = n]

\* The queue that setData appends to, that reads overlay and that is served:
\* the one of the Firebase user signed in now.
Queue(d) == outbox[d][authUser[d]]

\* DocumentReference.setData, awaited by task w.by.
SetData(d, w) ==
  /\ Len(Queue(d)) < MaxOutbox
  /\ outbox' = [outbox EXCEPT ![d][authUser[d]] = Append(@, w)]

\* setData on streaks/<name>.
SendStreak(d, name, n, by) ==
  SetData(d, [kind |-> "streak", name |-> name, streak |-> n, by |-> by,
              applied |-> FALSE])

\* Mutant: the document is dated by its key instead of by its question.
SendResponseDatedByKey(d, name, day, answer, by) ==
  SetData(d, [kind |-> "response", name |-> name, day |-> day,
              answer |-> [answer EXCEPT !.date = day], by |-> by,
              applied |-> FALSE])

\* setData on responses/<name>/responses/<day>.
SendResponse(d, name, day, answer, by) ==
  SetData(d, [kind |-> "response", name |-> name, day |-> day,
              answer |-> answer, by |-> by, applied |-> FALSE])

\* The task that awaits write w, if it still exists, gets the result.
Settle(d, w, result) ==
  /\ submit' = IF w.by \in SubmitSlots
               THEN [submit EXCEPT ![d][w.by].io = result] ELSE submit
  /\ login' = IF w.by \in LoginSlots
              THEN [login EXCEPT ![d][w.by].io = result] ELSE login

\* Positions of the writes to streaks/<name> in a queue of the SDK.
WritesStreak(q, name) ==
  {j \in 1..Len(q) : q[j].kind = "streak" /\ q[j].name = name}

\* Positions of the writes to responses/<name>/responses/<day>.
WritesResponse(q, name, day) ==
  {j \in 1..Len(q) : q[j].kind = "response" /\ q[j].name = name
                       /\ q[j].day = day}

\* The youngest of the writes at positions S, if any.
Youngest(S) == {j \in S : \A k \in S : k <= j}

\* What a read of streaks/<name> returns on d: the SDK overlays the
\* pending writes of the user signed in on the document of the backend.
StreakSeen(d, name) ==
  LET pending == Youngest(WritesStreak(Queue(d), name))
  IN IF pending = {} THEN {streaks[name]}
     ELSE {Queue(d)[j].streak : j \in pending}

\* The same for responses/<name>/responses/<day>.
ResponseSeen(d, name, day) ==
  LET pending == Youngest(WritesResponse(Queue(d), name, day))
  IN IF pending = {} THEN {responses[name][day]}
     ELSE {Queue(d)[j].answer : j \in pending}

-----------------------------------------------------------------------------
(* External: the calendar, the Firestore backend and process death. *)

\* Midnight on device d; time zones put two devices at most a day apart.
Midnight(d) ==
  /\ today[d] < MaxDay
  /\ \A e \in Devices : today[d] <= today[e]
  /\ today' = [today EXCEPT ![d] = @ + 1]
  /\ UNCHANGED <<cloud, outbox, keychain, lastSeen, user, screen, game, tasks,
                 history>>

\* The backend gets the j-th write of the queue, perhaps not for the first
\* time, and never before the ones ahead of it.
Delivered(d, j) ==
  /\ j \in 1..Len(Queue(d))
  /\ \A k \in 1..(j - 1) : Queue(d)[k].applied
  /\ outbox' = [outbox EXCEPT ![d][authUser[d]][j].applied = TRUE]

ApplyResponse(d, j) ==
  /\ Delivered(d, j)
  /\ LET w == Queue(d)[j] IN
       /\ w.kind = "response"
       /\ responses' = [responses EXCEPT ![w.name][w.day] = w.answer]
       /\ stored' = IF w.answer.answerOutcome /\ ~w.applied
                    THEN stored + 1 ELSE stored
  /\ UNCHANGED <<today, streaks, keychain, lastSeen, user, screen, game, tasks,
                 history>>

ApplyStreak(d, j) ==
  /\ Delivered(d, j)
  /\ LET w == Queue(d)[j] IN
       /\ w.kind = "streak"
       /\ streaks' = [streaks EXCEPT ![w.name] = w.streak]
  /\ UNCHANGED <<today, responses, stored, keychain, lastSeen, user, screen,
                 game, tasks, history>>

\* The oldest write leaves the queue, and the await of it gets the result.
Leave(d, result) ==
  /\ Queue(d) # <<>>
  /\ Settle(d, Head(Queue(d)), result)
  /\ outbox' = [outbox EXCEPT ![d][authUser[d]] = Tail(@)]
  /\ UNCHANGED <<today, cloud, keychain, lastSeen, user, screen, game, load,
                 history>>

\* Mutant: the write is taken for done once it has been sent.
AcknowledgeUnapplied(d) == Leave(d, "done")

\* The phone learns that the backend has the oldest write.
Acknowledge(d) ==
  /\ Queue(d) # <<>>
  /\ Head(Queue(d)).applied
  /\ Leave(d, "done")

\* The backend refuses the oldest write, perhaps one that it had and that was
\* sent again; the await throws.
Reject(d) == Leave(d, "failed")

\* A getDocument of a sign-in task is answered, or throws.
ServeLogin(d, i) ==
  /\ login[d][i].io = "sent"
  /\ \/ /\ login[d][i].pc \in {"get", "rename", "name"}
        /\ login' = [login EXCEPT ![d][i].io = "done"]
     \/ /\ login[d][i].pc = "getStreak"
        /\ \E v \in StreakSeen(d, login[d][i].player) :
             login' = [login EXCEPT ![d][i] =
               [@ EXCEPT !.io = "done", !.reply = v]]
     \/ /\ login[d][i].pc \in {"get", "rename", "name", "getStreak"}
        /\ login' = [login EXCEPT ![d][i].io = "failed"]
  /\ UNCHANGED <<today, cloud, outbox, keychain, lastSeen, user, screen, game,
                 load, submit, history>>

\* A getDocument of an onAppear task is answered, or throws.
ServeLoad(d, i) ==
  /\ load[d][i].io = "sent"
  /\ \/ /\ load[d][i].pc = "question"
        /\ load' = [load EXCEPT ![d][i].io = "done"]
     \/ /\ load[d][i].pc = "response"
        /\ \E r \in ResponseSeen(d, load[d][i].player, load[d][i].day) :
             load' = [load EXCEPT ![d][i] =
               [@ EXCEPT !.io = "done", !.reply = r]]
     \/ load' = [load EXCEPT ![d][i].io = "failed"]
  /\ UNCHANGED <<today, cloud, outbox, keychain, lastSeen, user, screen, game,
                 login, submit, history>>

\* The writes of a queue without the tasks that awaited them.
Orphaned(q) == [j \in 1..Len(q) |-> [q[j] EXCEPT !.by = None]]

\* The process is killed.  The SDK's queues, the signed-in Firebase user and
\* AppStorage are on disk; everything else is gone.
Crash(d) ==
  /\ MayCrash
  /\ user' = [user EXCEPT ![d] = NoUser]
  /\ screen' = [screen EXCEPT ![d] = "appearing"]
  /\ game' = [game EXCEPT ![d] = NewGame]
  /\ login' = [login EXCEPT ![d] = [i \in LoginSlots |-> NoLogin]]
  /\ load' = [load EXCEPT ![d] = [i \in LoadSlots |-> NoLoad]]
  /\ submit' = [submit EXCEPT ![d] = [i \in SubmitSlots |-> NoSubmit]]
  /\ outbox' = [outbox EXCEPT ![d] =
       [u \in Accounts |-> Orphaned(outbox[d][u])]]
  /\ UNCHANGED <<today, cloud, keychain, lastSeen, history>>

-----------------------------------------------------------------------------
(* Signing in.  A sign-in task sets currentUser whenever it gets there: the *)
(* game may be on screen by then, opened by another one or by itself.       *)

\* The account a session can be restored for, if any.
Remembered(d) ==
  (IF authUser[d] # None THEN {authUser[d]} ELSE {google[d]}) \ {None}

\* daily_triviaApp: LoginView appears, and the Firebase user, or else the
\* account that GIDSignIn can restore, gets its session back.
Appear(d, i) ==
  /\ screen[d] = "appearing"
  /\ screen' = [screen EXCEPT ![d] = "login"]
  /\ \/ /\ login[d][i].pc = "idle"
        /\ \E p \in Remembered(d) :
             login' = [login EXCEPT ![d][i] =
               [NoLogin EXCEPT !.pc = "enter", !.player = p]]
     \/ authUser[d] = None /\ UNCHANGED login
  /\ UNCHANGED <<today, cloud, outbox, keychain, lastSeen, user, game, load,
                 submit, history>>

\* "Login" or the Google button: Firebase Auth or GIDSignIn is asked.
TapSignIn(d, i, p, button) ==
  /\ signIns < MaxSignIns
  /\ signIns' = signIns + 1
  /\ screen[d] = "login"
  /\ login[d][i].pc = "idle"
  /\ login' = [login EXCEPT ![d][i] =
       [NoLogin EXCEPT !.pc = button, !.io = "sent", !.player = p]]
  /\ UNCHANGED <<today, cloud, outbox, keychain, lastSeen, user, screen, game,
                 load, submit, opens, taps>>

\* Firebase Auth answers, and the callback of signIn starts the task that sets
\* currentUser; or GIDSignIn does, and createUserAccountFromGoogleIfNeeded
\* reads the users document.  A failure only alerts.
ServeSignIn(d, i) ==
  /\ login[d][i].io = "sent"
  /\ \/ /\ login[d][i].pc = "signIn"
        /\ authUser' = [authUser EXCEPT ![d] = login[d][i].player]
        /\ login' = [login EXCEPT ![d][i] =
             [@ EXCEPT !.pc = "enter", !.io = "none"]]
        /\ UNCHANGED google
     \/ /\ login[d][i].pc = "google"
        /\ google' = [google EXCEPT ![d] = login[d][i].player]
        /\ login' = [login EXCEPT ![d][i].pc = "get"]
        /\ UNCHANGED authUser
     \/ /\ login[d][i].pc \in {"signIn", "google"}
        /\ login' = [login EXCEPT ![d][i] = NoLogin]
        /\ UNCHANGED keychain
  /\ UNCHANGED <<today, cloud, outbox, lastSeen, user, screen, game, load,
                 submit, history>>

\* createUserAccountFromGoogleIfNeeded: the document, which has the name, is
\* decoded into currentUser; fetchUsername reads it once more.
GetReply(d, i) ==
  /\ login[d][i].pc = "get"
  /\ MainActorFree(d)
  /\ \/ /\ login[d][i].io = "done"
        /\ user' = [user EXCEPT ![d] =
             [NoUser EXCEPT !.account = login[d][i].player,
                            !.username = login[d][i].player]]
        /\ login' = [login EXCEPT ![d][i] =
             [@ EXCEPT !.pc = "rename", !.io = "sent"]]
     \/ /\ login[d][i].io = "failed"
        /\ login' = [login EXCEPT ![d][i] = NoLogin]
        /\ UNCHANGED user
  /\ UNCHANGED <<today, cloud, outbox, keychain, lastSeen, screen, game, load,
                 submit, history>>

\* currentUser = User(firebaseUser:) or User(googleUser:), which has no name,
\* whoever is currentUser by now; fetchUsername asks for the name.
Enter(d, i) ==
  /\ login[d][i].pc \in {"enter", "replace"}
  /\ MainActorFree(d)
  /\ user' = [user EXCEPT ![d] =
       [NoUser EXCEPT !.account = login[d][i].player]]
  /\ login' = [login EXCEPT ![d][i] =
       [@ EXCEPT !.pc = "name", !.io = "sent"]]
  /\ UNCHANGED <<today, cloud, outbox, keychain, lastSeen, screen, game, load,
                 submit, history>>

\* fetchUsername: the name goes to whoever is currentUser by now.
NameReply(d, i) ==
  /\ login[d][i].pc \in {"rename", "name"}
  /\ \/ /\ login[d][i].io = "done"
        /\ user' = [user EXCEPT ![d] =
             SetUsername(@, login[d][i].player)]
        /\ login' = [login EXCEPT ![d][i] =
             [@ EXCEPT !.pc = IF login[d][i].pc = "name" THEN "named"
                              ELSE "replace",
                       !.io = "none"]]
     \/ /\ login[d][i].io = "failed"
        /\ login' = [login EXCEPT ![d][i] = NoLogin]
        /\ UNCHANGED user
  /\ UNCHANGED <<today, cloud, outbox, keychain, lastSeen, screen, game, load,
                 submit, history>>

\* fetchUserStreak: reads the streak of currentUser's name, if there is one.
FetchUserStreak(d, i) ==
  /\ login[d][i].pc = "named"
  /\ login' = [login EXCEPT ![d][i] =
       IF HasName(user[d])
       THEN [NoLogin EXCEPT !.pc = "getStreak", !.io = "sent",
                            !.player = user[d].username]
       ELSE NoLogin]
  /\ UNCHANGED <<today, cloud, outbox, keychain, lastSeen, user, screen, game,
                 load, submit, history>>

\* fetchUserStreak: the streak arrived, or there is none and 0 is written.
StreakReply(d, i) ==
  /\ login[d][i].pc = "getStreak"
  /\ Arrived(login[d][i].io)
  /\ LET found == login[d][i].reply # None
         create == /\ login[d][i].io = "done"
                   /\ ~found
                   /\ HasName(user[d])
     IN /\ user' = IF login[d][i].io = "done" /\ found
                   THEN [user EXCEPT ![d] =
                          SetStreak(@, login[d][i].reply)]
                   ELSE user
        /\ login' = [login EXCEPT ![d][i] =
             IF create THEN [NoLogin EXCEPT !.pc = "putStreak", !.io = "sent"]
             ELSE NoLogin]
        /\ IF create THEN SendStreak(d, user[d].username, 0, i)
           ELSE UNCHANGED outbox
  /\ UNCHANGED <<today, cloud, keychain, lastSeen, screen, game, load, submit,
                 history>>

\* updateCurrentUsersStreak(0) returns.
StreakCreated(d, i) ==
  /\ login[d][i].pc = "putStreak"
  /\ Arrived(login[d][i].io)
  /\ user' = IF Succeeded(login[d][i].io)
             THEN [user EXCEPT ![d] = SetStreak(@, 0)] ELSE user
  /\ login' = [login EXCEPT ![d][i] = NoLogin]
  /\ UNCHANGED <<today, cloud, outbox, keychain, lastSeen, screen, game, load,
                 submit, history>>

\* AuthService.logout.  Auth.signOut may throw after the rest was done; the
\* tasks of the view live on, but reach only its detached state.  (A detached
\* load can change nothing any more and is dropped.)
Logout(d) ==
  /\ screen[d] = "game"
  /\ ~game[d].showUsernameEntry
  /\ MainActorFree(d)
  /\ user' = [user EXCEPT ![d] = NoUser]
  /\ screen' = [screen EXCEPT ![d] = "appearing"]
  /\ google' = [google EXCEPT ![d] = None]
  /\ \/ authUser' = [authUser EXCEPT ![d] = None]
     \/ UNCHANGED authUser
  /\ game' = [game EXCEPT ![d] = NewGame]
  /\ load' = [load EXCEPT ![d] = [i \in LoadSlots |-> NoLoad]]
  /\ submit' = [submit EXCEPT ![d] =
       [i \in SubmitSlots |-> [@[i] EXCEPT !.live = FALSE]]]
  /\ UNCHANGED <<today, cloud, outbox, lastSeen, login, history>>

-----------------------------------------------------------------------------
(* TriviaGameView.onAppear *)

\* Mutant: only the old response is forgotten.
RefreshDataKeepingQuestion(d, g) ==
  IF lastSeen[d] # today[d] THEN [g EXCEPT !.submittedAnswer = None] ELSE g

\* refreshData: a new day forgets the old question and response.
RefreshData(d, g) ==
  IF lastSeen[d] # today[d]
  THEN [g EXCEPT !.currentQuestion = None, !.submittedAnswer = None]
  ELSE g

\* isLoading = true; refreshData(); fetchTodaysQuestion() asks.
OnAppear(d, i, g) ==
  /\ opens < MaxOpens
  /\ opens' = opens + 1
  /\ load[d][i].pc = "idle"
  /\ lastSeen' = [lastSeen EXCEPT ![d] = today[d]]
  /\ game' = [game EXCEPT ![d] =
       [RefreshData(d, g) EXCEPT !.isLoading = TRUE]]
  /\ load' = [load EXCEPT ![d][i] =
       [NoLoad EXCEPT !.pc = "question", !.io = "sent", !.day = today[d]]]

\* onChange(of: currentUser) shows the game, whose onAppear starts loading.
OpenGame(d, i) ==
  /\ screen[d] = "login"
  /\ user[d].account # None
  /\ screen' = [screen EXCEPT ![d] = "game"]
  /\ OnAppear(d, i, NewGame)
  /\ UNCHANGED <<today, cloud, outbox, keychain, user, login, submit, signIns,
                 taps>>

\* The leaderboard cover was closed and the same view appears again.
Reappear(d, i) ==
  /\ screen[d] = "game"
  /\ ~game[d].showUsernameEntry
  /\ MainActorFree(d)
  /\ OnAppear(d, i, game[d])
  /\ UNCHANGED <<today, cloud, outbox, keychain, user, screen, login, submit,
                 signIns, taps>>

\* fetchTodaysQuestion returned or threw (loadQuestion swallows the error);
\* checkResponseExists follows, and gives up at once without a username.
QuestionReply(d, i) ==
  /\ load[d][i].pc = "question"
  /\ Arrived(load[d][i].io)
  /\ MainActorFree(d)
  /\ LET ok == Succeeded(load[d][i].io)
         found == ok /\ HasQuestion(load[d][i].day)
     IN game' = [game EXCEPT
          ![d].currentQuestion = IF found THEN load[d][i].day ELSE @,
          ![d].isLoading = @ /\ ok]
  /\ load' = [load EXCEPT ![d][i] =
       IF HasName(user[d])
       THEN [NoLoad EXCEPT !.pc = "response", !.io = "sent",
                           !.day = today[d], !.player = user[d].username]
       ELSE [NoLoad EXCEPT !.pc = "unchecked"]]
  /\ UNCHANGED <<today, cloud, outbox, keychain, lastSeen, user, screen, login,
                 submit, history>>

\* showUsernameEntry = username == nil; isLoading = false
FinishLoad(d, i, g) ==
  /\ game' = [game EXCEPT ![d] =
       [g EXCEPT !.showUsernameEntry = ~HasName(user[d]),
                 !.isLoading = FALSE]]
  /\ load' = [load EXCEPT ![d][i] = NoLoad]
  /\ UNCHANGED <<today, cloud, outbox, keychain, lastSeen, user, screen, login,
                 submit, history>>

\* The onAppear task goes on after a check skipped for want of a username, on
\* the main actor all along; but fetchUsername, on another thread, may have
\* delivered one since.
Unchecked(d, i) ==
  /\ load[d][i].pc = "unchecked"
  /\ FinishLoad(d, i, game[d])

\* checkResponseExists returned: only a response to today's question counts.
ResponseReply(d, i) ==
  /\ load[d][i].pc = "response"
  /\ load[d][i].io = "done"
  /\ MainActorFree(d)
  /\ LET r == load[d][i].reply IN
       FinishLoad(d, i,
         IF r # None /\ r.date = load[d][i].day
         THEN [game[d] EXCEPT !.submittedAnswer = r] ELSE game[d])

\* Mutant: the catch of onAppear alerts but leaves the spinner.
ResponseFailedSpinning(d, i) ==
  /\ load[d][i].pc = "response"
  /\ load[d][i].io = "failed"
  /\ MainActorFree(d)
  /\ load' = [load EXCEPT ![d][i] = NoLoad]
  /\ UNCHANGED <<today, cloud, outbox, keychain, lastSeen, user, screen, game,
                 login, submit, history>>

\* checkResponseExists threw: the catch of onAppear.
ResponseFailed(d, i) ==
  /\ load[d][i].pc = "response"
  /\ load[d][i].io = "failed"
  /\ MainActorFree(d)
  /\ game' = [game EXCEPT ![d].isLoading = FALSE]
  /\ load' = [load EXCEPT ![d][i] = NoLoad]
  /\ UNCHANGED <<today, cloud, outbox, keychain, lastSeen, user, screen, login,
                 submit, history>>

-----------------------------------------------------------------------------
(* TriviaGameView.questionView and submitAnswer *)

QuestionVisible(d) ==
  /\ screen[d] = "game"
  /\ ~game[d].isLoading
  /\ ~game[d].showUsernameEntry
  /\ game[d].submittedAnswer = None
  /\ game[d].currentQuestion # None

\* "Submit Answer" is tapped with text a in the field.  The Task it creates
\* has not run yet, so a second tap on the same text can follow.
TapSubmit(d, i, a) ==
  /\ taps < MaxTaps
  /\ QuestionVisible(d)
  /\ ~MainActorBusy(d)
  /\ submit[d][i].pc = "idle"
  /\ MainActorFree(d) \/ a = game[d].answerText
  /\ game' = [game EXCEPT ![d].answerText = a]
  /\ submit' = [submit EXCEPT ![d][i] =
       [NoSubmit EXCEPT !.pc = "queued", !.live = TRUE]]
  /\ taps' = taps + 1
  /\ UNCHANGED <<today, cloud, outbox, keychain, lastSeen, user, screen, login,
                 load, signIns, opens>>

\* submitAnswer up to its first await: the blank-answer warning, or grading
\* and the write of the response under today's key.
SubmitAnswer(d, i) ==
  /\ submit[d][i].pc = "queued"
  /\ LET g == game[d]
         warn == g.answerText \in BlankTexts /\ ~g.warnedAboutEmptyAnswer
         send == /\ ~warn
                 /\ g.currentQuestion # None
                 /\ HasName(user[d])
         answer == Answer(g.currentQuestion, g.answerText)
     IN /\ game' = [game EXCEPT ![d] =
             IF warn THEN [@ EXCEPT !.warnedAboutEmptyAnswer = TRUE]
             ELSE [@ EXCEPT !.isLoading = TRUE]]
        /\ submit' = [submit EXCEPT ![d][i] =
             IF send THEN [@ EXCEPT !.pc = "response", !.io = "sent",
                                    !.answer = answer,
                                    !.name = user[d].username,
                                    !.day = today[d]]
             ELSE NoSubmit]
        /\ IF send
           THEN SendResponse(d, user[d].username, today[d], answer, i)
           ELSE UNCHANGED outbox
  /\ UNCHANGED <<today, cloud, keychain, lastSeen, user, screen, login, load,
                 history>>

\* Mutant: the error path forgets the spinner.
StopLoadingUnlessFailed(d, t) ==
  game' = [game EXCEPT ![d].isLoading = IF t.live /\ t.io # "failed"
                                        THEN FALSE ELSE @]

\* isLoading = false on the view task t belongs to, if it is still there.
StopLoading(d, t) ==
  game' = [game EXCEPT ![d].isLoading = IF t.live THEN FALSE ELSE @]

\* Mutant: every answer lengthens the streak.
NewStreakWhatever(u, outcome) == (IF u.streak = None THEN 0 ELSE u.streak) + 1

\* The streak after an answer, from the one currentUser has now.
NewStreak(u, outcome) ==
  IF outcome THEN (IF u.streak = None THEN 0 ELSE u.streak) + 1 ELSE 0

\* GameService.submitAnswer returned or threw.
AnswerReply(d, i) ==
  LET t == submit[d][i]
  IN /\ t.pc = "response"
     /\ MainActorFree(d)
     /\ \/ /\ Succeeded(t.io)
           /\ game' = [game EXCEPT ![d].submittedAnswer =
                         IF t.live THEN t.answer ELSE @]
           /\ submit' = [submit EXCEPT ![d][i] =
                [@ EXCEPT !.pc = "hop", !.io = "none",
                          !.streak = NewStreak(user[d],
                                               t.answer.answerOutcome)]]
        \/ /\ t.io = "failed"
           /\ StopLoading(d, t)
           /\ submit' = [submit EXCEPT ![d][i] = NoSubmit]
     /\ UNCHANGED <<today, cloud, outbox, keychain, lastSeen, user, screen,
                    login, load, history>>

\* updateCurrentUsersStreak up to its await: it looks up the name itself, and
\* throws when there is none.
UpdateCurrentUsersStreak(d, i) ==
  /\ submit[d][i].pc = "hop"
  /\ \/ /\ HasName(user[d])
        /\ SendStreak(d, user[d].username, submit[d][i].streak, i)
        /\ submit' = [submit EXCEPT ![d][i] =
             [@ EXCEPT !.pc = "streak", !.io = "sent"]]
     \/ /\ ~HasName(user[d])
        /\ submit' = [submit EXCEPT ![d][i] =
             [@ EXCEPT !.pc = "back", !.streak = 0]]
        /\ UNCHANGED outbox
  /\ UNCHANGED <<today, cloud, keychain, lastSeen, user, screen, game, login,
                 load, history>>

\* updateCurrentUsersStreak after its await: the streak goes to whoever is
\* currentUser by now.
StreakSaved(d, i) ==
  LET t == submit[d][i] IN
  /\ t.pc = "streak"
  /\ Arrived(t.io)
  /\ user' = IF Succeeded(t.io)
             THEN [user EXCEPT ![d] = SetStreak(@, t.streak)] ELSE user
  /\ submit' = [submit EXCEPT ![d][i] =
       [@ EXCEPT !.pc = "back", !.io = "none", !.streak = 0]]
  /\ UNCHANGED <<today, cloud, outbox, keychain, lastSeen, screen, game, login,
                 load, history>>

\* submitAnswer goes on after updateCurrentUsersStreak returned or threw.
SubmitReturns(d, i) ==
  /\ submit[d][i].pc = "back"
  /\ MainActorFree(d)
  /\ StopLoading(d, submit[d][i])
  /\ submit' = [submit EXCEPT ![d][i] = NoSubmit]
  /\ UNCHANGED <<today, cloud, outbox, keychain, lastSeen, user, screen, login,
                 load, history>>

-----------------------------------------------------------------------------
Apply(d) ==
  \E j \in 1..Len(Queue(d)) : ApplyResponse(d, j) \/ ApplyStreak(d, j)

LoginStep(d, i) ==
  \/ ServeSignIn(d, i)
  \/ ServeLogin(d, i)
  \/ GetReply(d, i)
  \/ Enter(d, i)
  \/ NameReply(d, i)
  \/ FetchUserStreak(d, i)
  \/ StreakReply(d, i)
  \/ StreakCreated(d, i)

LoadStep(d, i) ==
  \/ ServeLoad(d, i)
  \/ QuestionReply(d, i)
  \/ Unchecked(d, i)
  \/ ResponseReply(d, i)
  \/ ResponseFailed(d, i)

SubmitStep(d, i) ==
  \/ SubmitAnswer(d, i)
  \/ AnswerReply(d, i)
  \/ UpdateCurrentUsersStreak(d, i)
  \/ StreakSaved(d, i)
  \/ SubmitReturns(d, i)

Next ==
  \E d \in Devices :
    \/ Midnight(d)
    \/ Apply(d)
    \/ Acknowledge(d)
    \/ Reject(d)
    \/ Crash(d)
    \/ Logout(d)
    \/ \E i \in LoginSlots :
         \/ Appear(d, i)
         \/ \E p \in Players, button \in Buttons : TapSignIn(d, i, p, button)
         \/ LoginStep(d, i)
    \/ \E i \in LoadSlots :
         \/ OpenGame(d, i)
         \/ Reappear(d, i)
         \/ LoadStep(d, i)
    \/ \E i \in SubmitSlots :
         \/ \E a \in Texts : TapSubmit(d, i, a)
         \/ SubmitStep(d, i)

Spec == Init /\ [][Next]_vars

\* Fairness: the runtime resumes continuations and starts queued tasks,
\* SwiftUI renders, and the network answers every call one way or the other
\* (PipelineLive.cfg checks that the SDK empties the queue it serves).
\* Nothing forces the player, the calendar or a crash.
Fairness ==
  \A d \in Devices :
    /\ WF_vars(Acknowledge(d) \/ Reject(d))
    /\ \A i \in LoginSlots : WF_vars(LoginStep(d, i))
    /\ \A i \in LoadSlots : WF_vars(LoadStep(d, i))
    /\ \A i \in SubmitSlots : WF_vars(SubmitStep(d, i))

FairSpec == Spec /\ Fairness

-----------------------------------------------------------------------------
(* Properties *)

\* Every variable keeps the shape its Swift declaration or document gives it.
TypeOK ==
  /\ today \in [Devices -> Days]
  /\ responses \in [Players -> [Days -> SubmittedAnswer \cup {None}]]
  /\ streaks \in [Players -> Nat \cup {None}]
  /\ stored \in Nat
  /\ outbox \in [Devices -> [Accounts -> Seq(Write)]]
  /\ authUser \in [Devices -> Accounts]
  /\ google \in [Devices -> Accounts]
  /\ lastSeen \in [Devices -> Days \cup {None}]
  /\ user \in [Devices -> User]
  /\ screen \in [Devices -> {"appearing", "login", "game"}]
  /\ game \in [Devices -> Game]
  /\ login \in [Devices -> [LoginSlots -> LoginTask]]
  /\ load \in [Devices -> [LoadSlots -> LoadTask]]
  /\ submit \in [Devices -> [SubmitSlots -> SubmitTask]]
  /\ signIns \in 0..MaxSignIns
  /\ opens \in 0..MaxOpens
  /\ taps \in 0..MaxTaps

\* However the question on screen, the calendar and the writes interleave
\* (GameService.submitAnswer keys the document by today but takes date and
\* outcome from the question it holds), a stored response is graded against
\* the question its own date names, and is filed on that day or later.
GradedAndFiled ==
  \A p \in Players, k \in Days :
    responses[p][k] # None =>
      Graded(responses[p][k]) /\ responses[p][k].date <= k

\* Never the streak before the answer: once a submission has gone on to the
\* streak, the document it filed its answer in exists, so no streak is written
\* for an answer that a refused, lost, parked or re-sent write left out.
AnswerBeforeStreak ==
  \A d \in Devices, i \in SubmitSlots :
    LET t == submit[d][i] IN
    t.pc \in {"hop", "streak", "back"} => responses[t.name][t.day] # None

\* No streak, stored or shown, is longer than the number of correct answers
\* that reached Firestore: every +1 of submitAnswer is paid for by a correct
\* response of its own, whatever double taps, crashes and late replies do.
StreakEarned ==
  /\ \A p \in Players : streaks[p] # None => streaks[p] <= stored
  /\ \A d \in Devices : user[d].streak # None => user[d].streak <= stored

\* The documents behave as AnswerBook promises: whatever the devices do, each
\* step of theirs files one graded answer, sets one streak that is paid for,
\* or leaves the book alone.
Book == INSTANCE AnswerBook
  WITH responses <- responses, streaks <- streaks, stored <- stored
ImplementsBook == Book!Spec

\* With one onAppear task at a time, the question held is never older than
\* the last time the view appeared: refreshData forgets it on a new day.
QuestionOfLastSeenDay ==
  \A d \in Devices : game[d].currentQuestion \in {None, lastSeen[d]}

Spinning(d) == screen[d] = "game" /\ game[d].isLoading

\* A task of the view on screen is on its way to isLoading = false.
AtWork(d) ==
  \/ \E i \in LoadSlots : load[d][i].pc # "idle"
  \/ \E i \in SubmitSlots :
       submit[d][i].live /\ submit[d][i].pc \notin {"idle", "queued"}

\* The "Loading..." spinner goes away while an onAppear or submitAnswer task
\* is at work, however loads, submissions and failing calls overlap: from
\* there on every path, the throwing ones included, ends in isLoading = false.
SpinnerStops ==
  \A d \in Devices : (Spinning(d) /\ AtWork(d)) ~> ~Spinning(d)

\* A spinner that nobody is going to stop comes about in one way only: Submit
\* is tapped while currentUser has no name, because a sign-in task has
\* replaced it under the game (submitAnswer sets isLoading before it unwraps
\* question and username, and has no else).
SpinnerOwned ==
  [][\A d \in Devices :
       (/\ Spinning(d)' /\ ~AtWork(d)'
        /\ ~(Spinning(d) /\ ~AtWork(d))) => ~HasName(user[d])]_vars

-----------------------------------------------------------------------------
(* What a result screen claims, and a run refutes. *)

\* "Your streak is now ... days": a streak counts days, so it cannot be
\* longer than the calendar.
StreakCountsDays ==
  \A p \in Players :
    streaks[p] # None => \E d \in Devices : streaks[p] <= today[d]
=============================================================================
