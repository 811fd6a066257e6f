------------------------------ MODULE Session -------------------------------
(***************************************************************************)
(* Accounts, sessions and usernames: the Login, Register and Google        *)
(* buttons of LoginView, the session that daily_triviaApp restores, the    *)
(* users documents that AuthService creates and reads, CreateUsernameSheet *)
(* and logout.  What a game does with the name is in GamePlay, and so are  *)
(* the streak reads that end every sign-in.                                *)
(*                                                                         *)
(* A sign-in is a task in a slot of its device that walks through the      *)
(* awaits of its flow; none is ever cancelled.  Writes wait in the queue   *)
(* of the Firebase user signed in (module WriteQueue); a Google session is *)
(* not a Firebase one, and its writes are those of nobody (None).          *)
(***************************************************************************)
EXTENDS Naturals, Sequences

CONSTANTS
  Devices,      \* phones
  Emails,       \* addresses accounts are made with
  Docs,         \* ids of users documents
  Key,          \* email -> its sanitizedEmail(), perhaps that of others too
  Names,        \* usernames that isUsernameValid accepts
  Slots,        \* sign-in tasks a device can have in flight
  Taps,         \* tasks of the sheet's Submit button in flight on a device
  MaxAttempts,  \* bound: sign-in buttons tapped and processes killed
  MaxOutbox,    \* bound: writes waiting in one queue
  None          \* nil, or "no such document"

ASSUME SessionAssumption ==
  /\ Key \in [Emails -> Docs]
  /\ None \notin Emails \cup Docs \cup Names \cup Slots \cup Taps
  /\ Slots \cap Taps = {}
  /\ MaxAttempts \in Nat
  /\ MaxOutbox \in Nat

VARIABLES
  accounts,   \* emails that have a password account with Firebase Auth
  users,      \* users/<key>, or None
  outbox,     \* device, Firebase user -> the SDK's queue of writes
  auth,       \* device -> Auth.auth().currentUser (in the keychain)
  google,     \* device -> the account GIDSignIn remembers
  user,       \* device -> AuthService.currentUser
  screen,     \* device -> what is on screen
  alert,      \* device -> whether loginViewAlert is up
  submitting, \* device -> isSubmitting of CreateUsernameSheet
  task,       \* device, slot -> sign-in task
  naming,     \* device, tap -> task of the sheet's Submit button
  reached,    \* history: names that reached a users document
  confirmed,  \* history: names whose sheet was dismissed
  attempts    \* history: sign-in buttons tapped, processes killed

cloud == <<accounts, users>>
device == <<auth, google, user, screen, alert, submitting>>
history == <<reached, confirmed, attempts>>
vars == <<accounts, users, outbox, auth, google, user, screen, alert,
          submitting, task, naming, reached, confirmed, attempts>>

\* A users document: whether it has the email and id that User decodes, and
\* the username.
UserDoc == [decodable : BOOLEAN, username : Names \cup {None}]

ASSUME NoneAssumption == None \notin UserDoc

IO == {"none", "sent", "done", "failed"}
Flow == {"login", "register", "google", "restore"}
Pc == {"idle", "signUp", "signIn", "enter", "get", "create", "rename",
       "replace", "name"}
Task == [flow : Flow, pc : Pc, io : IO, email : Emails \cup {None},
         found : UserDoc \cup {None}, live : BOOLEAN]
Naming == [pc : {"idle", "queued", "write", "back"}, io : IO,
           doc : Docs \cup {None}, name : Names \cup {None}, live : BOOLEAN]
Write == [doc : Docs, name : Names \cup {None}, applied : BOOLEAN,
          by : Slots \cup Taps \cup {None}]

NoUser == [doc |-> None, username |-> None]
UserRecord == {NoUser} \cup [doc : Docs, username : Names \cup {None}]
NoTask == [flow |-> "login", pc |-> "idle", io |-> "none", email |-> None,
           found |-> None, live |-> FALSE]
NoNaming == [pc |-> "idle", io |-> "none", doc |-> None, name |-> None,
             live |-> FALSE]

\* User(firebaseUser:) and User(googleUser:)
FreshUser(email) == [doc |-> Key[email], username |-> None]

Init ==
  /\ accounts = {}
  /\ users = [k \in Docs |-> None]
  /\ outbox = [d \in Devices |-> [u \in Emails \cup {None} |-> <<>>]]
  /\ auth = [d \in Devices |-> None]
  /\ google = [d \in Devices |-> None]
  /\ user = [d \in Devices |-> NoUser]
  /\ screen = [d \in Devices |-> "appearing"]
  /\ alert = [d \in Devices |-> FALSE]
  /\ submitting = [d \in Devices |-> FALSE]
  /\ task = [d \in Devices |-> [i \in Slots |-> NoTask]]
  /\ naming = [d \in Devices |-> [t \in Taps |-> NoNaming]]
  /\ reached = {}
  /\ confirmed = {}
  /\ attempts = 0

-----------------------------------------------------------------------------
(* The users documents, and the SDK and backend that hold them. *)

\* A document after write w: the account is created (email, id, createdAt, not
\* merged), or a username is merged into what there is.
After(w, doc) ==
  IF w.name = None THEN [decodable |-> TRUE, username |-> None]
  ELSE [decodable |-> doc # None /\ doc.decodable, username |-> w.name]

Queue(d) == outbox[d][auth[d]]

SetData(d, doc, name, by) ==
  /\ Len(Queue(d)) < MaxOutbox
  /\ outbox' = [outbox EXCEPT ![d][auth[d]] =
       Append(@, [doc |-> doc, name |-> name, applied |-> FALSE, by |-> by])]

\* What a read of users/<k> returns on d: the backend's document under the
\* pending writes of the user signed in.
Seen(d, k) ==
  LET q == Queue(d)
      doc[n \in 0..Len(q)] ==
        IF n = 0 THEN users[k]
        ELSE IF q[n].doc = k THEN After(q[n], doc[n - 1]) ELSE doc[n - 1]
  IN doc[Len(q)]

\* The backend gets the j-th write, perhaps again, after the ones ahead of it.
Apply(d, j) ==
  /\ j \in 1..Len(Queue(d))
  /\ \A k \in 1..(j - 1) : Queue(d)[k].applied
  /\ LET w == Queue(d)[j] IN
       /\ users' = [users EXCEPT ![w.doc] = After(w, @)]
       /\ reached' = reached \cup
            {[doc |-> w.doc, name |-> n] : n \in {w.name} \ {None}}
  /\ outbox' = [outbox EXCEPT ![d][auth[d]][j].applied = TRUE]
  /\ UNCHANGED <<accounts, device, task, naming, confirmed, attempts>>

\* The oldest write leaves the queue; the await of it resumes.
Leave(d, result) ==
  /\ Queue(d) # <<>>
  /\ LET by == Head(Queue(d)).by IN
       /\ task' = IF by \in Slots THEN [task EXCEPT ![d][by].io = result]
                  ELSE task
       /\ naming' = IF by \in Taps THEN [naming EXCEPT ![d][by].io = result]
                    ELSE naming
  /\ outbox' = [outbox EXCEPT ![d][auth[d]] = Tail(@)]
  /\ UNCHANGED <<cloud, device, history>>

Acknowledge(d) ==
  /\ Queue(d) # <<>>
  /\ Head(Queue(d)).applied
  /\ Leave(d, "done")

Reject(d) == Leave(d, "failed")

\* Firebase Auth answers createUser or signIn.  Success makes e the Firebase
\* user of the phone before the task hears of it.
ServeAuth(d, i) ==
  LET t == task[d][i] IN
  /\ t.io = "sent"
  /\ t.pc \in {"signUp", "signIn"}
  /\ \/ /\ (t.pc = "signIn") = (t.email \in accounts)
        /\ accounts' = accounts \cup {t.email}
        /\ auth' = [auth EXCEPT ![d] = t.email]
        /\ task' = [task EXCEPT ![d][i].io = "done"]
     \/ /\ task' = [task EXCEPT ![d][i].io = "failed"]
        /\ UNCHANGED <<accounts, auth>>
  /\ UNCHANGED <<users, outbox, google, user, screen, alert, submitting,
                 naming, history>>

\* A getDocument of users/<key> is answered, or throws.
ServeRead(d, i) ==
  LET t == task[d][i] IN
  /\ t.io = "sent"
  /\ t.pc \in {"get", "rename", "name"}
  /\ \/ task' = [task EXCEPT ![d][i] =
          [t EXCEPT !.io = "done", !.found = Seen(d, Key[t.email])]]
     \/ task' = [task EXCEPT ![d][i].io = "failed"]
  /\ UNCHANGED <<cloud, outbox, device, naming, history>>

\* The process is killed.  Queues, Firebase user and Google account are kept.
Crash(d) ==
  /\ attempts < MaxAttempts
  /\ attempts' = attempts + 1
  /\ user' = [user EXCEPT ![d] = NoUser]
  /\ screen' = [screen EXCEPT ![d] = "appearing"]
  /\ alert' = [alert EXCEPT ![d] = FALSE]
  /\ submitting' = [submitting EXCEPT ![d] = FALSE]
  /\ task' = [task EXCEPT ![d] = [i \in Slots |-> NoTask]]
  /\ naming' = [naming EXCEPT ![d] = [t \in Taps |-> NoNaming]]
  /\ outbox' = [outbox EXCEPT ![d] =
       [u \in Emails \cup {None} |->
         [j \in 1..Len(outbox[d][u]) |->
           [outbox[d][u][j] EXCEPT !.by = None]]]]
  /\ UNCHANGED <<cloud, auth, google, reached, confirmed>>

-----------------------------------------------------------------------------
(* LoginView and daily_triviaApp *)

\* The account a session can be restored for, if any.
Remembered(d) == (IF auth[d] # None THEN {auth[d]} ELSE {google[d]}) \ {None}

\* LoginView.onAppear: a Firebase user, or else the account that GIDSignIn can
\* restore, gets its session back.
Appear(d, i) ==
  /\ screen[d] = "appearing"
  /\ screen' = [screen EXCEPT ![d] = "login"]
  /\ \/ /\ task[d][i].pc = "idle"
        /\ \E e \in Remembered(d) :
             task' = [task EXCEPT ![d][i] =
               [NoTask EXCEPT !.flow = "restore", !.pc = "enter", !.email = e,
                              !.live = TRUE]]
     \/ auth[d] = None /\ UNCHANGED task
  /\ UNCHANGED <<cloud, outbox, auth, google, user, alert, submitting, naming,
                 history>>

\* A button is tapped on an empty form.
EmptyForm(d) ==
  /\ screen[d] = "login"
  /\ ~alert[d]
  /\ alert' = [alert EXCEPT ![d] = TRUE]
  /\ UNCHANGED <<cloud, outbox, auth, google, user, screen, submitting, task,
                 naming, history>>

DismissAlert(d) ==
  /\ alert[d]
  /\ alert' = [alert EXCEPT ![d] = FALSE]
  /\ UNCHANGED <<cloud, outbox, auth, google, user, screen, submitting, task,
                 naming, history>>

\* A sign-in button is tapped and its task makes its first call.
Begin(d, i, e, flow, pc) ==
  /\ screen[d] = "login"
  /\ ~alert[d]
  /\ attempts < MaxAttempts
  /\ attempts' = attempts + 1
  /\ task[d][i].pc = "idle"
  /\ task' = [task EXCEPT ![d][i] =
       [NoTask EXCEPT !.flow = flow, !.pc = pc, !.io = "sent", !.email = e,
                      !.live = TRUE]]
  /\ UNCHANGED <<cloud, outbox, auth, user, screen, alert, submitting, naming,
                 reached, confirmed>>

Login(d, i, e) ==
  Begin(d, i, e, "login", "signIn") /\ UNCHANGED google

Register(d, i, e) ==
  Begin(d, i, e, "register", "signUp") /\ UNCHANGED google

\* GIDSignIn came back with account e; createUserAccountFromGoogleIfNeeded
\* reads its document.  (When it comes back without one there is an alert, as
\* on an empty form.)
Google(d, i, e) ==
  /\ Begin(d, i, e, "google", "get")
  /\ google' = [google EXCEPT ![d] = e]

\* Mutant: the catch forgets the alert.
FailSilently(d, i) ==
  /\ task' = [task EXCEPT ![d][i] = NoTask]
  /\ UNCHANGED alert

\* The catch of a sign-in task: an alert, if its LoginView is still there; the
\* restored session only prints.
Fail(d, i) ==
  /\ task' = [task EXCEPT ![d][i] = NoTask]
  /\ alert' = [alert EXCEPT ![d] =
       @ \/ (task[d][i].live /\ task[d][i].flow # "restore")]

\* The task goes on to an await of its next call.
Await(d, i, pc) ==
  task' = [task EXCEPT ![d][i] =
    [@ EXCEPT !.pc = pc, !.io = "sent", !.found = None]]

\* signUp returned: signIn follows.  signIn returned: its callback starts the
\* task that sets currentUser.
AuthReply(d, i) ==
  LET t == task[d][i] IN
  /\ t.pc \in {"signUp", "signIn"}
  /\ \/ t.io = "done" /\ t.pc = "signUp" /\ Await(d, i, "signIn")
        /\ UNCHANGED alert
     \/ t.io = "done" /\ t.pc = "signIn" /\ UNCHANGED alert
        /\ task' = [task EXCEPT ![d][i] =
             [t EXCEPT !.pc = "enter", !.io = "none"]]
     \/ t.io = "failed" /\ Fail(d, i)
  /\ UNCHANGED <<cloud, outbox, auth, google, user, screen, submitting, naming,
                 history>>

\* currentUser = User(firebaseUser:), or User(googleUser:) for a restored
\* Google session; then the document, or only the name, is read.
Enter(d, i) ==
  LET t == task[d][i] IN
  /\ t.pc = "enter"
  /\ user' = [user EXCEPT ![d] = FreshUser(t.email)]
  /\ Await(d, i, IF t.flow = "register" THEN "get" ELSE "name")
  /\ UNCHANGED <<cloud, outbox, auth, google, screen, alert, submitting,
                 naming, history>>

\* createUserAccountIfNeeded, createUserAccountFromGoogleIfNeeded: an existing
\* document is decoded into currentUser; a missing one is set.
GetReply(d, i) ==
  LET t == task[d][i]
      k == Key[t.email]
      exists == t.io = "done" /\ t.found # None
  IN /\ t.pc = "get"
     /\ \/ /\ exists /\ t.found.decodable
           /\ user' = [user EXCEPT ![d] =
                [doc |-> k, username |-> t.found.username]]
           /\ IF t.flow = "google" THEN Await(d, i, "rename")
              ELSE task' = [task EXCEPT ![d][i] = NoTask]
           /\ UNCHANGED <<outbox, alert>>
        \/ /\ t.io = "done" /\ t.found = None
           /\ SetData(d, k, None, i)
           /\ Await(d, i, "create")
           /\ UNCHANGED <<user, alert>>
        \/ /\ t.io = "failed" \/ (exists /\ ~t.found.decodable)
           /\ Fail(d, i)
           /\ UNCHANGED <<user, outbox>>
     /\ UNCHANGED <<cloud, auth, google, screen, submitting, naming, history>>

\* The document was set: the end of a registration; a Google sign-in makes the
\* account currentUser.
CreateReply(d, i) ==
  LET t == task[d][i] IN
  /\ t.pc = "create"
  /\ \/ /\ t.io = "done" /\ t.flow = "google"
        /\ user' = [user EXCEPT ![d] = FreshUser(t.email)]
        /\ task' = [task EXCEPT ![d][i] =
             [t EXCEPT !.pc = "replace", !.io = "none"]]
        /\ UNCHANGED alert
     \/ /\ t.io = "done" /\ t.flow = "register"
        /\ task' = [task EXCEPT ![d][i] = NoTask]
        /\ UNCHANGED <<user, alert>>
     \/ /\ t.io = "failed"
        /\ Fail(d, i)
        /\ UNCHANGED user
  /\ UNCHANGED <<cloud, outbox, auth, google, screen, submitting, naming,
                 history>>

\* handleSignInButton replaces currentUser, whoever it is by now, with a user
\* that has no name yet.
Replace(d, i) ==
  /\ task[d][i].pc = "replace"
  /\ user' = [user EXCEPT ![d] = FreshUser(task[d][i].email)]
  /\ Await(d, i, "name")
  /\ UNCHANGED <<cloud, outbox, auth, google, screen, alert, submitting,
                 naming, history>>

\* Mutant: the name makes a user of nobody.
SetUsernameOfNobody(u, name) ==
  IF name = None THEN u ELSE [u EXCEPT !.username = name]

\* currentUser?.username = name
SetUsername(u, name) ==
  IF u = NoUser \/ name = None THEN u ELSE [u EXCEPT !.username = name]

\* fetchUsername returned or threw.
NameReply(d, i) ==
  LET t == task[d][i] IN
  /\ t.pc \in {"rename", "name"}
  /\ \/ /\ t.io = "done"
        /\ user' = [user EXCEPT ![d] =
             IF t.found = None THEN @ ELSE SetUsername(@, t.found.username)]
        /\ task' = [task EXCEPT ![d][i] =
             IF t.pc = "name" THEN NoTask
             ELSE [t EXCEPT !.pc = "replace", !.io = "none", !.found = None]]
        /\ UNCHANGED alert
     \/ t.io = "failed" /\ Fail(d, i) /\ UNCHANGED user
  /\ UNCHANGED <<cloud, outbox, auth, google, screen, submitting, naming,
                 history>>

\* onChange(of: currentUser): there is a user, so the game replaces LoginView,
\* whose tasks have no view to report to any more.
OpenGame(d) ==
  /\ screen[d] = "login"
  /\ user[d] # NoUser
  /\ screen' = [screen EXCEPT ![d] = "loading"]
  /\ alert' = [alert EXCEPT ![d] = FALSE]
  /\ task' = [task EXCEPT ![d] =
       [i \in Slots |-> [task[d][i] EXCEPT !.live = FALSE]]]
  /\ UNCHANGED <<cloud, outbox, auth, google, user, submitting, naming,
                 history>>

-----------------------------------------------------------------------------
(* TriviaGameView and CreateUsernameSheet *)

\* The load ends: the sheet comes up for a user without a name, unless the
\* load threw.
Loaded(d) ==
  /\ screen[d] = "loading"
  /\ \/ screen' = [screen EXCEPT ![d] =
          IF user[d].username = None THEN "sheet" ELSE "game"]
     \/ screen' = [screen EXCEPT ![d] = "game"]
  /\ submitting' = [submitting EXCEPT ![d] = FALSE]
  /\ UNCHANGED <<cloud, outbox, auth, google, user, alert, task, naming,
                 history>>

\* The leaderboard was closed: the view loads again.
Reappear(d) ==
  /\ screen[d] = "game"
  /\ screen' = [screen EXCEPT ![d] = "loading"]
  /\ UNCHANGED <<cloud, outbox, auth, google, user, alert, submitting, task,
                 naming, history>>

\* AuthService.logout; Auth.signOut may throw after the rest was done.
Logout(d) ==
  /\ screen[d] \in {"loading", "game"}
  /\ user' = [user EXCEPT ![d] = NoUser]
  /\ google' = [google EXCEPT ![d] = None]
  /\ screen' = [screen EXCEPT ![d] = "appearing"]
  /\ \/ auth' = [auth EXCEPT ![d] = None]
     \/ UNCHANGED auth
  /\ UNCHANGED <<cloud, outbox, alert, submitting, task, naming, history>>

\* The sheet's Submit button is disabled only once isSubmitting is set, which
\* its task does when it gets to run.
TapUsername(d, t) ==
  /\ screen[d] = "sheet"
  /\ ~submitting[d]
  /\ naming[d][t].pc = "idle"
  /\ naming' = [naming EXCEPT ![d][t].pc = "queued"]
  /\ UNCHANGED <<cloud, outbox, device, task, history>>

\* The task runs: submitUsername up to its await.
SubmitUsername(d, t, name) ==
  /\ naming[d][t].pc = "queued"
  /\ submitting' = [submitting EXCEPT ![d] = TRUE]
  /\ SetData(d, user[d].doc, name, t)
  /\ naming' = [naming EXCEPT ![d][t] =
       [pc |-> "write", io |-> "sent", doc |-> user[d].doc, name |-> name,
        live |-> TRUE]]
  /\ UNCHANGED <<cloud, auth, google, user, screen, alert, task, history>>

\* The write was acknowledged: whoever is currentUser gets the name, off the
\* main actor.
UsernameSaved(d, t) ==
  LET n == naming[d][t] IN
  /\ n.pc = "write"
  /\ n.io = "done"
  /\ user' = [user EXCEPT ![d] = SetUsername(@, n.name)]
  /\ naming' = [naming EXCEPT ![d][t].pc = "back"]
  /\ UNCHANGED <<cloud, outbox, auth, google, screen, alert, submitting, task,
                 history>>

\* The sheet of tap t is dismissed, if it is still there, and detached from
\* the other taps on it.
Dismiss(d, t) ==
  LET n == naming[d][t] IN
  /\ screen' = [screen EXCEPT ![d] = IF n.live THEN "game" ELSE @]
  /\ submitting' = [submitting EXCEPT ![d] = @ /\ ~n.live]
  /\ confirmed' = confirmed \cup {[doc |-> n.doc, name |-> n.name]}
  /\ naming' = [naming EXCEPT ![d] = [other \in Taps |->
       IF other = t THEN NoNaming
       ELSE [naming[d][other] EXCEPT !.live = @ /\ ~n.live]]]

\* submitUsername threw: a message appears, and isSubmitting stays.
Complain(d, t) ==
  /\ naming' = [naming EXCEPT ![d][t] = NoNaming]
  /\ UNCHANGED <<screen, submitting, confirmed>>

\* Mutant: try? in place of try.
UsernameReplySwallowed(d, t) ==
  LET n == naming[d][t] IN
  /\ n.pc = "back" \/ (n.pc = "write" /\ n.io = "failed")
  /\ \A other \in Taps : naming[d][other].pc # "queued"
  /\ Dismiss(d, t)
  /\ UNCHANGED <<cloud, outbox, auth, google, user, alert, task, reached,
                 attempts>>

\* submitUsername returned or threw, and its task is back on the main actor,
\* behind the tasks already queued there.
UsernameReply(d, t) ==
  LET n == naming[d][t] IN
  /\ \A other \in Taps : naming[d][other].pc # "queued"
  /\ \/ n.pc = "back" /\ Dismiss(d, t)
     \/ n.pc = "write" /\ n.io = "failed" /\ Complain(d, t)
  /\ UNCHANGED <<cloud, outbox, auth, google, user, alert, task, reached,
                 attempts>>

-----------------------------------------------------------------------------
TaskStep(d, i) ==
  \/ ServeAuth(d, i)
  \/ ServeRead(d, i)
  \/ AuthReply(d, i)
  \/ Enter(d, i)
  \/ GetReply(d, i)
  \/ CreateReply(d, i)
  \/ Replace(d, i)
  \/ NameReply(d, i)

Next ==
  \E d \in Devices :
    \/ \E j \in 1..Len(Queue(d)) : Apply(d, j)
    \/ Acknowledge(d)
    \/ Reject(d)
    \/ Crash(d)
    \/ EmptyForm(d)
    \/ DismissAlert(d)
    \/ OpenGame(d)
    \/ Loaded(d)
    \/ Reappear(d)
    \/ Logout(d)
    \/ \E t \in Taps :
         \/ TapUsername(d, t)
         \/ \E name \in Names : SubmitUsername(d, t, name)
         \/ UsernameSaved(d, t)
         \/ UsernameReply(d, t)
    \/ \E i \in Slots :
         \/ Appear(d, i)
         \/ \E e \in Emails :
              Login(d, i, e) \/ Register(d, i, e) \/ Google(d, i, e)
         \/ TaskStep(d, i)

Spec == Init /\ [][Next]_vars

-----------------------------------------------------------------------------
(* Properties *)

\* Every variable keeps its shape; in particular no users document is written
\* under a nil email, and a name that is read or submitted in one session and
\* arrives after its logout never makes a user without an email.
TypeOK ==
  /\ accounts \subseteq Emails
  /\ users \in [Docs -> UserDoc \cup {None}]
  /\ outbox \in [Devices -> [Emails \cup {None} -> Seq(Write)]]
  /\ auth \in [Devices -> Emails \cup {None}]
  /\ google \in [Devices -> Emails \cup {None}]
  /\ user \in [Devices -> UserRecord]
  /\ screen \in [Devices ->
                  {"appearing", "login", "loading", "game", "sheet"}]
  /\ alert \in [Devices -> BOOLEAN]
  /\ submitting \in [Devices -> BOOLEAN]
  /\ task \in [Devices -> [Slots -> Task]]
  /\ naming \in [Devices -> [Taps -> Naming]]
  /\ reached \subseteq [doc : Docs, name : Names]
  /\ confirmed \subseteq [doc : Docs, name : Names]
  /\ attempts \in 0..MaxAttempts

\* The sheet is dismissed only over a username that has reached the users
\* document submitUsername took it to, that of whoever was currentUser when
\* the tap's task ran, although the write was parked behind another user or
\* sent again, writes of other tasks are in the same queue, and currentUser
\* has been replaced since.
NameReachedFirst == confirmed \subseteq reached

\* A sign-in never ends in silence: when the task of a button is over while
\* its LoginView is still there, there is a user, for whom the game opens, or
\* an alert.  (A killed process ends its tasks too.)
SignInAnswered ==
  [][\A d \in Devices, i \in Slots :
       (/\ task[d][i].live /\ task[d][i].flow # "restore"
        /\ task'[d][i].pc = "idle" /\ screen'[d] = "login")
          => (alert'[d] \/ user'[d] # NoUser)]_vars

\* createUserAccountIfNeeded, which prints "User document already exists." or
\* creates one: a username that the sheet accepted stays in its users document
\* until the player chooses another one.  Refuted by a run.
UsernameKept ==
  \A c \in confirmed : users[c.doc] # None /\ users[c.doc].username # None
=============================================================================
