# daily-trivia: a TLA+ verification project

daily-trivia is an iOS app (SwiftUI + Firebase) in which a player signs in,
answers one question a day, and keeps a streak. This directory holds TLA+
modules translated from its Swift source, the TLC configurations that check
them on small instances, and TLAPS proofs of what the runs check, for every instance.

    tlc -workers 2 -config GamePlayOne.cfg MCGamePlay    # one run
    tlapm GamePlayProofs.tla                             # one module's proofs

Paths below are relative to `src/daily-trivia/daily-trivia/`; those of the
Firestore SDK to `src/daily-trivia/Pods/FirebaseFirestoreInternal/Firestore/core/src/`.

## 1. The system

The app's own code is about 1,700 lines of Swift and TypeScript; everything under
`Pods/` is vendored. There are no tests. The intended behaviour is read from the
texts the screens show, from comments, and from the code.

Of the roughly 1.2 million lines of C, C++ and Objective-C in `Pods/`, nearly all
are cryptography, transport, generated tables and protocol buffers that this app
reaches only through one door: the Firestore SDK. What the app's correctness
really depends on there is what becomes of a `setData`, so that path of the SDK is
modelled from its source (`WritePipeline`), and the rest is not. The share of all
lines in the repository that the modules stand for is therefore small and will
stay so; the share of the app's own operations is nearly all.

| Part | State | Operations | Talks to |
|---|---|---|---|
| **Game view** `Views/Game/TriviaGameView.swift` | `isLoading`, `showUsernameEntry`, `answerText`, `warnedAboutEmptyAnswer` | `onAppear` (load), `submitAnswer`, logout button, leaderboard cover | calls GameService and AuthService, each time in a new `Task` |
| **GameService** `Services/GameService.swift` | `currentQuestion`, `submittedAnswer`, `lastSeenDate` (AppStorage) | `fetchTodaysQuestion`, `checkResponseExists`, `submitAnswer`, `refreshData`, `submitAnswerForManualReview`, two leaderboard queries | Firestore `questions`, `responses`, `streaks`, `manualReviews` |
| **AuthService** `Services/AuthService.swift` | `currentUser` (a class: account, username, streak), `isUserLoggedIn` | `signIn`, `signUp`, `logout`, `fetchUsername`, `fetchUserStreak`, `updateCurrentUsersStreak`, `createUserAccount...`, `submitUsername` | Firebase Auth, Firestore `users`, `streaks` |
| **App and LoginView** `App/`, `Views/Login/` | form fields, alerts | Login button, restored Firebase session, Google sign-in, registration | AuthService |
| **Result screens** `Views/Game/ResultViews/` | sheet flag | show the outcome and the streak; open a manual review | AuthService, ManualReviewView |
| **Manual review** `ManualReviewView.swift` | note, `activeAlert` | `submitForManualReview` | GameService |
| **Leaderboards** `Views/Leaderboard/` | entries of two boards, `isLoading` | one task that fetches both | GameService |
| **Cloud function** `src/functions/src/index.ts` | none | `submitAnswer` over HTTP | Firestore; never called by the app |
| **Firestore SDK, write path** `core/`, `local/`, `remote/`, `credentials/` | mutation queues per user in LevelDB, write pipeline, write stream, callbacks, user | `WriteMutations`, credential change, stream events, timers, restart | FirebaseAuth, backend |
| **Models, extensions** | none | day key `yyyyMMdd`, email sanitising, async wrappers | used by all |

What makes it hard:

* **Interleaving.** Every tap, appearance and sign-in is a `Task` of its own,
  none is ever cancelled, and a task outlives the view that started it. View
  and GameService code runs on the main actor; AuthService's plain `async`
  functions do not.
* **State read before an `await` and used after it.** The streak, the username,
  `currentUser` itself and the calendar day can all change in between.
* **Two writes that belong together** (response, then streak), each of which
  can be refused, and between which the process can die.
* **Firestore's offline behaviour.** Writes are queued on disk *per Firebase user*,
  survive the process, and are sent later with no task waiting for them, perhaps
  more than once. A queue is parked while another user is signed in. Reads show
  the pending writes of the user signed in.
* **Tokens and users.** FirebaseAuth changes its user on its own queue; Firestore
  hears of it, and gets its tokens, through the main queue.
* **Midnight** while a question is on screen or a load is in flight.
* **Several phones and players**: one player on two phones, two on one phone.

The properties that make each part correct: a stored response is graded against
the question it is dated by; a streak is paid for by correct responses; the
streak is touched only after the response is stored; a load or submission always
ends; a users document keeps its username; what a screen says is true of the player
it is said to; a write the app was told is done is on the backend, and was sent as
the user who made it. `PROJECT.json`
lists the hazards, each at its line, with the properties that cover it.

## 2. Modules

| Module | What it is |
|---|---|
| `Trivia` | Shared data: days, questions, texts, grading. |
| `AnswerBook` | Abstract specification of the documents: graded answers are filed, earned streaks are set. No devices, no tasks. |
| `GamePlay`, `MCGamePlay` | The core: email, Google and restored sign-ins of players who have a username, load, answer, streak, logout, crash, over Firestore. Implements `AnswerBook`. |
| `MCAskedAgain` | `GamePlay` with a history of the result screens that were shown. |
| `GamePlayProofs` | Theorems about `GamePlay`: its types, what is on file, the spinner. |
| `GamePlayStreakProofs` | Extends it: answers and streaks, and that `GamePlay` implements `AnswerBook`. |
| `Session`, `MCSession` | Accounts, the three ways to sign in, restored sessions, the users documents, the username sheet, logout, crash. |
| `SessionProofs` | Theorems about `Session`. |
| `ManualReview`, `MCManualReview` | The query-then-write of a manual review, and the alerts of its sheet. |
| `ManualReviewProofs` | Theorems about `ManualReview`. |
| `Leaderboards`, `MCLeaderboards` | `AnswerBook` composed with a LeaderboardView and the cloud function, which share the responses collection. |
| `LeaderboardsProofs` | Theorems about `Leaderboards`. |
| `WriteQueue` | Abstract specification of `setData`: a persistent queue per user, served in order, at least once. |
| `WritePipeline`, `MCWritePipeline` | The write path of the SDK. Implements `WriteQueue`. |
| `WritePipelineProofs` | Theorems about `WritePipeline`. |
| `WritePromiseProofs` | Extends it: that `WritePipeline` implements `WriteQueue`. |

The layers meet at two abstract specifications. `WritePipeline` implements
`WriteQueue`, whose queue GamePlay, Session and ManualReview use in place of the
SDK. `GamePlay` implements `AnswerBook`, which Leaderboards uses in place of the
game.

### How GamePlay corresponds to the code

Each Swift `Task` is a record in a slot of its device: `login` (Login button, Google
button and restored session), `load` (`onAppear`), `submit` (the Submit button). `pc` says
which `await` it is at, `io` whether that call is still out (`sent`), answered
(`done`) or failed. **One action is the code between two awaits.** The network
serves a read, applies a write or answers it at a moment of its own (`ServeLogin`,
`ServeLoad`, `ApplyResponse`, `ApplyStreak`, `Acknowledge`, `Reject`); the
continuation runs later. So a value read at one action can be stale at the next.

| Code | Actions |
|---|---|
| `TriviaGameView.onAppear`, with `refreshData`, `loadQuestion`, `fetchTodaysQuestion` and `checkResponseExists` inlined | `OpenGame`/`Reappear` (both through `OnAppear`), `QuestionReply`, `Unchecked`, `ResponseReply`, `ResponseFailed` |
| `TriviaGameView.submitAnswer` with `GameService.submitAnswer` and `AuthService.updateCurrentUsersStreak` inlined | `TapSubmit`, `SubmitAnswer`, `AnswerReply`, `UpdateCurrentUsersStreak`, `StreakSaved`, `SubmitReturns` |
| `daily_triviaApp.onAppear`; the Login and Google buttons of `LoginView`; `signIn` | `Appear`; `TapSignIn`, `ServeSignIn`; `Enter` |
| `createUserAccountFromGoogleIfNeeded`, `fetchUsername`, `fetchUserStreak` | `GetReply`, `NameReply`, `FetchUserStreak`, `StreakReply`, `StreakCreated` |
| `AuthService.logout` | `Logout` (`signOut` may throw after the rest was done) |

*Executors.* `MainActorFree(d)` guards continuations on the main actor: a
freshly tapped submit task is already queued there and runs first. The loads
that find no username do not suspend between `checkResponseExists` and the
`showUsernameEntry` assignment (`MainActorBusy`), but `fetchUsername`, on
another thread, can still set the name there; `Unchecked` is that second half.
AuthService's non-isolated functions take no such guard.

*Sign-ins under the game.* A sign-in task sets `currentUser` when it gets there,
whatever is on screen. The Google button does it twice: from the decoded users
document, which has the name and opens the game, and then, in `handleSignInButton`,
with a `User(googleUser:)` that has none until `fetchUsername` returns once more
(`Enter` at `replace`). Between the two the game can be open over a nameless user.

*Firestore* is what `WriteQueue` promises: `outbox` has a persistent FIFO queue per
Firebase user, of which the one signed in (`authUser`) is appended to, read through
(`StreakSeen`, `ResponseSeen`) and served. A write has the slot that awaits it in
`by`, which a crash erases; the backend may apply it again until the phone has its
answer (`applied`), and may refuse it even then. The SDK is taken to change its user
in the same step as FirebaseAuth; the delay between the two is in `WritePipeline`.
`merge: true` on a streak document changes nothing here since both of its fields are
written.

*Abstractions.* A day is the number behind its `yyyyMMdd` key, and
`questions/<k>` has `date = k`. A text is one of a small set; the program can tell
only which texts clean to the same thing (`Cleaned`) and which are blank
(`BlankTexts`, tested with `warnedAboutEmptyAnswer`). An account is identified
with the username its `users` document holds. Alerts with error messages are left
out. A view closed by `Logout` keeps running tasks (`live = FALSE`), whose effects
on its detached state are dropped. An offline read of a document is a failed read.
`Reappear` takes the closing of the leaderboard's full-screen cover to fire
`onAppear` again.

### How Session corresponds to the code

A sign-in is a task in a slot of its device (`flow` says which button or `onAppear`
it came from), and, as in GamePlay, an action is the code between two awaits.

| Code | Actions |
|---|---|
| `daily_triviaApp.onAppear`, `onChange(of: currentUser)` | `Appear`, `OpenGame` |
| LoginView's buttons and alert | `EmptyForm`, `DismissAlert`, `Login`, `Register`, `Google`; the catch blocks are `Fail` |
| `signUp`, `signIn` | `ServeAuth`, `AuthReply`, `Enter` |
| `createUserAccountIfNeeded`, `createUserAccountFromGoogleIfNeeded` | `GetReply`, `CreateReply` |
| the second assignment of `currentUser` in `handleSignInButton` | `Replace` |
| `fetchUsername` | `NameReply` |
| `onAppear` of the game, as far as the sheet is concerned | `Loaded`, `Reappear` |
| CreateUsernameSheet, `submitUsername` | `TapUsername`, `SubmitUsername`; `UsernameSaved`, where the name is assigned off the main actor; then, back on it, `UsernameReply` |
| `logout` | `Logout` |

`Key` is `sanitizedEmail()`, under which several emails may have one document. A
users document is abstracted to whether `User` can be decoded from it and to its
username: `After` is the set without merge of an account creation, or the merge of
a username. A Google session is not a Firebase session, so its writes go to the
queue of nobody. A reply to a LoginView that is gone is dropped (`live`). A Google
button that comes back without an account shows an alert, as `EmptyForm` does.
`fetchUserStreak` at the end of each sign-in is in GamePlay. Validity of a username
is membership in `Names`.

One consequence of the code is visible in every state graph of this module:
`signUp` signs the new Firebase user in, so when the `signIn` after it fails, a
Firebase user without a `currentUser` stays behind, and a Google sign-in still
waiting for its write is then parked until that user is signed out.

### How ManualReview corresponds to the code

`OpenSheet` is the button of IncorrectAnswerView, `TapSubmit` the Submit button.
`ServeQuery` answers `getDocuments` from the backend, or, offline, from the
device's cache (`seen`), both overlaid with pending writes. `QueryReply` is the
loop over the documents with its early `return false`, and the construction of the
document; `WriteReply` is what follows `setDataAsync`; `Finish` sets `activeAlert`.
Offline answers are modelled here because a query, unlike `getDocument` of an
uncached document, succeeds offline. The two evaluations of `Date()` inside
`submitAnswerForManualReview` are taken to see the same day.
The note stands for everything in a review that tells two submissions apart.
A write that was sent again makes the ones behind it be sent again before they are
acknowledged (`due`), as `WritePipeline` does. The backend may refuse any write, also
one that it had accepted before and that is sent again. The Submit button is never
disabled: each tap is a task of its own, in any free slot.

### How Leaderboards corresponds to the code

`Play` is a step of `AnswerBook`. `Request`, `QuestionRead`, `Add`, `Answered` and
`Throw` are the handler of `functions/src/index.ts` between its awaits, with all of
its replies. `Open`, `UsersReply`, `CorrectReply` (one turn of the loop),
`CorrectLoaded`, `StreaksReply` and `QueryFails` are LeaderboardView's task with
both fetches inlined; a query is answered by the backend, by the phone's cache or
with an error. Each fetch has its own `do`/`catch` (`Caught`, which notes the board
in `threw`), so an error of the first leaves the second to be asked.
The decisive fact about Firestore is that setting
`responses/<name>/responses/<day>` does not create `responses/<name>`: the only
documents directly in `responses` are those the function adds. Boards are sorted by
value; equal values come in any order. The phone's own pending writes are left out.

### How WritePipeline corresponds to the code

SyncEngine, LocalStore, RemoteStore and Stream run on one worker queue, so each of
their operations is one action; `net` is the state of RemoteStore and its write
stream, and operators on it keep the names of the C++ functions. `main` and `worker`
are the two dispatch queues that credential changes and tokens pass through.

| Code | Actions and operators |
|---|---|
| `SyncEngine::WriteMutations`, `LocalStore::WriteLocally`, `AddMutationBatch` | `WriteMutations` |
| `RemoteStore` pipeline and stream callbacks | `FillWritePipeline`, `AddToWritePipeline`, `HandshakeReply`, `MutationReply`, `StreamRefused`, `StreamBreaks`, `StreamEnds`, `ConnectivityChanged` |
| `Stream` state machine | `Start`, `ResumeStartWithCredentials`, `Close`, `Stop`, `BackoffElapsed`, `IdleTimeout` |
| `FirebaseAuthCredentialsProvider` and `Auth` | `UpdateCurrentUser`, `ReadCurrentUser`, `DeliverToken`, `RunMain` |
| `SyncEngine::HandleCredentialChange` down to `RestartNetwork` | `HandleCredentialChange` |
| `FirestoreClient::Initialize` in a new process | `Crash` |

Requests the backend has not taken when a stream ends are lost. A stream that the
backend ends with status OK stops (`StreamEnds`); if it did so with writes pending, the
assertion of `OnWriteStreamClose` would end the process, which is a `Crash`. Nothing
in the SDK excludes that, so it is no part of `HardAsserts`. The stream token is
left out (the handshake does not send one). `Healthy` is merged with `Open`: it
differs only in resetting the backoff delay, and delays are not modelled.
`is_network_enabled_` changes only inside `RestartNetwork`, which is one step.
The check of `token_counter` is kept although, given `close_count_` and the order of
the main queue, the model shows the same results without it.

## 3. Runs

### Passing

| Run | Instance | Shows |
|---|---|---|
| `one_device` | 1 phone, 1 player, 2 days, 2 submit slots, crashes | `TypeOK`; `GradedAndFiled`: each response on file is graded against the question of its own date and filed on that day or later; `AnswerBeforeStreak`: when a submission has gone on to the streak, a response is on file under the name and day it filed under; `QuestionOfLastSeenDay`: with one load at a time, `refreshData` never leaves an older question behind; `ImplementsBook`: GamePlay refines AnswerBook |
| `shared_phone` | 1 phone, 2 players, sign-in tasks and queues of an earlier session still there, no crashes | `AnswerBeforeStreak`, `StreakEarned`: no streak, stored or shown, exceeds the number of correct responses that were stored |
| `overlapping_loads` | 1 phone, 2 days, two loads, a submission and a Google sign-in in flight, fairness | `SpinnerStops`: the Loading spinner goes away while a load or a submission is at work; `SpinnerOwned`: a spinner with nobody at work comes about only by a Submit without a username |
| `review` | 2 phones, 1 username, 2 days, 2 overlapping submissions, refused and re-sent writes, offline queries, crashes, fairness | `TypeOK`; `ConfirmedOnFile`: after a confirmation there is a review on file for good, and the phone that confirmed never puts one of an earlier day in its place; `SubmissionAnswered`: each submission brings up an alert, unless its sheet is closed |
| `session` | 1 phone, 2 emails, 2 usernames, 2 overlapping sign-ins of any kind, crashes | `TypeOK` (a late name never makes a user of nobody); `NameReachedFirst`: the sheet is dismissed only over a name that reached the document it was submitted for; `SignInAnswered`: a sign-in task ends with a user or an alert |
| `leaderboards` | 2 players, 1 call of the function, 2 days (one question incomplete), fairness | `TypeOK`; `MostCorrectEmpty`: the board nobody can be on, as the developer's comment says; `StreakBoardListed`: the other board lists every streak the phone last saw, once and in order, although the first board failed; `AnsweredRecorded`: the function's replies are true of what it stored; `LoadingStops` |
| `pipeline` | 2 users, 3 writes to 2 documents, pipeline of 2, 3 faults of any kind | `TypeOK`; `AnswersInStep`: answers matched by position are matched right; `SentAsOwner`: a stream carries the token of the user whose writes it sends; `HardAsserts`: the SDK's assertions hold; `CallbacksMatch`: an await is resumed by its own write, although batch ids are used again; `LastAckedKept`: re-sending leaves no document behind the times; `KeepsPromise`: WritePipeline refines WriteQueue |
| `pipeline_live` | 2 users, 2 writes, pipeline of 1, 2 faults, fairness | `QueueDrains`: the queue of a user who stays signed in is emptied |

Every property has a mutant: a plausible bug put into one definition, under which
TLC finds the property violated.

What these properties do not say. `StreakEarned` and `ImplementsBook` bound a streak
from above, and by the correct responses of all players together (`stored`): a streak
that is too low, because the second write was lost, because two phones each added 1 to
the same number, or because the player was signed out in between, satisfies them; the
code does all three. `AnswerBeforeStreak` asks for a response under the key, which a
second submission may have replaced. The third clause of `HardAsserts`, about answers,
already follows from `AnswersInStep`; the other two do not.

### Violated: where the code does not do what the app says

| Run | The app says | What happens |
|---|---|---|
| `streak_counts_days` | "Your streak is now ... days" | two quick taps on Submit Answer: two responses, +2 on one day |
| `not_asked_again` | "Come back tomorrow to play again!" (and the comment "totally broken, asks me to answer teh question every login") | the result was shown; the process is killed, the session is restored, and the question arrives before the username, so that the check for a stored response is skipped; then the name arrives and the question is asked again |
| `username_kept` | "Create a username to get started.", and "User document already exists." for an account that has one | one phone registers by email; while `createUserAccountIfNeeded` has its answer that there is no document, the sheet is up, a username is typed and stored; then the account creation replaces the document |
| `second_review` | "You have already submitted an answer for review today." | two taps on Submit: both tasks look before either writes, and both are confirmed |

Other disagreements of the same kind are reachable in the modules and have no run of
their own: "Your streak has been reset to ..." with the old number, when the streak
write after a wrong answer is refused; "Today's Question:" over yesterday's, when
midnight passes with the view open (its answer is then filed under today's key,
which `GradedAndFiled` allows for); "Welcome back ...!" with the name of the previous
player, when a `fetchUsername` outlives its session; a "Create a username" sheet for a
player who has one, by the race of `not_asked_again`; a confirmed review replaced by
another one, of the same day or the next; a username sheet that cannot be left after a
refused write; and "Loading..." for good, when Submit is tapped over a user whom a
Google sign-in has just replaced by a nameless one (`submitAnswer` sets `isLoading`
before it unwraps the username, and has no `else`; `SpinnerOwned` shows that this is
the only way).

`CHECK_DEADLOCK FALSE` is set throughout: taps, days and appearances are bounded,
so every behaviour ends.

### Bounds

`MaxDay = 2` has one midnight, the only boundary the code compares across.
`MaxTaps = 2` and two submit slots make the double tap; with the blank text they
also make "warned, then submitted blank". `MaxOpens = 2` has a view appear again,
or a second session; `MaxOutbox = 2` has one write overtaken by no other but
queued behind it (a response behind another response or behind a streak). `one_device`
has no question on the second day, so that the missing one is asked for too; the
other runs have one on each. `Buttons` and `MaxSignIns` choose the sign-ins: email in
the runs about documents, which lets two overlap in `shared_phone`, and Google in
`overlapping_loads`, whose second assignment of `currentUser` is the hazard there.
`shared_phone` has no crashes (`MayCrash`), and its state constraint `SignOutWorks`
leaves out a `signOut` that throws; `one_device` has both, and any number of crashes. Two phones with one player are too large to check beside the
rest; `StreaksAreEarned` and `BookImplemented` cover any number of phones.

`review` has the smallest numbers with two submissions of one phone, or of two phones,
overlapping on one document, over two days; `second_review` needs one phone and one
day only. `session` has sign-ins and crashes limited together to two (`MaxAttempts`),
restored sessions besides, two emails with a document each, so that a name can be
submitted for the one and confirmed under the other, and two places per queue. It has
one task of the Submit button. `username_kept` has one phone, one email and one
attempt. `leaderboards` has two players so that a board has an order to get wrong;
`MaxFiled` limits the places the game files answers in, `MaxStored` how often it does.
`pipeline` has the smallest numbers with a write behind a full pipeline, two writes to
one document, and a fault during the recovery from a fault during the recovery from
one.

Symmetry is over devices, players, emails, slots and users, which no definition
tells apart, and is not used in the runs that check liveness. `pipeline` uses a view
that replaces readings of `close_count_` and `token_counter` by whether they are up to
date: they are only ever compared with a later reading of the same counter, so states
that differ in the numbers alone have the same futures.

### Fairness

`FairSpec` of GamePlay, ManualReview and Leaderboards has weak fairness of each
task's steps (the Swift runtime resumes continuations and starts queued tasks, a
query returns or throws) and of the answer to a queued write. The latter assumes
connectivity: `setData` on a phone that stays offline never returns, and then the
spinner does not stop. `pipeline_live` is where the SDK's part of this assumption is
checked: FirebaseAuth answers, the dispatch queues and the backoff timer run, and the
backend answers. Players, midnight, faults and crashes have no fairness.

## 4. Proofs

Every safety property the passing runs check, invariant, action property or
refinement, except `QuestionOfLastSeenDay`, is also a theorem, for every value of the
constants: any number of phones, players, slots, days, texts and taps, and every bound.
`PROJECT.json` lists them under `theorems`. Each follows from an inductive invariant;
what each of these adds to the property is what a reader of the code would have to keep
in mind.

### GamePlay

* **`TypeCorrect`** (`TypeOK`). The task types carry the only guards the code has
  against a nil username: a pending read names a player.
* **`FilingCorrect`** (`GradedAndFiled`), by

      Filing == GradedAndFiled /\ WritesGraded /\ QuestionsHeld /\ LoadsOfThePast

  The property speaks of stored documents only, but a response is graded two steps
  and possibly a midnight before it is stored. `LoadsOfThePast`: a load asks for a day
  that is not in the future. `QuestionsHeld`: hence a question held by a view exists
  and is not of a future day. `WritesGraded`: hence a queued response, served or
  parked, awaited or not, is graded and dated no later than its key.
* **`SpinnersAreOwned`** (`SpinnerOwned`), by `QueuedAtQuestion`: a submission that has
  been tapped and not yet run belongs to the view on screen, and that view holds a
  question. So of the two things `submitAnswer` unwraps only the username can be nil.
* **`AnswerFirst`** (`AnswerBeforeStreak`), by `Delivery`. A write remembers the slot
  of its task and settling it wakes whatever is in that slot. So: each write of a
  submission is the one it awaits (`WritesAwaited`) and the only one in any queue of
  the phone (`OneWriteEach`); a response the backend has is on file; an acknowledged
  one is.
* **`StreaksAreEarned`** (`StreakEarned`), by `StreaksCovered`. The property is not
  inductive: two phones may both be about to add 1 to the same streak. Each of them
  holds a correct answer that is stored and not yet in a streak (`Uncredited`), and
  every streak anywhere (documents, screens, replies, tasks, queued writes) leaves
  room for all of those: `n + Cardinality(Uncredited) <= stored`.
* **`BookImplemented`** (`ImplementsBook`): GamePlay refines `AnswerBook`. An applied
  response is `File`, an applied streak `Keep`, and every other step a stutter;
  `Filing` and `StreaksCovered` are the guards of the abstract actions.

### Session

* **`TypeCorrect`**, and **`SignInsAreAnswered`** (`SignInAnswered`), by `Sound`: the
  types and, per phone, that a sign-in under way has an email; that while its
  LoginView is there the user it has set cannot have been logged out; that game and
  sheet are there for a user only; that a tap on the sheet holds it up until its task
  has run, and that one which can still dismiss a sheet finds it up.
* **`NamesReachFirst`** (`NameReachedFirst`), by `Inv == Sound /\ Delivered`.
  `Delivered` links the queues of a phone and its taps as `Delivery` does in GamePlay:
  every write of a tap, in whichever account's queue, is the one it awaits and the only
  one; an applied name is on record; an acknowledged one is.

What `getDocument` returns under pending writes, `Seen`, is a recursive function. Its
type is proved by taking the least index at which it would be wrong, since the
induction theorems of the library cannot be used here.

### ManualReview

* **`TypeCorrect`**, by `Shaped`, which adds what a task knows at each of its awaits.
* **`ConfirmedStays`** (`ConfirmedOnFile`), by `Shaped` and `OnFile`. A phone queues
  its reviews of a name in the order of days, and its clock only goes forward, so
  sending any of them again ends with the newest; but a re-sent write puts the document
  back for a while, also when the backend then refuses what comes behind it.
  `QueueSound` hence says that a write which is `due` is on file, or one of this phone
  that is not older; `WritesAwaited` that a write is confirmed by its own task only;
  `TaskSound` and `ConfirmedSound` that a review acknowledged or confirmed is `Behind`
  the document and everything still queued.

### Leaderboards

* **`TypeCorrect`**, **`RepliesAreTrue`** (`AnsweredRecorded`),
  **`MostCorrectStaysEmpty`** (`MostCorrectEmpty`) and **`StreakBoardIsListed`**
  (`StreakBoardListed`), by one invariant `Kept`: what the handler has added at each
  of its awaits (`CallsKept`); no document of a player stands directly in `responses`,
  on the backend, in the cache or in a fetch under way (`UsersUnfound`); a board that
  was fetched lists the streaks of the cache (`Listed`). That sorting a set by value
  gives a sequence with each member once needs the pigeonhole of `FiniteSetTheorems`.

### WritePipeline

* **`TypeCorrect`**, **`OwnerSends`** (`SentAsOwner`), **`AnswersStayInStep`**
  (`AnswersInStep`), **`AssertsHold`** (`HardAsserts`), **`CallbacksStayMatched`**
  (`CallbacksMatch`) and **`LastAckedStays`** (`LastAckedKept`), by
  `Inv == TypeOK /\ Stored /\ Streaming /\ Tracked /\ Delivered`.
  `Stored`: batch ids ascend in every queue and the next one is free. `Streaming`: the
  pipeline is the front of the current user's queue, and replies and requests in
  flight together are the pipeline (or the handshake). `Tracked`: at most one request
  for a token is about the stream there is; Firestore's user is FirebaseAuth's or news
  is on its way; a token that can still open the stream is the current user's, or comes
  behind such news. `Delivered`: what was answered was applied, and the last answer
  about a document tells what it holds.
* **`PromiseKept`** (`KeepsPromise`): WritePipeline refines `WriteQueue`.
  `WriteMutations` is `SetData`, the backend taking a request `Apply`, an answer
  `Leave`, a change of user `SwitchTo`, a new process `Restart`; the rest stutters.

The proof found one mistake of the model: `Crash` set `token_counter` back to 0 while
the stream that the new process starts in the same step asked for its token with the
old number. `Crash` now leaves the number alone: it is only compared with earlier
readings of the same process, and a crash discards those.

### Assumptions

On the constants: `DaysAssumption`, `TextsAssumption`, `QuestionsAssumption` (Trivia),
`SlotsAssumption` (GamePlay), `SessionAssumption`, `ReviewAssumption`,
`LeaderboardsAssumption`, `PipelineAssumption`; and `NoneAssumption` of GamePlay,
Session, ManualReview and Leaderboards: nil is none of the values it is told apart
from. All are named in the module that declares the constants, and TLC evaluates them
on every run.

### Only model-checked

Liveness (`SpinnerStops`, `SubmissionAnswered`, `LoadingStops`, `QueueDrains`), which
the prover does not do; the four counterexamples of section 3; and
`QuestionOfLastSeenDay`, which holds in `one_device` with its one load slot and is false
in general: of two overlapping `onAppear` tasks the older may be answered last, across a
midnight, and bring its question back.

## 5. Not modelled

* String conversions beyond what the properties tell apart: `sanitizedEmail` is any
  function of emails, the username rule a set, cleaning a function of texts.
* Layout, wording of error messages, logging; the empty `HistoricalResponsesService`.
* The SDK's read side (watch stream, views, query engine, caches, indexes), its
  transactions and its garbage collection: the app only calls `getDocument` and
  `getDocuments`, and what they can return is stated where they are used.
* gRPC, BoringSSL, abseil, leveldb, nanopb, GoogleSignIn and the other pods: general
  libraries below the modelled interfaces, none of whose state the app's behaviour
  depends on. A gRPC stream is a pair of FIFO channels that may break.

## 6. Plan

All safety properties of the runs that hold in general are proved. Left to do:

1. shorten the longest proofs (WritePipelineProofs, SessionProofs) by sharing lemmas
   about queues that GamePlay, Session and ManualReview each prove for themselves;
2. state what of the double tap does hold: a theorem about GamePlay with one submit
   slot, where a streak counts days;
3. action properties of the abstract specifications that their users rely on, such as
   that `WriteQueue` never reorders the writes of a user.
