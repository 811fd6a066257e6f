---------------------------- MODULE Leaderboards ----------------------------
(***************************************************************************)
(* The two leaderboards, and the submitAnswer cloud function, which is the *)
(* only other writer of the responses collection they read.                *)
(*                                                                         *)
(* The app's own writes are steps of AnswerBook, which GamePlay            *)
(* implements: responses/<username>/responses/<day> and streaks/<username>.*)
(* Setting a document does not create the one above it, so the documents   *)
(* directly in the responses collection are those that the function adds   *)
(* under ids of their own.                                                 *)
(***************************************************************************)
EXTENDS Trivia, Sequences, FiniteSets, SequencesExt

CONSTANTS
  Players,    \* usernames
  Calls,      \* requests to submitAnswer; also the ids of what they add
  UnknownDay, \* a date with no question, other than the ones in Days
  MaxStored,  \* bound: correct answers the app files in a behaviour
  MaxFiled    \* bound: places, of a player and a day, it files answers in

ASSUME LeaderboardsAssumption ==
  /\ None \notin Players \cup Calls \cup {UnknownDay}
  /\ UnknownDay \notin Days
  /\ Players \cap Calls = {}
  /\ IsFiniteSet(Players \cup Calls)
  /\ MaxStored \in Nat
  /\ MaxFiled \in Nat

VARIABLES
  responses, streaks, stored,  \* the documents of AnswerBook
  recorded,  \* id -> the document the function added under it, or None
  call,      \* call -> state of its handler
  view,      \* the LeaderboardView of one phone and its task
  cache      \* what the phone's last queries that reached the backend saw

book == <<responses, streaks, stored>>
function == <<recorded, call>>
vars == <<responses, streaks, stored, recorded, call, view, cache>>

Book == INSTANCE AnswerBook

\* Documents that can stand directly in the responses collection.
Ids == Players \cup Calls
Document ==
  [userId : Players, date : Days, userAnswer : Texts, correct : BOOLEAN]
Reply == {None, 200, 400, 404, 500}
Entry == [username : Players \cup Calls, value : Nat]

ASSUME NoneAssumption ==
  None \notin Nat /\ None \notin Document

NoRequest == [userId |-> None, userAnswer |-> None, date |-> None]
NewCall == [pc |-> "new", request |-> NoRequest, reply |-> None,
            shown |-> FALSE]
\* correct, streak: the entries on the two boards; todo, counts: the loop of
\* fetchCorrectAnswersLeaderboard; threw: the boards that "Failed to load".
NoView == [pc |-> "closed", isLoading |-> FALSE, todo |-> {}, counts |-> {},
           correct |-> <<>>, streak |-> <<>>, threw |-> {}]

Init ==
  /\ Book!Init
  /\ recorded = [c \in Ids |-> None]
  /\ call = [c \in Calls |-> NewCall]
  /\ view = NoView
  /\ cache = [users |-> {}, correct |-> [u \in Ids |-> 0],
              streaks |-> [p \in Players |-> None]]

\* A response or a streak of the app reaches the backend.
Play ==
  /\ Book!Next
  /\ stored' <= MaxStored
  /\ Cardinality({x \in Players \X Days : responses[x[1]][x[2]] # None})'
       <= MaxFiled
  /\ UNCHANGED <<function, view, cache>>

-----------------------------------------------------------------------------
(* submitAnswer of index.ts *)

\* res.json or res.status(...).json, and the end of the handler.
Respond(c, reply, shown) ==
  call' = [call EXCEPT ![c] =
    [NewCall EXCEPT !.pc = "over", !.reply = reply, !.shown = shown]]

\* Mutant: nobody asks for the user.
MissingIfAnonymous(r) ==
  None \in {r.userAnswer, r.date} \/ r.userAnswer = Empty

\* !userId || !userAnswer || !date: the empty string is missing too.
Missing(r) == None \in {r.userId, r.userAnswer, r.date} \/ r.userAnswer = Empty

\* A request comes in, one that was sent before and went unanswered perhaps.
Request(c, r) ==
  /\ call[c].pc = "new"
  /\ IF Missing(r) THEN Respond(c, 400, FALSE)
     ELSE call' = [call EXCEPT ![c] =
            [@ EXCEPT !.pc = "question", !.request = r]]
  /\ UNCHANGED <<book, recorded, view, cache>>

\* The question was read: it is missing, has no correctAnswer, or the graded
\* answer is added next.
QuestionRead(c) ==
  LET date == call[c].request.date
      correctAnswer == IF date \in Days THEN CorrectAnswer[date] ELSE None
  IN /\ call[c].pc = "question"
     /\ \/ correctAnswer = None /\ Respond(c, 404, FALSE)
        \/ correctAnswer = Empty /\ Respond(c, 500, FALSE)
        \/ /\ correctAnswer \notin {None, Empty}
           /\ call' = [call EXCEPT ![c].pc = "add"]
     /\ UNCHANGED <<book, recorded, view, cache>>

\* The document the function adds.
Response(r) ==
  [userId |-> r.userId, date |-> r.date, userAnswer |-> r.userAnswer,
   correct |-> IsCorrect(r.date, r.userAnswer)]

\* Mutant: the document is set under the user instead of an id of its own.
NewIdOfUser(c) == call[c].request.userId

\* collection("responses").add makes an id that nothing else has.
NewId(c) == c

\* The document is added; the handler has not heard of it yet.
Add(c) ==
  /\ call[c].pc = "add"
  /\ call' = [call EXCEPT ![c].pc = "added"]
  /\ recorded' = [recorded EXCEPT ![NewId(c)] = Response(call[c].request)]
  /\ UNCHANGED <<book, view, cache>>

\* Mutant: the add is not awaited.
AnsweredUnawaited(c) ==
  LET r == call[c].request IN
  /\ call[c].pc \in {"add", "added"}
  /\ Respond(c, 200, ~IsCorrect(r.date, r.userAnswer))
  /\ UNCHANGED <<book, recorded, view, cache>>

\* The await of add returns, and a wrong answer is told the right one.
Answered(c) ==
  LET r == call[c].request IN
  /\ call[c].pc = "added"
  /\ Respond(c, 200, ~IsCorrect(r.date, r.userAnswer))
  /\ UNCHANGED <<book, recorded, view, cache>>

\* A call to Firestore throws, before or after the backend added the document.
Throw(c) ==
  /\ call[c].pc \in {"question", "add", "added"}
  /\ Respond(c, 500, FALSE)
  /\ UNCHANGED <<book, recorded, view, cache>>

-----------------------------------------------------------------------------
(* LeaderboardView and the queries of GameService *)

\* LeaderboardView appears and its task asks for the responses collection.
Open ==
  /\ view.pc = "closed"
  /\ view' = [NoView EXCEPT !.pc = "users", !.isLoading = TRUE]
  /\ UNCHANGED <<book, function, cache>>

\* The Close Leaderboard button; what the task still does, nobody sees.
Close ==
  /\ view.pc # "closed"
  /\ view' = NoView
  /\ UNCHANGED <<book, function, cache>>

\* A board as it can come out of the sort by value.
Sorted(board) ==
  {s \in SetToSeqs(board) :
     \A i, j \in DOMAIN s : i < j => s[i].value >= s[j].value}

\* Mutant: the spinner is left to the catch blocks.
FinishStillLoading(v) == [v EXCEPT !.pc = "shown"]

\* Both boards were asked for: isLoading = false.
Finish(v) == [v EXCEPT !.pc = "shown", !.isLoading = FALSE]

\* A load function catches what its fetch throws, prints, and ends the
\* spinner.
Caught(v, board) ==
  [v EXCEPT !.isLoading = FALSE, !.todo = {}, !.counts = {},
            !.threw = @ \cup {board}]

\* Mutant: one do block around both fetches.
QueryFailsForBoth ==
  /\ \/ /\ view.pc = "users" \/ view.todo # {}
        /\ view' = Finish(Caught(view, "correct"))
     \/ /\ view.pc = "streaks"
        /\ view' = Finish(Caught(view, "streak"))
  /\ UNCHANGED <<book, function, cache>>

\* A query throws; the task goes on with the other board.
QueryFails ==
  /\ \/ /\ view.pc = "users" \/ view.todo # {}
        /\ view' = [Caught(view, "correct") EXCEPT !.pc = "streaks"]
     \/ /\ view.pc = "streaks"
        /\ view' = Finish(Caught(view, "streak"))
  /\ UNCHANGED <<book, function, cache>>

\* The documents of the responses collection, from the backend or, offline,
\* from the cache.  They are taken for the users.
UsersReply ==
  /\ view.pc = "users"
  /\ \/ cache' = [cache EXCEPT !.users = {c \in Ids : recorded[c] # None}]
     \/ UNCHANGED cache
  /\ view' = [view EXCEPT !.pc = "correct", !.todo = cache'.users]
  /\ UNCHANGED <<book, function>>

\* responses/<u>/responses where answerOutcome is true.
CorrectCount(u) ==
  IF u \notin Players THEN 0
  ELSE Cardinality({k \in Days : responses[u][k] # None
                                   /\ responses[u][k].answerOutcome})

\* One turn of the loop over the users.
CorrectReply(u) ==
  /\ view.pc = "correct"
  /\ u \in view.todo
  /\ \/ cache' = [cache EXCEPT !.correct[u] = CorrectCount(u)]
     \/ UNCHANGED cache
  /\ view' = [view EXCEPT
       !.todo = @ \ {u},
       !.counts = @ \cup {e \in {[username |-> u, value |-> cache'.correct[u]]}
                            : e.value > 0}]
  /\ UNCHANGED <<book, function>>

\* The loop is over: the board is sorted and shown, the streaks are next.
CorrectLoaded ==
  /\ view.pc = "correct"
  /\ view.todo = {}
  /\ \E s \in Sorted(view.counts) :
       view' = [view EXCEPT !.pc = "streaks", !.correct = s, !.counts = {}]
  /\ UNCHANGED <<book, function, cache>>

\* The streaks collection: one document per username, so the sum per username
\* is its streak; zeros are dropped.
StreakEntries(docs) ==
  {[username |-> p, value |-> docs[p]] :
     p \in {q \in Players : docs[q] \notin {None, 0}}}

StreaksReply ==
  /\ view.pc = "streaks"
  /\ \/ cache' = [cache EXCEPT !.streaks = streaks]
     \/ UNCHANGED cache
  /\ \E s \in Sorted(StreakEntries(cache'.streaks)) :
       view' = Finish([view EXCEPT !.streak = s])
  /\ UNCHANGED <<book, function>>

-----------------------------------------------------------------------------
Requests == [userId : Players \cup {None}, userAnswer : Texts \cup {None},
             date : Days \cup {UnknownDay, None}]

ViewStep ==
  \/ QueryFails
  \/ UsersReply
  \/ \E u \in Ids : CorrectReply(u)
  \/ CorrectLoaded
  \/ StreaksReply

Next ==
  \/ Play
  \/ \E c \in Calls :
       \/ \E r \in Requests : Request(c, r)
       \/ QuestionRead(c)
       \/ Add(c)
       \/ Answered(c)
       \/ Throw(c)
  \/ Open
  \/ Close
  \/ ViewStep

Spec == Init /\ [][Next]_vars

\* Queries return or throw, and the task of the view goes on.
FairSpec == Spec /\ WF_vars(ViewStep)

-----------------------------------------------------------------------------
(* Properties *)

\* Every variable keeps its shape; in particular what the function adds has a
\* user, an answer, and the date of a question.
TypeOK ==
  /\ stored \in 0..MaxStored
  /\ recorded \in [Ids -> Document \cup {None}]
  /\ call \in [Calls ->
       [pc : {"new", "question", "add", "added", "over"},
        request : Requests, reply : Reply, shown : BOOLEAN]]
  /\ view \in
       [pc : {"closed", "users", "correct", "streaks", "shown"},
        isLoading : BOOLEAN, todo : SUBSET Ids, counts : SUBSET Entry,
        correct : Seq(Entry), streak : Seq(Entry),
        threw : SUBSET {"correct", "streak"}]
  /\ cache \in [users : SUBSET Ids, correct : [Ids -> Nat],
                streaks : [Players -> Nat \cup {None}]]

\* "this doesn't work, and hasn't worked with the new data structure": the
\* Most Correct board lists nobody, however many correct answers are stored,
\* since the users it finds are documents of the function, which have no
\* responses below them.
MostCorrectEmpty == view.correct = <<>>

\* The two boards fail apart: once the task of the view has ended, and unless
\* the streaks query itself threw, the Longest Streak board lists each player
\* whose streak document, as the phone last saw it, is not 0, once, with that
\* number and in descending order, and nobody else, whatever became of the
\* queries for the Most Correct board before it.
StreakBoardListed ==
  LET board == view.streak
      On(p, i) == board[i] = [username |-> p, value |-> cache.streaks[p]]
  IN view.pc = "shown" /\ "streak" \notin view.threw =>
       /\ \A p \in Players :
            cache.streaks[p] \notin {None, 0} <=>
              \E i \in DOMAIN board : On(p, i)
       /\ \A i \in DOMAIN board : \E p \in Players : On(p, i)
       /\ \A i, j \in DOMAIN board : i < j =>
            /\ board[i].value >= board[j].value
            /\ board[i].username # board[j].username

\* What the function answers is what it did: 200 only after the graded answer
\* is in the responses collection, with the right answer told to those whose
\* document says they were wrong, 400 and 404 only if nothing was added.  (A
\* 500 leaves both possible.)
AnsweredRecorded ==
  \A c \in Calls :
    /\ call[c].reply = 200 =>
         recorded[c] # None /\ call[c].shown = ~recorded[c].correct
    /\ call[c].reply \in {400, 404} => recorded[c] = None

\* The leaderboard's spinner goes away, whichever of its queries throw.
LoadingStops == view.isLoading ~> ~view.isLoading
=============================================================================
