------------------------- MODULE LeaderboardsProofs -------------------------
(***************************************************************************)
(* Theorems about Leaderboards, for every number of players, calls, days,  *)
(* texts and stored answers.                                               *)
(***************************************************************************)
EXTENDS Leaderboards, TLAPS, FiniteSetTheorems, SequenceTheorems

-----------------------------------------------------------------------------
(* The inductive invariant *)

\* How far a handler has come says what it knows of its request and what it
\* has added: nothing up to the add, and after it exactly the graded answer.
CallKept(c) ==
  LET r == call[c].request IN
  /\ call[c].pc \in {"new", "question", "add"} => recorded[c] = None
  /\ call[c].pc # "over" => call[c].reply = None
  /\ call[c].pc \in {"question", "add", "added"} => ~Missing(r)
  /\ call[c].pc \in {"add", "added"} => r.date \in Days
  /\ call[c].pc = "added" => recorded[c] = Response(r)

CallsKept == \A c \in Calls : CallKept(c)

\* No document of a player ever stands directly in the responses collection,
\* no query has found one there, and below what it found is nothing.
UsersUnfound ==
  /\ \A p \in Players : recorded[p] = None
  /\ cache.users \cap Players = {}
  /\ view.todo \cap Players = {}
  /\ \A c \in Calls : cache.correct[c] = 0
  /\ view.counts = {}

\* Streak documents are numbers.
StreaksTyped == streaks \in [Players -> Nat \cup {None}]

Kept ==
  /\ TypeOK
  /\ CallsKept
  /\ AnsweredRecorded
  /\ UsersUnfound
  /\ MostCorrectEmpty
  /\ StreaksTyped
  /\ StreakBoardListed

-----------------------------------------------------------------------------
(* The operators *)

\* There is nothing to sort on an empty board.
LEMMA SortedEmpty == Sorted({}) \subseteq {<<>>}
  <1>1. Cardinality({}) = 0
    BY FS_EmptySet
  <1>2. SetToSeqs({}) \subseteq [1..0 -> {}]
    BY <1>1 DEF SetToSeqs
  <1>3. ASSUME NEW s \in [1..0 -> {}] PROVE s = <<>>
    <2>1. s \in Seq({}) /\ Len(s) = 0
      BY LenProperties
    <2> QED BY <2>1, EmptySeq
  <1> QED BY <1>2, <1>3 DEF Sorted

\* What comes out of the sort of a finite board lists entries of the board.
LEMMA SortedType ==
  ASSUME NEW board, IsFiniteSet(board), NEW s \in Sorted(board)
  PROVE  /\ s \in Seq(board)
         /\ \A i \in DOMAIN s : s[i] \in board
  <1>1. Cardinality(board) \in Nat
    BY FS_CardinalityType
  <1>2. s \in [1..Cardinality(board) -> board]
    BY DEF Sorted, SetToSeqs
  <1> QED BY <1>1, <1>2

\* The streak board has an entry for a player with a streak, and no others.
LEMMA StreakEntriesFinite ==
  ASSUME NEW docs
  PROVE  IsFiniteSet(StreakEntries(docs))
  <1> DEFINE listed == {q \in Players : docs[q] \notin {None, 0}}
             f == [p \in listed |-> [username |-> p, value |-> docs[p]]]
  <1>1. IsFiniteSet(listed)
    BY FS_Subset, LeaderboardsAssumption
  <1>2. f \in Surjection(listed, StreakEntries(docs))
    BY DEF Surjection, StreakEntries
  <1> QED BY <1>1, <1>2, FS_Surjection

\* Streaks are listed with the number their document has.
LEMMA StreakEntriesType ==
  ASSUME NEW docs \in [Players -> Nat \cup {None}]
  PROVE  StreakEntries(docs) \subseteq Entry
  BY DEF StreakEntries, Entry

\* What StreakBoardListed says of a view and of the documents it was made of.
Listed(v, docs) ==
  v.pc = "shown" /\ "streak" \notin v.threw =>
    /\ \A p \in Players :
         docs[p] \notin {None, 0} <=>
           \E i \in DOMAIN v.streak :
             v.streak[i] = [username |-> p, value |-> docs[p]]
    /\ \A i \in DOMAIN v.streak : \E p \in Players :
         v.streak[i] = [username |-> p, value |-> docs[p]]
    /\ \A i, j \in DOMAIN v.streak : i < j =>
         /\ v.streak[i].value >= v.streak[j].value
         /\ v.streak[i].username # v.streak[j].username

\* It is the property.
LEMMA ListedIsProperty == StreakBoardListed <=> Listed(view, cache.streaks)
  BY DEF StreakBoardListed, Listed

\* The sort of a finite board leaves nothing out, repeats nothing and puts
\* larger values first.
LEMMA SortedAll ==
  ASSUME NEW board, IsFiniteSet(board), NEW s \in Sorted(board)
  PROVE  /\ \A e \in board : \E i \in DOMAIN s : s[i] = e
         /\ \A i, j \in DOMAIN s :
              i < j => s[i] # s[j] /\ s[i].value >= s[j].value
  <1> DEFINE n == Cardinality(board)
  <1>1. n \in Nat /\ IsFiniteSet(1..n) /\ Cardinality(1..n) = n
    BY FS_CardinalityType, FS_Interval
  <1>2. /\ s \in [1..n -> board]
        /\ \A i, j \in 1..n : i # j => s[i] # s[j]
        /\ \A i, j \in DOMAIN s : i < j => s[i].value >= s[j].value
    BY DEF Sorted, SetToSeqs
  <1>3. s \in Injection(1..n, board)
    BY <1>2 DEF Injection, IsInjective
  <1>4. s \in Surjection(1..n, board)
    BY <1>1, <1>3, FS_Injection
  <1>5. \A e \in board : \E i \in 1..n : s[i] = e
    BY <1>4 DEF Surjection
  <1> QED BY <1>1, <1>2, <1>5

\* A board that was sorted from the entries of the streak documents lists
\* them as it should.
LEMMA SortedListed ==
  ASSUME NEW docs \in [Players -> Nat \cup {None}], NEW v,
         v.streak \in Sorted(StreakEntries(docs))
  PROVE  Listed(v, docs)
  <1> DEFINE board == StreakEntries(docs)
             s == v.streak
  <1>1. /\ \A i \in DOMAIN s : s[i] \in board
        /\ \A e \in board : \E i \in DOMAIN s : s[i] = e
        /\ \A i, j \in DOMAIN s :
             i < j => s[i] # s[j] /\ s[i].value >= s[j].value
    BY StreakEntriesFinite, SortedType, SortedAll
  <1>2. \A p \in Players : docs[p] \notin {None, 0} <=>
                             [username |-> p, value |-> docs[p]] \in board
    BY DEF StreakEntries
  <1>3. \A e \in board : \E p \in Players :
          e = [username |-> p, value |-> docs[p]]
    BY DEF StreakEntries
  <1>4. \A e, f \in board : e # f => e.username # f.username
    BY <1>3
  <1> HIDE DEF board, s
  <1>5. \A p \in Players : docs[p] \notin {None, 0} <=>
          \E i \in DOMAIN s : s[i] = [username |-> p, value |-> docs[p]]
    BY <1>1, <1>2
  <1>6. \A i \in DOMAIN s : \E p \in Players :
          s[i] = [username |-> p, value |-> docs[p]]
    BY <1>1, <1>3
  <1>7. \A i, j \in DOMAIN s : i < j =>
          s[i].value >= s[j].value /\ s[i].username # s[j].username
    BY <1>1, <1>4
  <1> QED BY <1>5, <1>6, <1>7 DEF Listed, s

\* The function adds a document to the responses collection.
LEMMA ResponseType ==
  ASSUME NEW r \in Requests, ~Missing(r), r.date \in Days
  PROVE  Response(r) \in Document /\ Response(r) # None
  <1>1. Response(r) \in Document
    BY DEF Requests, Missing, Response, Document, IsCorrect
  <1> QED BY <1>1, NoneAssumption

-----------------------------------------------------------------------------
(* The app's writes *)

\* The book starts empty, and so does everything else.
LEMMA InitKept == Init => Kept
  <1> SUFFICES ASSUME Init PROVE Kept
    OBVIOUS
  <1>1. TypeOK
    BY LeaderboardsAssumption, NoneAssumption
       DEF Init, Book!Init, TypeOK, NewCall, NoRequest, NoView, Requests,
           Reply, Ids
  <1>2. CallsKept
    BY LeaderboardsAssumption
       DEF Init, CallsKept, CallKept, NewCall, Ids
  <1>3. AnsweredRecorded
    BY NoneAssumption DEF Init, AnsweredRecorded, NewCall
  <1>4. UsersUnfound /\ MostCorrectEmpty /\ StreaksTyped /\ StreakBoardListed
    BY DEF Init, Book!Init, UsersUnfound, MostCorrectEmpty, StreaksTyped,
           StreakBoardListed, NoView, Ids
  <1> QED BY <1>1, <1>2, <1>3, <1>4 DEF Kept

\* The app files an answer or keeps a streak.
LEMMA PlayKept ==
  ASSUME Kept, Play
  PROVE  Kept'
  <1>1. stored \in Nat /\ UNCHANGED <<recorded, call, view, cache>>
    BY LeaderboardsAssumption DEF Kept, TypeOK, Play, function
  <1>2. stored' \in Nat /\ stored' <= MaxStored
    BY <1>1 DEF Play, Book!Next, Book!File, Book!Keep
  <1>3. StreaksTyped'
    <2> PICK p \in Players :
          (\E k \in Days : Book!File(p, k)) \/ Book!Keep(p)
      BY DEF Play, Book!Next, Days, Book!Days
    <2>1. CASE \E k \in Days : Book!File(p, k)
      BY <2>1 DEF Book!File, Kept, StreaksTyped
    <2>2. CASE Book!Keep(p)
      BY <1>1, <2>2 DEF Book!Keep, Kept, StreaksTyped
    <2> QED BY <2>1, <2>2
  <1>4. TypeOK'
    BY <1>1, <1>2, LeaderboardsAssumption DEF Kept, TypeOK
  <1>5. (CallsKept /\ AnsweredRecorded /\ UsersUnfound /\ MostCorrectEmpty)'
    BY <1>1 DEF Kept, CallsKept, CallKept, AnsweredRecorded, UsersUnfound,
                MostCorrectEmpty
  <1>6. StreakBoardListed'
    BY <1>1 DEF Kept, StreakBoardListed
  <1> QED BY <1>3, <1>4, <1>5, <1>6 DEF Kept

-----------------------------------------------------------------------------
(* The function *)

CallState == [pc : {"new", "question", "add", "added", "over"},
              request : Requests, reply : Reply, shown : BOOLEAN]

\* What AnsweredRecorded says of one handler and what it added.
Honest(v, doc) ==
  /\ v.reply = 200 => doc # None /\ v.shown = ~doc.correct
  /\ v.reply \in {400, 404} => doc = None

\* One handler gets state v, and no document changes.
Becomes(c, v) ==
  /\ call' = [call EXCEPT ![c] = v]
  /\ UNCHANGED <<book, recorded, view, cache>>

\* A handler that has not replied yet has told nothing wrong.
LEMMA SilentHonest ==
  ASSUME NEW v, NEW doc, v.reply = None
  PROVE  Honest(v, doc)
  BY NoneAssumption DEF Honest

\* A step of one handler that changes no document and ends well.
LEMMA CallStep ==
  ASSUME Kept, NEW c \in Calls, NEW v \in CallState, Becomes(c, v),
         CallKept(c)', Honest(v, recorded[c])
  PROVE  Kept'
  <1>1. UNCHANGED <<stored, streaks, recorded, view, cache>>
    BY DEF Becomes, book
  <1>2. call'[c] = v /\ \A e \in Calls : e # c => call'[e] = call[e]
    BY DEF Becomes, Kept, TypeOK
  <1>3. TypeOK'
    BY <1>1 DEF Becomes, CallState, Kept, TypeOK
  <1>4. CallsKept'
    BY <1>1, <1>2 DEF Kept, CallsKept, CallKept
  <1>5. AnsweredRecorded'
    BY <1>1, <1>2 DEF Kept, AnsweredRecorded, Honest
  <1>6. (UsersUnfound /\ MostCorrectEmpty /\ StreaksTyped
           /\ StreakBoardListed)'
    BY <1>1 DEF Kept, UsersUnfound, MostCorrectEmpty, StreaksTyped,
                StreakBoardListed
  <1> QED BY <1>3, <1>4, <1>5, <1>6 DEF Kept

\* An answer to the caller is the end of its handler.
LEMMA OverKept ==
  ASSUME Kept, NEW c \in Calls, NEW v \in CallState, Becomes(c, v),
         v.pc = "over", Honest(v, recorded[c])
  PROVE  Kept'
  <1>1. call'[c] = v
    BY DEF Becomes, Kept, TypeOK
  <1>2. CallKept(c)'
    BY <1>1 DEF CallKept
  <1> QED BY <1>2, CallStep

\* What Respond leaves in the handler.
Ended(reply, shown) ==
  [NewCall EXCEPT !.pc = "over", !.reply = reply, !.shown = shown]

\* It is a state of a handler that is over.
LEMMA EndedState ==
  ASSUME NEW reply \in Reply, NEW shown \in BOOLEAN
  PROVE  /\ Ended(reply, shown) \in CallState
         /\ Ended(reply, shown).pc = "over"
         /\ Ended(reply, shown).reply = reply
         /\ Ended(reply, shown).shown = shown
  BY DEF Ended, NewCall, NoRequest, Requests, CallState

\* The handler ends with an error, which shows no answer.
Errs(c, reply) ==
  /\ Respond(c, reply, FALSE)
  /\ UNCHANGED <<book, recorded, view, cache>>

\* An error ends the handler; up to the add nothing has been recorded.
LEMMA ErrorKept ==
  ASSUME Kept, NEW c \in Calls, NEW reply \in {400, 404, 500},
         Errs(c, reply), reply \in {400, 404} => recorded[c] = None
  PROVE  Kept'
  <1> DEFINE v == Ended(reply, FALSE)
  <1>1. Becomes(c, v)
    BY DEF Becomes, Errs, Respond, Ended
  <1>2. reply \in Reply
    BY DEF Reply
  <1>3. FALSE \in BOOLEAN
    OBVIOUS
  <1>4. v \in CallState /\ v.pc = "over" /\ v.reply = reply
    BY <1>2, <1>3, EndedState, Zenon
  <1> HIDE DEF v
  <1>5. /\ v.reply # 200
        /\ v.reply \in {400, 404} => recorded[c] = None
    BY <1>4
  <1>6. Honest(v, recorded[c])
    BY <1>5, Zenon DEF Honest
  <1> QED BY <1>1, <1>4, <1>6, OverKept

\* The steps of a handler keep the invariant.
LEMMA FunctionKept ==
  ASSUME Kept, NEW c \in Calls,
         \/ \E r \in Requests : Request(c, r)
         \/ QuestionRead(c)
         \/ Add(c)
         \/ Answered(c)
         \/ Throw(c)
  PROVE  Kept'
  <1>1. call[c] \in CallState /\ CallKept(c)
    BY DEF Kept, TypeOK, CallsKept, CallState
  <1>2. ASSUME NEW r \in Requests, Request(c, r) PROVE Kept'
    <2>1. /\ call[c].pc = "new" /\ recorded[c] = None
          /\ UNCHANGED <<book, recorded, view, cache>>
      BY <1>1, <1>2 DEF Request, CallKept
    <2>2. CASE Missing(r)
      <3>1. Errs(c, 400) /\ 400 \in {400, 404, 500}
        BY <1>2, <2>2 DEF Request, Errs
      <3> QED BY <2>1, <3>1, ErrorKept, Zenon
    <2>3. CASE ~Missing(r)
      <3> DEFINE v == [call[c] EXCEPT !.pc = "question", !.request = r]
      <3>1. Becomes(c, v)
        BY <1>2, <2>3 DEF Request, Becomes
      <3>2. /\ v \in CallState
            /\ v.pc = "question" /\ v.request = r /\ v.reply = None
        BY <1>1, <2>1 DEF CallKept, CallState
      <3>3. call'[c] = v
        BY <3>1 DEF Becomes, Kept, TypeOK
      <3>4. CallKept(c)'
        BY <2>1, <2>3, <3>2, <3>3 DEF CallKept, Missing
      <3> HIDE DEF v
      <3> QED BY <2>1, <3>1, <3>2, <3>4, CallStep, SilentHonest
    <2> QED BY <2>2, <2>3
  <1>3. CASE QuestionRead(c)
    <2> DEFINE date == call[c].request.date
               answer == IF date \in Days THEN CorrectAnswer[date] ELSE None
    <2>1. /\ call[c].pc = "question" /\ recorded[c] = None
          /\ UNCHANGED <<book, recorded, view, cache>>
          /\ \/ Errs(c, 404)
             \/ Errs(c, 500)
             \/ answer # None /\ call' = [call EXCEPT ![c].pc = "add"]
      BY <1>1, <1>3 DEF QuestionRead, CallKept, Errs
    <2>2. CASE Errs(c, 404) \/ Errs(c, 500)
      <3>1. /\ 404 \in {400, 404, 500} /\ 500 \in {400, 404, 500}
            /\ 404 \in {400, 404} => recorded[c] = None
            /\ 500 \in {400, 404} => recorded[c] = None
        BY <2>1
      <3>2. CASE Errs(c, 404)
        BY <3>1, <3>2, ErrorKept
      <3>3. CASE Errs(c, 500)
        BY <3>1, <3>3, ErrorKept
      <3> QED BY <2>2, <3>2, <3>3
    <2>3. CASE answer # None /\ call' = [call EXCEPT ![c].pc = "add"]
      <3> DEFINE v == [call[c] EXCEPT !.pc = "add"]
      <3>1. Becomes(c, v)
        BY <2>1, <2>3 DEF Becomes, Kept, TypeOK
      <3>2. /\ v \in CallState
            /\ v.pc = "add" /\ v.request = call[c].request
            /\ v.reply = None
        BY <1>1, <2>1 DEF CallKept, CallState
      <3>3. call'[c] = v
        BY <3>1 DEF Becomes, Kept, TypeOK
      <3>4. CallKept(c)'
        BY <1>1, <2>1, <2>3, <3>2, <3>3 DEF CallKept, Missing
      <3> HIDE DEF v
      <3> QED BY <2>1, <3>1, <3>2, <3>4, CallStep, SilentHonest
    <2> QED BY <2>1, <2>2, <2>3
  <1>4. CASE Add(c)
    <2> DEFINE v == [call[c] EXCEPT !.pc = "added"]
               r == call[c].request
    <2>1. /\ call[c].pc = "add" /\ r \in Requests /\ r.date \in Days
          /\ ~Missing(r) /\ call[c].reply = None
      BY <1>1, <1>4 DEF Add, CallKept, CallState
    <2>2. /\ call' = [call EXCEPT ![c] = v]
          /\ recorded' = [recorded EXCEPT ![c] = Response(r)]
          /\ UNCHANGED <<stored, streaks, view, cache>>
      BY <1>4 DEF Add, NewId, book, Kept, TypeOK
    <2>3. /\ v \in CallState
          /\ v.pc = "added" /\ v.request = r /\ v.reply = None
      BY <1>1, <2>1 DEF CallState
    <2>4. Response(r) \in Document /\ Response(r) # None
      BY <2>1, ResponseType
    <2>5. /\ call'[c] = v /\ recorded'[c] = Response(r)
          /\ \A e \in Calls : e # c => /\ call'[e] = call[e]
                                       /\ recorded'[e] = recorded[e]
          /\ \A p \in Players : recorded'[p] = recorded[p]
      BY <2>2, LeaderboardsAssumption DEF Kept, TypeOK, Ids
    <2> HIDE DEF v, r
    <2>6. TypeOK'
      BY <2>2, <2>3, <2>4 DEF Kept, TypeOK, Ids, CallState
    <2>7. CallKept(c)'
      BY <2>1, <2>3, <2>5 DEF CallKept, Missing, Response
    <2>8. CallsKept'
      BY <2>5, <2>7 DEF Kept, CallsKept, CallKept
    <2>9. AnsweredRecorded'
      BY <2>3, <2>5, NoneAssumption DEF Kept, AnsweredRecorded
    <2>10. (UsersUnfound /\ MostCorrectEmpty /\ StreaksTyped
              /\ StreakBoardListed)'
      BY <2>2, <2>5 DEF Kept, UsersUnfound, MostCorrectEmpty, StreaksTyped,
                        StreakBoardListed
    <2> QED BY <2>6, <2>8, <2>9, <2>10 DEF Kept
  <1>5. CASE Answered(c)
    <2> DEFINE r == call[c].request
    <2>1. /\ call[c].pc = "added" /\ recorded[c] = Response(r)
          /\ r \in Requests /\ r.date \in Days /\ ~Missing(r)
          /\ UNCHANGED <<book, recorded, view, cache>>
          /\ Respond(c, 200, ~IsCorrect(r.date, r.userAnswer))
      BY <1>1, <1>5 DEF Answered, CallKept, CallState
    <2>2. /\ recorded[c] # None
          /\ recorded[c].correct = IsCorrect(r.date, r.userAnswer)
      BY <2>1, ResponseType DEF Response, IsCorrect
    <2> DEFINE v == Ended(200, ~IsCorrect(r.date, r.userAnswer))
    <2>3. Becomes(c, v)
      BY <2>1 DEF Becomes, Respond, Ended
    <2>4. v \in CallState /\ v.pc = "over" /\ v.reply = 200
      BY DEF Ended, NewCall, NoRequest, Requests, CallState, Reply, IsCorrect
    <2>5. v.shown = ~IsCorrect(r.date, r.userAnswer)
      BY DEF Ended, NewCall, IsCorrect
    <2> HIDE DEF v, r
    <2>6. v.shown = ~recorded[c].correct
      BY <2>2, <2>5, Zenon
    <2>7. v.reply \notin {400, 404}
      BY <2>4
    <2>8. Honest(v, recorded[c])
      BY <2>2, <2>6, <2>7, Zenon DEF Honest
    <2> QED BY <2>3, <2>4, <2>8, OverKept
  <1>6. CASE Throw(c)
    <2>1. Errs(c, 500) /\ 500 \in {400, 404, 500}
      BY <1>6 DEF Throw, Errs
    <2>2. 500 \in {400, 404} => recorded[c] = None
      OBVIOUS
    <2> QED BY <2>1, <2>2, ErrorKept
  <1> QED BY <1>2, <1>3, <1>4, <1>5, <1>6

-----------------------------------------------------------------------------
(* The view *)

ViewState ==
  [pc : {"closed", "users", "correct", "streaks", "shown"},
   isLoading : BOOLEAN, todo : SUBSET Ids, counts : SUBSET Entry,
   correct : Seq(Entry), streak : Seq(Entry),
   threw : SUBSET {"correct", "streak"}]

CacheState == [users : SUBSET Ids, correct : [Ids -> Nat],
               streaks : [Players -> Nat \cup {None}]]

\* What the invariant says of a view, and of a cache.
ViewFine(v) ==
  /\ v \in ViewState
  /\ v.todo \cap Players = {} /\ v.counts = {} /\ v.correct = <<>>

CacheFine(k) ==
  /\ k \in CacheState
  /\ k.users \cap Players = {} /\ \A c \in Calls : k.correct[c] = 0

\* They are what the invariant gives.
LEMMA FineNow ==
  ASSUME Kept
  PROVE  /\ ViewFine(view) /\ CacheFine(cache)
         /\ streaks \in [Players -> Nat \cup {None}]
  BY LeaderboardsAssumption
     DEF Kept, TypeOK, ViewFine, CacheFine, ViewState, CacheState,
         UsersUnfound, MostCorrectEmpty, StreaksTyped

\* A step of the view, whose queries may have refreshed the cache.
LEMMA ViewKept ==
  ASSUME Kept, UNCHANGED <<book, function>>, ViewFine(view'),
         CacheFine(cache'), Listed(view', cache'.streaks)
  PROVE  Kept'
  <1>1. UNCHANGED <<stored, streaks, recorded, call>>
    BY DEF book, function
  <1>2. TypeOK'
    BY <1>1 DEF Kept, TypeOK, ViewFine, CacheFine, ViewState, CacheState
  <1>3. (CallsKept /\ AnsweredRecorded)'
    BY <1>1 DEF Kept, CallsKept, CallKept, AnsweredRecorded
  <1>4. (UsersUnfound /\ MostCorrectEmpty /\ StreaksTyped)'
    BY <1>1 DEF Kept, UsersUnfound, MostCorrectEmpty, StreaksTyped,
                ViewFine, CacheFine
  <1>5. StreakBoardListed'
    BY DEF StreakBoardListed, Listed
  <1> QED BY <1>2, <1>3, <1>4, <1>5 DEF Kept

\* Nothing is said of a view whose task has not ended.
LEMMA UnfinishedKept ==
  ASSUME Kept, UNCHANGED <<book, function>>, ViewFine(view'),
         CacheFine(cache'), view'.pc # "shown"
  PROVE  Kept'
  <1>1. Listed(view', cache'.streaks)
    BY DEF Listed
  <1> QED BY <1>1, ViewKept

\* The view when it is not open.
LEMMA NoViewFine == ViewFine(NoView) /\ NoView.pc = "closed"
  BY DEF ViewFine, NoView, ViewState

\* Opening and closing the view.
LEMMA OpenCloseKept ==
  ASSUME Kept, Open \/ Close
  PROVE  Kept'
  <1>1. UNCHANGED <<book, function>> /\ CacheFine(cache')
    BY FineNow DEF Open, Close
  <1>2. CASE Open
    <2> DEFINE v == [NoView EXCEPT !.pc = "users", !.isLoading = TRUE]
    <2>1. ViewFine(v) /\ v.pc # "shown"
      BY NoViewFine DEF ViewFine, NoView, ViewState
    <2>2. view' = v
      BY <1>2 DEF Open
    <2> HIDE DEF v
    <2> QED BY <1>1, <2>1, <2>2, UnfinishedKept
  <1>3. CASE Close
    BY <1>1, <1>3, NoViewFine, UnfinishedKept DEF Close
  <1> QED BY <1>2, <1>3

\* Neither a failed query nor the end of the task puts anybody on a board.
LEMMA QueryFailsKept ==
  ASSUME Kept, QueryFails
  PROVE  Kept'
  <1>1. UNCHANGED <<book, function>> /\ CacheFine(cache')
    BY FineNow DEF QueryFails
  <1>2. ViewFine(view)
    BY FineNow
  <1> DEFINE v == [Caught(view, "correct") EXCEPT !.pc = "streaks"]
             w == Finish(Caught(view, "streak"))
  <1>3. ViewFine(v) /\ v.pc = "streaks"
    BY <1>2 DEF ViewFine, ViewState, Caught
  <1>4. ViewFine(w) /\ "streak" \in w.threw
    BY <1>2 DEF ViewFine, ViewState, Finish, Caught
  <1>5. Listed(w, cache'.streaks)
    BY <1>4 DEF Listed
  <1>6. view' = v \/ view' = w
    BY DEF QueryFails
  <1> HIDE DEF v, w
  <1> QED BY <1>1, <1>3, <1>4, <1>5, <1>6, ViewKept, UnfinishedKept

\* The users that are found are documents of the function.
LEMMA UsersReplyKept ==
  ASSUME Kept, UsersReply
  PROVE  Kept'
  <1>1. UNCHANGED <<book, function>>
    BY DEF UsersReply
  <1>2. ViewFine(view) /\ CacheFine(cache)
    BY FineNow
  <1>3. CacheFine(cache')
    <2>1. CASE UNCHANGED cache
      BY <1>2, <2>1
    <2>2. CASE cache' = [cache EXCEPT
                           !.users = {c \in Ids : recorded[c] # None}]
      BY <1>2, <2>2 DEF CacheFine, CacheState, Kept, UsersUnfound
    <2> QED BY <2>1, <2>2 DEF UsersReply
  <1>4. cache'.users \subseteq Ids /\ cache'.users \cap Players = {}
    BY <1>3 DEF CacheFine, CacheState
  <1>5. view' = [view EXCEPT !.pc = "correct", !.todo = cache'.users]
    BY DEF UsersReply
  <1>6. ViewFine(view') /\ view'.pc # "shown"
    BY <1>2, <1>4, <1>5 DEF ViewFine, ViewState
  <1> QED BY <1>1, <1>3, <1>6, UnfinishedKept

\* None of them has a correct answer below it.
LEMMA CorrectReplyKept ==
  ASSUME Kept, NEW u \in Ids, CorrectReply(u)
  PROVE  Kept'
  <1>1. UNCHANGED <<book, function>>
    BY DEF CorrectReply
  <1>2. ViewFine(view) /\ CacheFine(cache)
    BY FineNow
  <1>3. u \in Calls /\ u \notin Players
    BY <1>2 DEF CorrectReply, ViewFine, Ids
  <1>4. CorrectCount(u) = 0
    BY <1>3 DEF CorrectCount
  <1>5. CacheFine(cache')
    <2>1. CASE UNCHANGED cache
      BY <1>2, <2>1
    <2>2. CASE cache' = [cache EXCEPT !.correct[u] = CorrectCount(u)]
      BY <1>2, <1>4, <2>2 DEF CacheFine, CacheState
    <2> QED BY <2>1, <2>2 DEF CorrectReply
  <1>6. cache'.correct[u] = 0
    BY <1>3, <1>5 DEF CacheFine
  <1> DEFINE add == {e \in {[username |-> u, value |-> cache'.correct[u]]}
                       : e.value > 0}
  <1>7. add = {}
    BY <1>6
  <1>8. view' = [view EXCEPT !.todo = @ \ {u}, !.counts = @ \cup add]
    BY DEF CorrectReply
  <1> HIDE DEF add
  <1>9. ViewFine(view') /\ view'.pc = view.pc
    BY <1>2, <1>7, <1>8 DEF ViewFine, ViewState
  <1>10. view'.pc # "shown"
    BY <1>9 DEF CorrectReply
  <1> QED BY <1>1, <1>5, <1>9, <1>10, UnfinishedKept

\* So there is nothing to show.
LEMMA CorrectLoadedKept ==
  ASSUME Kept, CorrectLoaded
  PROVE  Kept'
  <1>1. UNCHANGED <<book, function>> /\ CacheFine(cache')
    BY FineNow DEF CorrectLoaded
  <1>2. ViewFine(view)
    BY FineNow
  <1>3. PICK s \in Sorted(view.counts) :
          view' = [view EXCEPT !.pc = "streaks", !.correct = s,
                               !.counts = {}]
    BY DEF CorrectLoaded
  <1>4. s = <<>>
    BY <1>2, SortedEmpty DEF ViewFine
  <1>5. ViewFine(view') /\ view'.pc # "shown"
    BY <1>2, <1>3, <1>4 DEF ViewFine, ViewState
  <1> QED BY <1>1, <1>5, UnfinishedKept

\* The streaks that are shown are those of the cache, old or refreshed.
LEMMA StreaksReplyKept ==
  ASSUME Kept, StreaksReply
  PROVE  Kept'
  <1>1. UNCHANGED <<book, function>>
    BY DEF StreaksReply
  <1>2. /\ ViewFine(view) /\ CacheFine(cache)
        /\ streaks \in [Players -> Nat \cup {None}]
    BY FineNow
  <1>3. CacheFine(cache')
    <2>1. CASE UNCHANGED cache
      BY <1>2, <2>1
    <2>2. CASE cache' = [cache EXCEPT !.streaks = streaks]
      BY <1>2, <2>2 DEF CacheFine, CacheState
    <2> QED BY <2>1, <2>2 DEF StreaksReply
  <1> DEFINE docs == cache'.streaks
             board == StreakEntries(docs)
  <1>4. docs \in [Players -> Nat \cup {None}]
    BY <1>3 DEF CacheFine, CacheState
  <1>5. PICK s \in Sorted(board) : view' = Finish([view EXCEPT !.streak = s])
    BY DEF StreaksReply
  <1>6. IsFiniteSet(board) /\ board \subseteq Entry
    BY <1>4, StreakEntriesFinite, StreakEntriesType
  <1> HIDE DEF board, docs
  <1>7. s \in Seq(Entry)
    BY <1>6, SortedType
  <1>8. ViewFine(view') /\ view'.streak = s
    BY <1>2, <1>5, <1>7 DEF ViewFine, ViewState, Finish
  <1>9. Listed(view', docs)
    BY <1>4, <1>5, <1>8, SortedListed DEF board
  <1> QED BY <1>1, <1>3, <1>8, <1>9, ViewKept DEF docs

-----------------------------------------------------------------------------
(* The theorems *)

\* Every step keeps the invariant.
LEMMA NextKept ==
  ASSUME Kept, [Next]_vars
  PROVE  Kept'
  <1>1. CASE Play
    BY <1>1, PlayKept
  <1>2. ASSUME NEW c \in Calls,
               \/ \E r \in Requests : Request(c, r)
               \/ QuestionRead(c)
               \/ Add(c)
               \/ Answered(c)
               \/ Throw(c)
        PROVE  Kept'
    BY <1>2, FunctionKept
  <1>3. CASE Open \/ Close
    BY <1>3, OpenCloseKept
  <1>4. CASE ViewStep
    BY <1>4, QueryFailsKept, UsersReplyKept, CorrectReplyKept,
       CorrectLoadedKept, StreaksReplyKept DEF ViewStep
  <1>5. CASE UNCHANGED vars
    <2>1. UNCHANGED <<book, function>> /\ view' = view /\ cache' = cache
      BY <1>5 DEF vars, book, function
    <2>2. Listed(view', cache'.streaks)
      BY <2>1, ListedIsProperty DEF Kept
    <2> QED BY <2>1, <2>2, FineNow, ViewKept
  <1> QED BY <1>1, <1>2, <1>3, <1>4, <1>5 DEF Next

\* The invariant of the module.
LEMMA KeptAlways == Spec => []Kept
  BY InitKept, NextKept, PTL DEF Spec

\* Every variable keeps its shape; what submitAnswer adds is a graded answer
\* of a player to an existing question, whatever the request was.
THEOREM TypeCorrect == Spec => []TypeOK
  <1>1. Kept => TypeOK
    BY DEF Kept
  <1> QED BY <1>1, KeptAlways, PTL

\* What submitAnswer replies is what it did, however its steps interleave
\* with those of other calls and wherever a call to Firestore throws.
THEOREM RepliesAreTrue == Spec => []AnsweredRecorded
  <1>1. Kept => AnsweredRecorded
    BY DEF Kept
  <1> QED BY <1>1, KeptAlways, PTL

\* The Most Correct board of fetchCorrectAnswersLeaderboard never lists
\* anybody, whatever is stored and however often it is opened.
THEOREM MostCorrectStaysEmpty == Spec => []MostCorrectEmpty
  <1>1. Kept => MostCorrectEmpty
    BY DEF Kept
  <1> QED BY <1>1, KeptAlways, PTL

\* The Longest Streak board lists every streak the phone last saw, in order,
\* unless its own query threw: a throw of fetchCorrectAnswersLeaderboard, at
\* any turn of its loop, does not take it down.
THEOREM StreakBoardIsListed == Spec => []StreakBoardListed
  <1>1. Kept => StreakBoardListed
    BY DEF Kept
  <1> QED BY <1>1, KeptAlways, PTL
=============================================================================
