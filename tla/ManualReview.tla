---------------------------- MODULE ManualReview ----------------------------
(***************************************************************************)
(* Asking for a wrong answer to be looked at: ManualReviewView and         *)
(* GameService.submitAnswerForManualReview, which looks for a review of    *)
(* today under the username and otherwise overwrites manualReviews/<name>. *)
(* Every tap on "Submit" is a task of its own; the query may be answered   *)
(* by the backend or, offline, from what the device has seen before.       *)
(*                                                                         *)
(* The SDK queues writes per Firebase user (module WriteQueue), and a user *)
(* plays under one name, so every name has a queue on each device; that it *)
(* is served only while its user is signed in is left to the order of      *)
(* steps.                                                                  *)
(***************************************************************************)
EXTENDS Naturals, Sequences

CONSTANTS
  Devices,  \* phones
  Names,    \* usernames ("unknown username" is one like any other)
  Slots,    \* submissions a device can have in flight
  MaxDay,   \* bound: the last day a behaviour reaches
  MaxTaps,  \* bound: taps on "Submit" in a behaviour
  None      \* no document, no sheet, no task

ASSUME ReviewAssumption ==
  MaxDay \in Nat \ {0} /\ MaxTaps \in Nat /\ None \notin Slots \cup Names

VARIABLES
  today,      \* device -> its calendar day
  reviews,    \* manualReviews/<name>, or None
  seen,       \* device, name -> that document as the device's cache has it
  outbox,     \* device, name -> the SDK's persistent queue of writes
  sheet,      \* device -> username the open ManualReviewView is for, or None
  alert,      \* device -> activeAlert of that view
  task,       \* device, slot -> submitForManualReview task
  confirmed,  \* history: reviews some player was told are submitted
  taps        \* history: taps on "Submit" so far

vars == <<today, reviews, seen, outbox, sheet, alert, task, confirmed, taps>>

\* A review, as far as the app reads it back; note and phone tell taps apart.
\* (Its username is the name the document is filed under.)
Review == [date : 1..MaxDay, note : 1..MaxTaps, phone : Devices]

ASSUME NoneAssumption == None \notin Review

NoTask == [pc |-> "idle", io |-> "none", name |-> None, note |-> 0,
           date |-> 0, found |-> None, live |-> FALSE]

Init ==
  /\ today = [d \in Devices |-> 1]
  /\ reviews = [n \in Names |-> None]
  /\ seen = [d \in Devices |-> [n \in Names |-> None]]
  /\ outbox = [d \in Devices |-> [n \in Names |-> <<>>]]
  /\ sheet = [d \in Devices |-> None]
  /\ alert = [d \in Devices |-> "none"]
  /\ task = [d \in Devices |-> [i \in Slots |-> NoTask]]
  /\ confirmed = {}
  /\ taps = 0

-----------------------------------------------------------------------------
(* External: calendar, Firestore, process death. *)

Midnight(d) ==
  /\ today[d] < MaxDay
  /\ \A e \in Devices : today[d] <= today[e]
  /\ today' = [today EXCEPT ![d] = @ + 1]
  /\ UNCHANGED <<reviews, seen, outbox, sheet, alert, task, confirmed, taps>>

\* A query sees the device's own pending writes over document doc.
Overlaid(d, name, doc) ==
  LET mine == outbox[d][name]
  IN IF mine = <<>> THEN doc ELSE mine[Len(mine)].review

\* The query is answered: by the backend, which also refreshes the cache, by
\* the cache when offline, or with an error.
ServeQuery(d, i) ==
  LET t == task[d][i]
      Reply(io, doc) == task' = [task EXCEPT ![d][i] =
        [t EXCEPT !.io = io, !.found = doc]]
  IN /\ t.pc = "query"
     /\ t.io = "sent"
     /\ \/ /\ Reply("done", Overlaid(d, t.name, reviews[t.name]))
           /\ seen' = [seen EXCEPT ![d][t.name] = reviews[t.name]]
        \/ /\ Reply("done", Overlaid(d, t.name, seen[d][t.name]))
           /\ UNCHANGED seen
        \/ Reply("failed", None) /\ UNCHANGED seen
     /\ UNCHANGED <<today, reviews, outbox, sheet, alert, confirmed, taps>>

\* The backend gets the j-th write of a queue, perhaps not for the first time,
\* and never before the ones ahead of it.  When it was sent again, so will be
\* the ones behind it, and only then are they acknowledged (due).
\* (WritePipeline's LastAckedKept is the reason.)
ApplyWrite(d, n, j) ==
  LET q == outbox[d][n] IN
  /\ j \in 1..Len(q)
  /\ \A k \in 1..(j - 1) : q[k].due
  /\ reviews' = [reviews EXCEPT ![n] = q[j].review]
  /\ outbox' = [outbox EXCEPT ![d][n] =
       [k \in 1..Len(q) |->
         [q[k] EXCEPT !.due = k <= j]]]
  /\ UNCHANGED <<today, seen, sheet, alert, task, confirmed, taps>>

\* The oldest write leaves its queue: acknowledged, which refreshes the cache,
\* or refused, perhaps although the backend had it and it was sent again.  The
\* task that awaits it, if there still is one, resumes.
LeaveQueue(d, n) ==
  /\ outbox[d][n] # <<>>
  /\ LET w == Head(outbox[d][n])
         Settle(io) == task' = IF w.by = None THEN task
                               ELSE [task EXCEPT ![d][w.by].io = io]
     IN \/ /\ w.due
           /\ seen' = [seen EXCEPT ![d][n] = w.review]
           /\ Settle("done")
        \/ UNCHANGED seen /\ Settle("failed")
  /\ outbox' = [outbox EXCEPT ![d][n] = Tail(@)]
  /\ UNCHANGED <<today, reviews, sheet, alert, confirmed, taps>>

\* The queues and the cache are on disk; the view and its tasks are not.
Crash(d) ==
  /\ sheet' = [sheet EXCEPT ![d] = None]
  /\ alert' = [alert EXCEPT ![d] = "none"]
  /\ task' = [task EXCEPT ![d] = [i \in Slots |-> NoTask]]
  /\ outbox' = [outbox EXCEPT ![d] =
       [n \in Names |-> [j \in 1..Len(outbox[d][n]) |->
                          [outbox[d][n][j] EXCEPT !.by = None]]]]
  /\ UNCHANGED <<today, reviews, seen, confirmed, taps>>

-----------------------------------------------------------------------------
(* IncorrectAnswerView and ManualReviewView *)

\* "Submit for manual review", by whoever plays under name n.
OpenSheet(d, n) ==
  /\ sheet[d] = None
  /\ sheet' = [sheet EXCEPT ![d] = n]
  /\ alert' = [alert EXCEPT ![d] = "none"]
  /\ UNCHANGED <<today, reviews, seen, outbox, task, confirmed, taps>>

\* The sheet is swiped away, or OK on a final alert dismisses it.  Its tasks
\* go on, with nowhere to report.
CloseSheet(d) ==
  /\ sheet[d] # None
  /\ alert[d] # "error"
  /\ sheet' = [sheet EXCEPT ![d] = None]
  /\ alert' = [alert EXCEPT ![d] = "none"]
  /\ task' = [task EXCEPT ![d] =
       [i \in Slots |-> [@[i] EXCEPT !.live = FALSE]]]
  /\ UNCHANGED <<today, reviews, seen, outbox, confirmed, taps>>

\* OK on the error alert: the player may try again.
DismissError(d) ==
  /\ alert[d] = "error"
  /\ alert' = [alert EXCEPT ![d] = "none"]
  /\ UNCHANGED <<today, reviews, seen, outbox, sheet, task, confirmed, taps>>

\* "Submit": the query goes out.
TapSubmit(d, i) ==
  /\ taps < MaxTaps
  /\ sheet[d] # None
  /\ alert[d] = "none"
  /\ task[d][i].pc = "idle"
  /\ taps' = taps + 1
  /\ task' = [task EXCEPT ![d][i] =
       [NoTask EXCEPT !.pc = "query", !.io = "sent", !.name = sheet[d],
                      !.note = taps + 1, !.live = TRUE]]
  /\ UNCHANGED <<today, reviews, seen, outbox, sheet, alert, confirmed>>

\* Mutant: the alert comes up although its sheet was dismissed.
FinishDetached(d, i, outcome) ==
  /\ alert' = [alert EXCEPT ![d] = outcome]
  /\ task' = [task EXCEPT ![d][i] = NoTask]

\* Mutant: an error ends the task in silence.
FinishSilentOnError(d, i, outcome) ==
  /\ alert' = [alert EXCEPT ![d] =
       IF task[d][i].live /\ outcome # "error" THEN outcome ELSE @]
  /\ task' = [task EXCEPT ![d][i] = NoTask]

\* The task ends and sets activeAlert of its view.
Finish(d, i, outcome) ==
  /\ alert' = [alert EXCEPT ![d] = IF task[d][i].live THEN outcome ELSE @]
  /\ task' = [task EXCEPT ![d][i] = NoTask]

\* manualReview.date == Date().dateFormattedForDb()
ReviewedToday(doc, day) == doc # None /\ doc.date = day

\* The documents arrived: today's review wins, else this one is written.
QueryReply(d, i) ==
  LET t == task[d][i]
      w == [by |-> i, due |-> FALSE,
            review |-> [date |-> today[d], note |-> t.note, phone |-> d]]
  IN /\ t.pc = "query"
     /\ \/ /\ t.io = "failed"
           /\ Finish(d, i, "error")
           /\ UNCHANGED outbox
        \/ /\ t.io = "done"
           /\ ReviewedToday(t.found, today[d])
           /\ Finish(d, i, "recordExists")
           /\ UNCHANGED outbox
        \/ /\ t.io = "done"
           /\ ~ReviewedToday(t.found, today[d])
           /\ outbox' = [outbox EXCEPT ![d][t.name] = Append(@, w)]
           /\ task' = [task EXCEPT ![d][i] =
                [t EXCEPT !.pc = "write", !.io = "sent", !.date = today[d]]]
           /\ UNCHANGED alert
     /\ UNCHANGED <<today, reviews, seen, sheet, confirmed, taps>>

\* Mutant: setData without await, confirmed as soon as it is queued.
WriteReplyUnawaited(d, i) ==
  LET t == task[d][i]
      review == [date |-> t.date, note |-> t.note, phone |-> d]
  IN /\ t.pc = "write"
     /\ Finish(d, i, "confirmation")
     /\ confirmed' = confirmed \cup
          {c \in {[name |-> t.name, review |-> review]} : t.live}
     /\ UNCHANGED <<today, reviews, seen, outbox, sheet, taps>>

\* setDataAsync returned or threw.
WriteReply(d, i) ==
  LET t == task[d][i]
      review == [date |-> t.date, note |-> t.note, phone |-> d]
  IN /\ t.pc = "write"
     /\ \/ /\ t.io = "done"
           /\ Finish(d, i, "confirmation")
           /\ confirmed' = confirmed \cup
                {c \in {[name |-> t.name, review |-> review]} : t.live}
        \/ /\ t.io = "failed"
           /\ Finish(d, i, "error")
           /\ UNCHANGED confirmed
     /\ UNCHANGED <<today, reviews, seen, outbox, sheet, taps>>

-----------------------------------------------------------------------------
TaskStep(d, i) == ServeQuery(d, i) \/ QueryReply(d, i) \/ WriteReply(d, i)

Next ==
  \E d \in Devices :
    \/ Midnight(d)
    \/ \E n \in Names :
         \/ \E j \in 1..Len(outbox[d][n]) : ApplyWrite(d, n, j)
         \/ LeaveQueue(d, n)
    \/ Crash(d)
    \/ \E n \in Names : OpenSheet(d, n)
    \/ CloseSheet(d)
    \/ DismissError(d)
    \/ \E i \in Slots : TapSubmit(d, i) \/ TaskStep(d, i)

Spec == Init /\ [][Next]_vars

\* The network delivers and answers, the runtime resumes; nothing forces the
\* player.
FairSpec ==
  /\ Spec
  /\ \A d \in Devices :
       /\ \A n \in Names :
            WF_vars(ApplyWrite(d, n, 1)) /\ WF_vars(LeaveQueue(d, n))
       /\ \A i \in Slots : WF_vars(TaskStep(d, i))

-----------------------------------------------------------------------------
(* Properties *)

\* Reviews, caches, queues and tasks keep their shape; an alert is one of an
\* open sheet, never of a sheet dismissed while its submission was in flight.
TypeOK ==
  /\ today \in [Devices -> 1..MaxDay]
  /\ reviews \in [Names -> Review \cup {None}]
  /\ seen \in [Devices -> [Names -> Review \cup {None}]]
  /\ outbox \in [Devices -> [Names ->
       Seq([by : Slots \cup {None}, review : Review, due : BOOLEAN])]]
  /\ sheet \in [Devices -> Names \cup {None}]
  /\ alert \in [Devices -> {"none", "error", "recordExists", "confirmation"}]
  /\ task \in [Devices -> [Slots ->
       [pc : {"idle", "query", "write"},
        io : {"none", "sent", "done", "failed"}, name : Names \cup {None},
        note : 0..MaxTaps, date : 0..MaxDay, found : Review \cup {None},
        live : BOOLEAN]]]
  /\ \A d \in Devices : alert[d] # "none" => sheet[d] # None
  /\ confirmed \subseteq [name : Names, review : Review]
  /\ taps \in 0..MaxTaps

\* "Your answer has been submitted for manual review": after a confirmation
\* the name always has a review on file, and the phone that confirmed never
\* puts an older day's in its place, whatever taps overlap, however long a
\* write was parked and however often it was sent again.  (Another phone may
\* still deliver an older one.)
ConfirmedOnFile ==
  \A c \in confirmed :
    LET file == reviews[c.name] IN
    /\ file # None
    /\ file.phone = c.review.phone => c.review.date <= file.date

\* Every submission is answered: the catch of submitForManualReview covers
\* the query and the write, so an alert comes up unless the sheet is closed.
SubmissionAnswered ==
  \A d \in Devices, i \in Slots :
    (task[d][i].pc # "idle" /\ task[d][i].live)
      ~> (alert[d] # "none" \/ sheet[d] = None)

-----------------------------------------------------------------------------
(* What an alert claims, and a run refutes. *)

\* "You have already submitted an answer for review today.": a name gets one
\* review a day, the check before the write turns down the next.
SecondReviewRefused ==
  \A a, b \in confirmed :
    (a.name = b.name /\ a.review.date = b.review.date) => a = b
=============================================================================
