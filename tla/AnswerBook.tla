----------------------------- MODULE AnswerBook -----------------------------
(***************************************************************************)
(* What the app promises about the documents it keeps in Firestore, with   *)
(* no device, task or network in sight: a book of graded answers, and a    *)
(* streak per player that has been earned.                                 *)
(***************************************************************************)
EXTENDS Trivia

CONSTANT Players  \* usernames

VARIABLES
  responses,  \* player, day -> the response filed under that day, or None
  streaks,    \* player -> streak, or None
  stored      \* correct answers given and filed so far

book == <<responses, streaks, stored>>

Init ==
  /\ responses = [p \in Players |-> [k \in Days |-> None]]
  /\ streaks = [p \in Players |-> None]
  /\ stored = 0

\* An answer to the question of some day is graded and filed under day k, not
\* before its question's day.  It replaces what was filed there.  An answer
\* that was filed before and arrives again does not count again.
File(p, k) ==
  \E day \in Days, text \in Texts :
    /\ HasQuestion(day)
    /\ day <= k
    /\ responses' = [responses EXCEPT ![p][k] = Answer(day, text)]
    /\ \/ UNCHANGED stored
       \/ IsCorrect(day, text) /\ stored' = stored + 1
    /\ UNCHANGED streaks

\* A streak is set to anything the correct responses filed so far pay for.
Keep(p) ==
  \E n \in 0..stored :
    /\ streaks' = [streaks EXCEPT ![p] = n]
    /\ UNCHANGED <<responses, stored>>

Next ==
  \E p \in Players :
    \/ \E k \in Days : File(p, k)
    \/ Keep(p)

Spec == Init /\ [][Next]_book
=============================================================================
