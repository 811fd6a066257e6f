------------------------------- MODULE Trivia -------------------------------
(***************************************************************************)
(* The data every part of the app shares: calendar days, the questions     *)
(* collection, and how an answer is graded.                                *)
(*                                                                         *)
(* A day is the number behind the yyyyMMdd key of dateFormattedForDb().    *)
(* A text is a model value or string; what the program can tell about it   *)
(* is only which texts clean (trim + lowercase) to the same thing and      *)
(* which ones consist of spaces.                                           *)
(***************************************************************************)
EXTENDS Naturals

CONSTANTS
  MaxDay,         \* bound: the last day a behaviour reaches
  Texts,          \* what can stand in the answer field or in correctAnswer
  Empty,          \* the empty text field
  BlankTexts,     \* texts that are empty once the spaces are removed
  Cleaned,        \* text -> its trimmed, lowercased form
  CorrectAnswer,  \* day -> correctAnswer of that day's question, or None
  None            \* nil, or "no such document"

Days == 1..MaxDay

ASSUME DaysAssumption == MaxDay \in Nat \ {0}

ASSUME TextsAssumption ==
  /\ Empty \in BlankTexts
  /\ BlankTexts \subseteq Texts
  /\ DOMAIN Cleaned = Texts
  /\ \A t \in BlankTexts : Cleaned[t] = Cleaned[Empty]

ASSUME QuestionsAssumption ==
  /\ CorrectAnswer \in [Days -> Texts \cup {None}]
  /\ None \notin Texts

\* snapshot.exists for questions/<day>.
HasQuestion(day) == CorrectAnswer[day] # None

\* GameService.submitAnswer, the comparison of the two cleaned strings.
IsCorrect(day, text) == Cleaned[text] = Cleaned[CorrectAnswer[day]]

\* A response document, as far as the app reads it back (SubmittedAnswer).
SubmittedAnswer ==
  [date : Days, userAnswer : Texts, answerOutcome : BOOLEAN]

\* The record GameService.submitAnswer builds for a question of that day.
Answer(day, text) ==
  [date |-> day, userAnswer |-> text, answerOutcome |-> IsCorrect(day, text)]

\* A response whose outcome is what grading its own question gives.
Graded(r) == HasQuestion(r.date) /\ r = Answer(r.date, r.userAnswer)
=============================================================================
