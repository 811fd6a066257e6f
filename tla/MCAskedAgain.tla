---------------------------- MODULE MCAskedAgain ----------------------------
(* GamePlay with a history of the result screens that players have seen. *)
EXTENDS MCGamePlay

VARIABLE told  \* history: player and day of every result screen shown

\* CorrectAnswerView or IncorrectAnswerView is on screen.
ResultVisible(d) ==
  /\ screen[d] = "game"
  /\ ~game[d].isLoading
  /\ ~game[d].showUsernameEntry
  /\ game[d].submittedAnswer # None
  /\ game[d].currentQuestion # None

\* Who is shown a result now, and for the question of which day.
Shown ==
  {[player |-> user[d].account, day |-> game[d].currentQuestion] :
     d \in {e \in Devices : ResultVisible(e)}}

InitTold == Init /\ told = {}
NextTold == Next /\ told' = told \cup Shown'
SpecTold == InitTold /\ [][NextTold]_<<vars, told>>

\* "Come back tomorrow to play again!": a player who has been shown the result
\* of a day is not asked the question of that day again.  Refuted by a run.
NotAskedAgain ==
  \A d \in Devices :
    QuestionVisible(d) =>
      [player |-> user[d].account, day |-> game[d].currentQuestion] \notin told
=============================================================================
