--------------------------- MODULE MCLeaderboards ---------------------------
(* A small instance of Leaderboards for TLC. *)
EXTENDS Leaderboards

MCCleaned == [t \in Texts |-> IF t = "Paris" THEN "paris" ELSE t]

\* The question of the first day has lost its correctAnswer.
MCCorrectAnswer == [k \in Days |-> IF k = 1 THEN Empty ELSE "Paris"]
=============================================================================
