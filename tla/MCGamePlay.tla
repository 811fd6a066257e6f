----------------------------- MODULE MCGamePlay -----------------------------
(* Small instances of GamePlay for TLC. *)
EXTENDS GamePlay, TLC

\* The right answer, a wrong one, and the empty field.
MCTexts == {"Paris", "rome", ""}
\* The right answer and the empty field.
MCShort == {"Paris", ""}
MCBlankTexts == {""}
MCCleaned == [t \in Texts |-> IF t = "Paris" THEN "paris" ELSE t]
\* The second day has another answer where the instance has one.
MCCorrectAnswer ==
  [k \in Days |-> IF k = 2 /\ "rome" \in Texts THEN "rome" ELSE "Paris"]

\* There is no question on the second day.
MCNoSecondQuestion == [k \in Days |-> IF k = 2 THEN None ELSE "Paris"]

\* Constraint: Auth.signOut never throws, so that LoginView comes back without
\* a Firebase user (in an instance without crashes).
SignOutWorks ==
  \A d \in Devices : screen[d] = "appearing" => authUser[d] = None

Symmetry == Permutations(Devices) \cup Permutations(Players)
              \cup Permutations(LoginSlots) \cup Permutations(LoadSlots)
              \cup Permutations(SubmitSlots)
=============================================================================
