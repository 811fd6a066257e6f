----------------------------- MODULE MCSession ------------------------------
(* Small instances of Session for TLC. *)
EXTENDS Session, TLC

\* Every email has a document of its own.
MCKey == CHOOSE f \in [Emails -> Docs] :
           \A e1, e2 \in Emails : f[e1] = f[e2] => e1 = e2

\* Emails are exchanged together with their documents.
Renamings ==
  {p \in Permutations(Emails \cup Docs) :
    \A e \in Emails : p[e] \in Emails /\ Key[p[e]] = p[Key[e]]}

Symmetry == Permutations(Devices) \cup Renamings \cup Permutations(Names)
              \cup Permutations(Slots) \cup Permutations(Taps)
=============================================================================
