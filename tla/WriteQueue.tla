----------------------------- MODULE WriteQueue -----------------------------
(***************************************************************************)
(* What the Firestore SDK promises of setData: every user of a phone has a *)
(* persistent first-in first-out queue of writes.  Only the queue of the   *)
(* active user is served.  Its writes reach the backend in order, each at  *)
(* least once and possibly again; the oldest one leaves the queue once it  *)
(* is acknowledged or refused, and only then does the await of it resume.  *)
(***************************************************************************)
EXTENDS Naturals, Sequences

CONSTANTS
  Users,   \* credentials::User, the unauthenticated one included
  Writes,  \* setData calls
  Docs,    \* documents
  Target,  \* write -> the document it sets
  None     \* a document nobody has written

VARIABLES
  pending,  \* user -> its queue of writes
  active,   \* the user whose queue is served
  docs,     \* document -> the write that the backend applied last, or None
  applied,  \* the writes the backend has applied at least once
  waiting,  \* the writes whose caller is still there to hear of them
  answer    \* write -> what its caller heard

vars == <<pending, active, docs, applied, waiting, answer>>

Init ==
  /\ pending = [u \in Users |-> <<>>]
  /\ active \in Users
  /\ docs = [k \in Docs |-> None]
  /\ applied = {}
  /\ waiting = {}
  /\ answer = [w \in Writes |-> "none"]

SetData(w) ==
  /\ w \notin waiting
  /\ answer[w] = "none"
  /\ pending' = [pending EXCEPT ![active] = Append(@, w)]
  /\ waiting' = waiting \cup {w}
  /\ UNCHANGED <<active, docs, applied, answer>>

\* The backend applies the j-th write of the queue, perhaps not for the first
\* time, and never before the ones ahead of it.
Apply(j) ==
  /\ j \in 1..Len(pending[active])
  /\ \A i \in 1..(j - 1) : pending[active][i] \in applied
  /\ LET w == pending[active][j] IN
       /\ docs' = [docs EXCEPT ![Target[w]] = w]
       /\ applied' = applied \cup {w}
  /\ UNCHANGED <<pending, active, waiting, answer>>

\* The oldest write leaves the queue, and its caller hears how it went.
Leave(result) ==
  /\ pending[active] # <<>>
  /\ LET w == Head(pending[active]) IN
       /\ result = "ok" => w \in applied
       /\ answer' = [answer EXCEPT ![w] =
                       IF w \in waiting THEN result ELSE @]
       /\ waiting' = waiting \ {w}
  /\ pending' = [pending EXCEPT ![active] = Tail(@)]
  /\ UNCHANGED <<active, docs, applied>>

\* Another user is signed in; the old queue stays as it is.
SwitchTo(u) ==
  /\ active' = u
  /\ UNCHANGED <<pending, docs, applied, waiting, answer>>

\* The process dies: the queues are on disk, the callers are gone.
Restart(u) ==
  /\ active' = u
  /\ waiting' = {}
  /\ UNCHANGED <<pending, docs, applied, answer>>

Next ==
  \/ \E w \in Writes : SetData(w)
  \/ \E j \in 1..Len(pending[active]) : Apply(j)
  \/ \E result \in {"ok", "failed"} : Leave(result)
  \/ \E u \in Users : SwitchTo(u) \/ Restart(u)

Spec == Init /\ [][Next]_vars
=============================================================================
