--------------------------- MODULE MCWritePipeline --------------------------
(* Constants of the write pipeline for TLC: the first two writes go to the *)
(* same document, the third to another one.                                *)
EXTENDS WritePipeline, TLC

MCTarget == [w \in Writes |-> IF w <= 2 THEN "streak" ELSE "response"]
Symmetry == Permutations(Users)

\* close_count_ and token_counter are only ever compared with an earlier
\* reading of themselves, so two states that differ in the numbers alone
\* behave alike: a reading is seen as whether it is still up to date.
SeenToken(b) == [b EXCEPT !.closes = (@ = net.closes),
                          !.tokens = (@ = tokens)]
SeenMain(b) == IF b.kind = "token" THEN SeenToken(b) ELSE b
SeenWorker(b) ==
  IF b.kind = "token" THEN [b EXCEPT !.closes = (@ = net.closes)] ELSE b
View ==
  <<authUser, current, queue, nextId, callbacks, docs, history,
    [j \in 1..Len(main) |-> SeenMain(main[j])],
    [j \in 1..Len(worker) |-> SeenWorker(worker[j])],
    [net EXCEPT !.closes = 0, !.asks = {SeenToken(r) : r \in @}]>>
=============================================================================
