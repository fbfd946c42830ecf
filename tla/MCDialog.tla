------------------------------ MODULE MCDialog ------------------------------
(* Instances of Dialog for TLC. *)
EXTENDS Dialog

CONSTANTS h1, h2, d1, d2, e1

\* A dialog that is neither in the map nor with a handler has nobody who reads
\* what it holds, and the properties say of it what they said when somebody did;
\* when its monitor has ended too, nothing of it can come up again.
Alive(d) == d = current \/ \E h \in Handlers : held[h] = d
Over(d) == stage[d] # "none" /\ ~Alive(d)
Gone == {d \in Dialogs : Over(d) /\ monitor[d] = "ended"}
Holds(d) ==
  IF Over(d) THEN <<>>
  ELSE <<stage[d], selected[d], envs[d], d \in filled, submitted[d], shown[d],
         d \in unseen, d \in contended>>
Seen ==
  <<current, [d \in Dialogs |-> Holds(d)], monitor, closed \ Gone, old \ Gone, untold \ Gone,
    overlaps, handlers, panicked, contended = {}>>
=============================================================================
