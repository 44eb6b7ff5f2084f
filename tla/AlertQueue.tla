------------------------------ MODULE AlertQueue ------------------------------
(***************************************************************************)
(* What the spool of roles/ntfy_docker/files/ntfy_zammad_spool.py promises *)
(* about the messages ntfy delivers: they wait in the order of delivery,   *)
(* only the one that has waited longest is ever handled, and each is done  *)
(* with once.  A message may be given up (4xx, crash, full spool).         *)
(***************************************************************************)
EXTENDS Naturals

CONSTANT Numbers  \* the numbers ntfy gives to the messages, in order of delivery

VARIABLES
    waiting,  \* numbers of the messages accepted and not done with
    handled   \* number of the last message handled

vars == <<waiting, handled>>

Init == waiting = {} /\ handled = 0

\* A message is accepted behind every message seen before it.
Accept ==
    \E n \in Numbers :
      /\ n > handled /\ \A w \in waiting : n > w
      /\ waiting' = waiting \cup {n}
      /\ UNCHANGED handled

\* The oldest waiting message is handled and done with.
Handle ==
    \E n \in waiting :
      /\ \A w \in waiting : n <= w
      /\ n > handled
      /\ waiting' = waiting \ {n}
      /\ handled' = n

GiveUp ==
    /\ waiting' \in SUBSET waiting
    /\ UNCHANGED handled

Next == Accept \/ Handle \/ GiveUp

Spec == Init /\ [][Next]_vars
=============================================================================
