--------------------------- MODULE MCInterventions ---------------------------
(* A small instance of the proactive engine for TLC.                       *)
EXTENDS Interventions, TLC

CONSTANTS c

(* A class of two hours at 9 and a deadline the next day; hours at which   *)
(* the class is about to start, at which it is over, and on the next day.  *)
MCSlots == {[course |-> c, start |-> 9, end |-> 11]}
MCDeadlines == {[course |-> c, due |-> 40]}
MCMoments == {8, 12, 33}

Interchangeable == Permutations(Workers) \cup Permutations(Students)
=============================================================================
