-------------------------- MODULE MCConcertReadCache --------------------------
(* Instances of ConcertReadCache for TLC.                                  *)
EXTENDS ConcertReadCache

CONSTANTS onePod, t1, t2, s1, s2

\* All GETs are served by one pod, whose threads share the fill locks.
SamePod == [t \in Reader |-> onePod]

\* Bounds, of a show: one hold key, one message and one rollback at a time, one torn seat;
\* refused requests hold the first of the interchangeable seats.  t1 starts first, t2
\* asks for one show.
Bounds ==
  /\ \A w \in Show :
       /\ Cardinality(hold[w] \union stray[w]) <= 1
       /\ Cardinality(queued[w]) <= 1 /\ Cardinality(torn[w]) <= 1
       /\ s2 \notin stray[w] /\ rolling[w][s1] <= 1
  /\ pc[t2] # "new" => pc[t1] # "new" /\ ask[t2] # All

=============================================================================
