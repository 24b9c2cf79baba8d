----------------------------- MODULE TaskQueue -----------------------------
(***************************************************************************)
(* What the worker pool promises the event loop: a bounded first-in        *)
(* first-out queue of jobs.  A job is accepted at the tail or refused      *)
(* because the queue is full; an accepted job is taken once, in order, by  *)
(* one thread, and finished once.  ThreadPool is shown to implement this.  *)
(***************************************************************************)
EXTENDS Naturals, Sequences

CONSTANTS Jobs, MaxRequests

VARIABLES offered,   \* jobs not handed to the pool yet
          queue,     \* accepted jobs, oldest first
          taken,     \* jobs a thread has removed and not finished
          done,      \* jobs that were run
          refused    \* jobs that were turned away

avars == <<offered, queue, taken, done, refused>>

Init == /\ offered = Jobs
        /\ queue = << >>
        /\ taken = {}
        /\ done = {}
        /\ refused = {}

Accept(j) == /\ j \in offered
             /\ Len(queue) < MaxRequests
             /\ offered' = offered \ {j}
             /\ queue' = Append(queue, j)
             /\ UNCHANGED <<taken, done, refused>>

Refuse(j) == /\ j \in offered
             /\ Len(queue) >= MaxRequests
             /\ offered' = offered \ {j}
             /\ refused' = refused \union {j}
             /\ UNCHANGED <<queue, taken, done>>

Take == /\ queue # << >>
        /\ Head(queue) \notin taken \union done
        /\ queue' = Tail(queue)
        /\ taken' = taken \union {Head(queue)}
        /\ UNCHANGED <<offered, done, refused>>

Finish(j) == /\ j \in taken
             /\ taken' = taken \ {j}
             /\ done' = done \union {j}
             /\ UNCHANGED <<offered, queue, refused>>

Next == \/ \E j \in Jobs : Accept(j) \/ Refuse(j) \/ Finish(j)
        \/ Take

Spec == Init /\ [][Next]_avars
=============================================================================
