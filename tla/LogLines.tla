------------------------------ MODULE LogLines ------------------------------
(***************************************************************************)
(* What the log promises its callers: a line is filed once, by its caller  *)
(* or through a bounded first-in first-out queue that one thread empties.  *)
(* Logger is shown to implement this.                                      *)
(***************************************************************************)
EXTENDS Naturals, Sequences

CONSTANTS Lines, MaxSize, None

VARIABLES asked,   \* lines that are with their callers
          queue,   \* lines on their way, oldest first
          hand,    \* the line the writing thread has taken out
          filed    \* lines that are in a file

lvars == <<asked, queue, hand, filed>>

Init == /\ asked = {} /\ filed = {}
        /\ queue = << >>
        /\ hand = None

Ask(l) == /\ l \notin asked \union filed
          /\ asked' = asked \union {l}
          /\ UNCHANGED <<queue, hand, filed>>

Queue(l) == /\ l \in asked /\ Len(queue) < MaxSize
            /\ asked' = asked \ {l}
            /\ queue' = Append(queue, l)
            /\ UNCHANGED <<hand, filed>>

FileDirectly(l) == /\ l \in asked
                   /\ asked' = asked \ {l}
                   /\ filed' = filed \union {l}
                   /\ UNCHANGED <<queue, hand>>

Take == /\ hand = None /\ queue # << >>
        /\ hand' = Head(queue)
        /\ queue' = Tail(queue)
        /\ UNCHANGED <<asked, filed>>

File == /\ hand # None /\ hand \notin filed
        /\ filed' = filed \union {hand}
        /\ hand' = None
        /\ UNCHANGED <<asked, queue>>

Next == \/ \E l \in Lines : Ask(l) \/ Queue(l) \/ FileDirectly(l)
        \/ Take
        \/ File

Spec == Init /\ [][Next]_lvars
=============================================================================
