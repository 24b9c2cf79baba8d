--------------------------- MODULE SortedTimers ---------------------------
(***************************************************************************)
(* What the timer list promises the event loop: the running timers, those  *)
(* that expire first in front.  TimerList is shown to implement it with    *)
(* pointers, and WebServer keeps its timers with the same operators.       *)
(***************************************************************************)
EXTENDS Naturals, Sequences, TimerOrder

CONSTANTS Timers, Lifetime    \* every timer runs for 3 * TIMESLOT

VARIABLES timers,   \* the running timers
          expire,   \* when each one expires
          now       \* time(nullptr)

tvars == <<timers, expire, now>>

-----------------------------------------------------------------------------
Init == /\ timers = << >>
        /\ expire = [t \in Timers |-> 0]
        /\ now = 0

Deadline == now + Lifetime

Add(t) == /\ t \notin Running(timers)
          /\ timers' = InsertBy(timers, expire, t, Deadline)
          /\ expire' = [expire EXCEPT ![t] = Deadline]
          /\ UNCHANGED now

Adjust(t) == /\ t \in Running(timers)
             /\ timers' = InsertBy(Without(timers, t), expire, t, Deadline)
             /\ expire' = [expire EXCEPT ![t] = Deadline]
             /\ UNCHANGED now

Remove(t) == /\ t \in Running(timers)
             /\ timers' = Without(timers, t)
             /\ UNCHANGED <<expire, now>>

Expire == /\ timers # << >> /\ expire[Head(timers)] <= now
          /\ timers' = Tail(timers)
          /\ UNCHANGED <<expire, now>>

Clock == now' > now /\ UNCHANGED <<timers, expire>>

Next == \/ \E t \in Timers : Add(t) \/ Adjust(t) \/ Remove(t)
        \/ Expire
        \/ Clock

Spec == Init /\ [][Next]_tvars
=============================================================================
