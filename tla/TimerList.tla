----------------------------- MODULE TimerList -----------------------------
(***************************************************************************)
(* sort_timer_lst, bin/timer/lst_timer.cpp, pointer by pointer: a doubly   *)
(* linked list of util_timer blocks from the heap, kept in the order of    *)
(* their expiry.  Only the event loop touches it.                          *)
(*                                                                         *)
(* A timer is the block it lives in: a block that was deleted may be given *)
(* out again by new.                                                       *)
(***************************************************************************)
EXTENDS Naturals, Sequences, FiniteSets

CONSTANTS Timers,     \* blocks of the heap
          Lifetime,   \* 3 * TIMESLOT
          MaxTime,    \* bound: how far the clock gets
          Null

ASSUME TimerAssumption ==
         /\ Null \notin Timers
         /\ Lifetime \in Nat \ {0} /\ MaxTime \in Nat

VARIABLES live,                       \* blocks that are allocated
          head, tail,
          prev, next, expire,         \* fields of each block
          pc, cur,                    \* tick(): its loop and cur_timer
          now,                        \* time(nullptr)
          status                      \* "ok", or "undefined": freed memory read

links == <<head, tail, prev, next>>
vars == <<live, links, expire, pc, cur, now, status>>

Init == /\ live = {}
        /\ head = Null /\ tail = Null
        /\ prev = [t \in Timers |-> Null]
        /\ next = [t \in Timers |-> Null]
        /\ expire = [t \in Timers |-> 0]
        /\ pc = "idle" /\ cur = Null
        /\ now = 0
        /\ status = "ok"

-----------------------------------------------------------------------------
(* The nodes of the list from t on.                                        *)
From(t) == LET walk[x \in Timers \union {Null}] ==
                 IF x \in live THEN <<x>> \o walk[next[x]] ELSE << >>
           IN  walk[t]
Nodes == From(head)

(* The private add_timer(timer, lst_head): put t, expiring at e, behind h, *)
(* in front of the first node further on that expires later.  The links    *)
(* are given, as adjust_timer has changed them by then.                    *)
AddBehind(t, e, h, nx, pv) ==
  LET s == From(h)
      later == {i \in 2..Len(s) : e < expire[s[i]]}
      at == IF later = {} THEN Len(s) + 1
                          ELSE CHOOSE i \in later : \A k \in later : i <= k
      p == s[at - 1]
  IN  IF later = {}
        THEN /\ next' = [nx EXCEPT ![p] = t, ![t] = Null]
             /\ prev' = [pv EXCEPT ![t] = p]
             /\ tail' = t
        ELSE /\ next' = [nx EXCEPT ![p] = t, ![t] = s[at]]
             /\ prev' = [pv EXCEPT ![t] = p, ![s[at]] = t]
             /\ UNCHANGED tail

(* new util_timer, expire = time(nullptr) + 3 * TIMESLOT, add_timer.       *)
AddTimer(t) ==
  LET e == now + Lifetime
      nx == [next EXCEPT ![t] = Null]
      pv == [prev EXCEPT ![t] = Null]
  IN /\ pc = "idle" /\ t \notin live
     /\ live' = live \union {t}
     /\ expire' = [expire EXCEPT ![t] = e]
     /\ \/ /\ head = Null
           /\ head' = t /\ tail' = t /\ next' = nx /\ prev' = pv
        \/ /\ head # Null /\ e < expire[head]
           /\ head' = t
           /\ next' = [nx EXCEPT ![t] = head]
           /\ prev' = [pv EXCEPT ![head] = t]
           /\ UNCHANGED tail
        \/ /\ head # Null /\ e >= expire[head]
           /\ UNCHANGED head
           /\ AddBehind(t, e, head, nx, pv)
     /\ UNCHANGED <<pc, cur, now, status>>

(* A timer moves only if the one behind it does not expire later now; the  *)
(* one in front of it is never looked at.                                  *)
FaultyStaysPut(t, e) == TRUE                               \* never re-sorted
StaysPut(t, e) == next[t] # Null => e < expire[next[t]]

AdjustTimer(t) ==
  LET e == now + Lifetime
      n == next[t]
  IN /\ pc = "idle" /\ t \in live
     /\ expire' = [expire EXCEPT ![t] = e]
     /\ \/ StaysPut(t, e) /\ UNCHANGED links
        \/ /\ ~StaysPut(t, e) /\ t = head
           /\ head' = n
           /\ AddBehind(t, e, n, next, [prev EXCEPT ![n] = Null])
        \/ /\ ~StaysPut(t, e) /\ t # head
           /\ UNCHANGED head
           /\ AddBehind(t, e, n, [next EXCEPT ![prev[t]] = n],
                                 [prev EXCEPT ![n] = prev[t]])
     /\ UNCHANGED <<live, pc, cur, now, status>>

(* remove(timer): unlink and delete.                                       *)
RemoveTimer(t) ==
  LET p == prev[t]
      n == next[t]
  IN /\ pc = "idle" /\ t \in live
     /\ live' = live \ {t}
     /\ \/ /\ t = head /\ t = tail
           /\ head' = Null /\ tail' = Null /\ UNCHANGED <<prev, next>>
        \/ /\ t = head /\ t # tail
           /\ head' = n /\ prev' = [prev EXCEPT ![n] = Null]
           /\ UNCHANGED <<tail, next>>
        \/ /\ t # head /\ t = tail
           /\ tail' = p /\ next' = [next EXCEPT ![p] = Null]
           /\ UNCHANGED <<head, prev>>
        \/ /\ t # head /\ t # tail
           /\ next' = [next EXCEPT ![p] = n] /\ prev' = [prev EXCEPT ![n] = p]
           /\ UNCHANGED <<head, tail>>
     /\ UNCHANGED <<expire, pc, cur, now, status>>

-----------------------------------------------------------------------------
Tick == /\ pc = "idle" /\ head # Null
        /\ pc' = "tick" /\ cur' = head
        /\ UNCHANGED <<live, links, expire, now, status>>

(* An expired timer is called back and deleted; head moves on only if      *)
(* there is a next one.                                                    *)
NoNewHead == head                                          \* not moved on
NewHead == IF next[cur] # Null THEN next[cur] ELSE head

TickExpired ==
  /\ pc = "tick" /\ cur \in live /\ now >= expire[cur]
  /\ head' = NewHead
  /\ prev' = IF next[cur] # Null THEN [prev EXCEPT ![next[cur]] = Null] ELSE prev
  /\ live' = live \ {cur}
  /\ cur' = NewHead
  /\ UNCHANGED <<tail, next, expire, pc, now, status>>

TickStop ==
  /\ pc = "tick" /\ cur \in live /\ now < expire[cur]
  /\ pc' = "idle" /\ cur' = Null
  /\ UNCHANGED <<live, links, expire, now, status>>

(* The loop reads the fields of a block that was deleted.                  *)
TickDeleted ==
  /\ pc = "tick" /\ cur \notin live
  /\ status' = "undefined"
  /\ UNCHANGED <<live, links, expire, pc, cur, now>>

(* The clock, which nobody sets back; tick() reads it once.                *)
Clock == /\ pc = "idle" /\ now < MaxTime
         /\ now' = now + 1
         /\ UNCHANGED <<live, links, expire, pc, cur, status>>

Next == /\ status = "ok"
        /\ \/ \E t \in Timers : AddTimer(t) \/ AdjustTimer(t) \/ RemoveTimer(t)
           \/ Tick
           \/ TickExpired
           \/ TickStop
           \/ TickDeleted
           \/ Clock

Spec == Init /\ [][Next]_vars

-----------------------------------------------------------------------------
(* The pointers form one list from head to tail, both ways, of exactly the *)
(* allocated timers: nothing leaks and nothing deleted is linked.          *)
WellLinked ==
  live # {} =>
    /\ {Nodes[i] : i \in 1..Len(Nodes)} = live /\ Len(Nodes) = Cardinality(live)
    /\ prev[head] = Null
    /\ tail = Nodes[Len(Nodes)] /\ next[tail] = Null
    /\ \A i \in 1..(Len(Nodes) - 1) : prev[Nodes[i + 1]] = Nodes[i]

(* When tick() is done every expired timer was called back and no other.   *)
TickIsExact ==
  [][TickStop => \A t \in live : now < expire[t]]_vars

(* tick() never reads a timer it has deleted.                              *)
OnlyLiveTimers == status = "ok"

Abstract == INSTANCE SortedTimers WITH timers <- Nodes
ImplementsSortedTimers == Abstract!Spec
=============================================================================
