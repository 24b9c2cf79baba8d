----------------------------- MODULE TimerOrder -----------------------------
(***************************************************************************)
(* The order sort_timer_lst keeps (bin/timer/lst_timer.cpp), for a list    *)
(* taken as a sequence of timers and exp[t], the expiry of each.           *)
(***************************************************************************)
EXTENDS Naturals, Sequences

Running(s) == {s[i] : i \in 1..Len(s)}

(* A timer that expires at e is put in front of the first one that expires *)
(* later.                                                                  *)
InsertBy(s, exp, t, e) ==
  LET later == {i \in 1..Len(s) : e < exp[s[i]]}
      at == IF later = {} THEN Len(s) + 1
                          ELSE CHOOSE i \in later : \A k \in later : i <= k
  IN  SubSeq(s, 1, at - 1) \o <<t>> \o SubSeq(s, at, Len(s))

(* The list without a timer that is in it.                                 *)
FaultyWithout(s, t) == s
Without(s, t) == LET at == CHOOSE i \in 1..Len(s) : s[i] = t
                 IN  SubSeq(s, 1, at - 1) \o SubSeq(s, at + 1, Len(s))

Sorted(s, exp) == \A i, k \in 1..Len(s) : i < k => exp[s[i]] <= exp[s[k]]
=============================================================================
