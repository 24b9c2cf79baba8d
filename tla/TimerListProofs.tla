-------------------------- MODULE TimerListProofs --------------------------
(***************************************************************************)
(* Proofs about TimerList, for every number of timers and every lifetime:  *)
(* in every reachable state, in the middle of tick() too, the pointers     *)
(* form one list of the allocated timers in the order of their expiry, and *)
(* what is done to them is what SortedTimers does to a sequence.           *)
(*                                                                         *)
(* The pointers are followed by a recursive function, so most of the work  *)
(* is to show that a sequence s is what following them gives (WalkIs) and  *)
(* how the pointers of s change with s (AppendLinks, SkipLinks).           *)
(***************************************************************************)
EXTENDS TimerList, TimerOrder, Integers, SequenceTheorems, FiniteSetTheorems,
        WellFoundedInduction, TLAPS

(* A set of numbers has a least one.                                       *)
LEMMA LeastElement ==
  ASSUME NEW T, T \subseteq Nat, T # {}
  PROVE  \E x \in T : \A y \in T : x <= y
<1> DEFINE less == {p \in Nat \X Nat : p[1] < p[2]}
<1>1. IsWellFoundedOn(less, Nat)
  BY NatLessThanWellFounded DEF OpToRel
<1>2. \A m, n \in Nat : <<m, n>> \in less <=> m < n
  OBVIOUS
<1> HIDE DEF less
<1>3. \A R, S, U : IsWellFoundedOn(R, S) /\ U \subseteq S /\ U # {} =>
                     \E x \in U : \A y \in U : ~(<<y, x>> \in R)
  BY WFMin
<1>4. PICK x \in T : \A y \in T : ~(<<y, x>> \in less)
  BY <1>1, <1>3
<1>5. x \in Nat /\ \A y \in T : y \in Nat /\ ~(y < x)
  BY <1>2, <1>4
<1>6. \A y \in T : x <= y
  BY <1>5
<1> QED
  BY <1>6

(* What holds of 1 and of the next of every number holds up to n.          *)
LEMMA Upwards ==
  ASSUME NEW n \in Nat, NEW S, 1 \in S, \A i \in 1..(n - 1) : i \in S => i + 1 \in S
  PROVE  1..n \subseteq S
<1> SUFFICES ASSUME (1..n) \ S # {} PROVE FALSE
  OBVIOUS
<1>1. PICK x \in (1..n) \ S : \A y \in (1..n) \ S : x <= y
  <2>1. (1..n) \ S \subseteq Nat
    OBVIOUS
  <2> QED
    BY <2>1, LeastElement
<1>2. x # 1 /\ x - 1 \in 1..(n - 1) /\ (x - 1) + 1 = x
  OBVIOUS
<1>3. x - 1 \in S
  BY <1>1, <1>2
<1> QED
  BY <1>2, <1>3

-----------------------------------------------------------------------------
(* Lists.                                                                  *)
Distinct(s) == \A i, k \in 1..Len(s) : s[i] = s[k] => i = k

(* w is s without its element k.                                           *)
Skips(s, k, w) == /\ w \in Seq(Timers) /\ Len(w) = Len(s) - 1
                  /\ \A i \in 1..(Len(s) - 1) : w[i] = IF i < k THEN s[i] ELSE s[i + 1]

(* w is s with t behind it.                                                *)
Appends(s, t, w) == /\ w \in Seq(Timers) /\ Len(w) = Len(s) + 1
                    /\ \A i \in 1..(Len(s) + 1) : w[i] = IF i <= Len(s) THEN s[i] ELSE t

(* Taking a timer out of a list skips its one element.                     *)
LEMMA WithoutSkips ==
  ASSUME NEW s \in Seq(Timers), Distinct(s), NEW k \in 1..Len(s)
  PROVE  Skips(s, k, Without(s, s[k]))
<1> DEFINE n == Len(s)
           left == SubSeq(s, 1, k - 1)
           right == SubSeq(s, k + 1, n)
           w == Without(s, s[k])
<1>1. n \in Nat /\ k \in Nat /\ k >= 1 /\ k <= n /\ k \in 1..n
  OBVIOUS
<1>2. (CHOOSE i \in 1..n : s[i] = s[k]) = k
  <2>1. \A i \in 1..n : s[i] = s[k] => i = k
    BY DEF Distinct
  <2> HIDE DEF n
  <2> QED
    BY <1>1, <2>1
<1>3. w = left \o right
  BY <1>2 DEF Without
<1>4. \A i \in 1..n : s[i] \in Timers
  BY ElementOfSeq
<1>5. /\ left \in Seq(Timers) /\ Len(left) = k - 1
      /\ \A i \in 1..(k - 1) : left[i] = s[i]
  <2>1. \A i \in 1..(k - 1) : s[i] \in Timers
    BY <1>1, <1>4
  <2> QED
    BY <1>1, <2>1, SubSeqProperties
<1>6. /\ right \in Seq(Timers) /\ Len(right) = n - k
      /\ \A i \in 1..(n - k) : right[i] = s[k + i]
  <2>1. \A i \in (k + 1)..n : s[i] \in Timers
    BY <1>1, <1>4
  <2>2. /\ right \in Seq(Timers) /\ Len(right) = IF k + 1 <= n THEN n - (k + 1) + 1 ELSE 0
        /\ \A i \in 1..(n - (k + 1) + 1) : right[i] = s[(k + 1) + i - 1]
    BY <1>1, <2>1, SubSeqProperties
  <2> QED
    BY <1>1, <2>2
<1> HIDE DEF n, left, right, w
<1>7. w \in Seq(Timers) /\ Len(w) = n - 1
  <2>1. w \in Seq(Timers) /\ Len(w) = Len(left) + Len(right)
    BY <1>3, <1>5, <1>6, ConcatProperties
  <2> QED
    BY <1>1, <1>5, <1>6, <2>1
<1>8. \A i \in 1..(n - 1) : w[i] = IF i < k THEN s[i] ELSE s[i + 1]
  <2> SUFFICES ASSUME NEW i \in 1..(n - 1) PROVE w[i] = IF i < k THEN s[i] ELSE s[i + 1]
    OBVIOUS
  <2>1. w[i] = IF i <= k - 1 THEN left[i] ELSE right[i - (k - 1)]
    BY <1>1, <1>3, <1>5, <1>6, ConcatProperties
  <2>2. CASE i < k
    BY <1>1, <1>5, <2>1, <2>2
  <2>3. CASE i >= k
    <3>1. i - (k - 1) \in 1..(n - k) /\ k + (i - (k - 1)) = i + 1
      BY <1>1, <2>3
    <3> QED
      BY <1>1, <1>6, <2>1, <2>3, <3>1
  <2> QED
    BY <1>1, <2>2, <2>3
<1> QED
  BY <1>7, <1>8 DEF Skips, n, w

(* Where nothing expires later, a timer is put at the end.                 *)
LEMMA InsertAppends ==
  ASSUME NEW s \in Seq(Timers), NEW t \in Timers, NEW exp, NEW e,
         \A i \in 1..Len(s) : ~(e < exp[s[i]])
  PROVE  Appends(s, t, InsertBy(s, exp, t, e))
<1> DEFINE n == Len(s)
           a == SubSeq(s, 1, n)
           b == SubSeq(s, n + 1, n)
           w == (a \o <<t>>) \o b
<1>1. n \in Nat /\ \A i \in 1..n : s[i] \in Timers
  BY ElementOfSeq
<1>2. InsertBy(s, exp, t, e) = w
  <2>1. {i \in 1..Len(s) : e < exp[s[i]]} = {}
    OBVIOUS
  <2>2. n + 1 - 1 = n
    BY <1>1
  <2> QED
    BY <2>1, <2>2 DEF InsertBy
<1>3. a \in Seq(Timers) /\ Len(a) = n /\ \A i \in 1..n : a[i] = s[i]
  BY <1>1, SubSeqProperties
<1>4. b = << >>
  <2>1. /\ n + 1 \in 1..(n + 1) /\ n \in n..n
    BY <1>1
  <2>2. b \in Seq(Timers) /\ Len(b) = IF n + 1 <= n THEN n - (n + 1) + 1 ELSE 0
    BY <1>1, SubSeqProperties
  <2> QED
    BY <1>1, <2>2, EmptySeq
<1>5. /\ <<t>> \in Seq(Timers) /\ Len(<<t>>) = 1 /\ <<t>>[1] = t
  OBVIOUS
<1> HIDE DEF n, a, b
<1>6. /\ a \o <<t>> \in Seq(Timers) /\ Len(a \o <<t>>) = n + 1
      /\ \A i \in 1..(n + 1) : (a \o <<t>>)[i] = IF i <= n THEN s[i] ELSE t
  <2>1. /\ a \o <<t>> \in Seq(Timers) /\ Len(a \o <<t>>) = Len(a) + Len(<<t>>)
        /\ \A i \in 1..(Len(a) + Len(<<t>>)) :
             (a \o <<t>>)[i] = IF i <= Len(a) THEN a[i] ELSE <<t>>[i - Len(a)]
    BY <1>3, <1>5, ConcatProperties
  <2>2. \A i \in 1..(n + 1) : ~(i <= n) => i - n = 1
    BY <1>1
  <2>3. Len(a \o <<t>>) = n + 1
    BY <1>3, <1>5, <2>1
  <2>4. \A i \in 1..(n + 1) : (a \o <<t>>)[i] = IF i <= n THEN s[i] ELSE t
    <3> SUFFICES ASSUME NEW i \in 1..(n + 1) PROVE (a \o <<t>>)[i] = IF i <= n THEN s[i] ELSE t
      OBVIOUS
    <3>1. (a \o <<t>>)[i] = IF i <= n THEN a[i] ELSE <<t>>[i - n]
      BY <1>3, <1>5, <2>1
    <3>2. CASE i <= n
      BY <1>1, <1>3, <3>1, <3>2
    <3>3. CASE ~(i <= n)
      BY <1>5, <2>2, <3>1, <3>3
    <3> QED
      BY <3>2, <3>3
  <2> QED
    BY <2>1, <2>3, <2>4
<1>7. w = a \o <<t>>
  BY <1>4, <1>6, ConcatEmptySeq
<1> HIDE DEF w
<1> QED
  BY <1>2, <1>6, <1>7 DEF Appends, n

(* The rest of a list, element by element.                                 *)
LEMMA SubSeqFrom ==
  ASSUME NEW s \in Seq(Timers), NEW k \in 1..Len(s)
  PROVE  /\ SubSeq(s, k, Len(s)) \in Seq(Timers)
         /\ Len(SubSeq(s, k, Len(s))) = Len(s) - k + 1
         /\ \A i \in 1..(Len(s) - k + 1) : SubSeq(s, k, Len(s))[i] = s[k + i - 1]
         /\ SubSeq(s, k, Len(s)) =
              <<s[k]>> \o (IF k < Len(s) THEN SubSeq(s, k + 1, Len(s)) ELSE << >>)
<1> DEFINE n == Len(s)
           a == SubSeq(s, k, n)
           b == IF k < n THEN SubSeq(s, k + 1, n) ELSE << >>
           c == <<s[k]>>
<1>1. n \in Nat /\ k \in Nat /\ k >= 1 /\ k <= n /\ \A i \in 1..n : s[i] \in Timers
  BY ElementOfSeq
<1>2. /\ a \in Seq(Timers) /\ Len(a) = n - k + 1
      /\ \A i \in 1..(n - k + 1) : a[i] = s[k + i - 1]
  <2>1. \A i \in k..n : s[i] \in Timers
    BY <1>1
  <2>2. /\ a \in Seq(Timers) /\ Len(a) = IF k <= n THEN n - k + 1 ELSE 0
        /\ \A i \in 1..(n - k + 1) : a[i] = s[k + i - 1]
    BY <1>1, <2>1, SubSeqProperties
  <2> QED
    BY <1>1, <2>2
<1>3. /\ b \in Seq(Timers) /\ Len(b) = n - k /\ \A i \in 1..(n - k) : b[i] = s[k + i]
  <2>1. CASE k < n
    <3>1. \A i \in (k + 1)..n : s[i] \in Timers
      BY <1>1
    <3> DEFINE p == k + 1
    <3>2. p \in Nat /\ p <= n /\ p >= 1 /\ n - p + 1 = n - k /\ \A i \in 1..(n - k) : p + i - 1 = k + i
      BY <1>1, <2>1
    <3> HIDE DEF p, n
    <3>3. /\ SubSeq(s, p, n) \in Seq(Timers) /\ Len(SubSeq(s, p, n)) = IF p <= n THEN n - p + 1 ELSE 0
          /\ \A i \in 1..(n - p + 1) : SubSeq(s, p, n)[i] = s[p + i - 1]
      BY <1>1, <3>1, <3>2, SubSeqProperties DEF p
    <3>4. b = SubSeq(s, p, n)
      BY <2>1 DEF p
    <3>5. Len(b) = n - k /\ b \in Seq(Timers)
      BY <3>2, <3>3, <3>4
    <3>6. \A i \in 1..(n - k) : b[i] = s[k + i]
      BY <3>2, <3>3, <3>4
    <3> QED
      BY <3>5, <3>6
  <2>2. CASE ~(k < n)
    <3>1. n - k = 0 /\ b = << >>
      BY <1>1, <2>2
    <3> QED
      BY <3>1
  <2> QED
    BY <2>1, <2>2
<1>4. c \in Seq(Timers) /\ Len(c) = 1 /\ c[1] = s[k]
  BY <1>1
<1> HIDE DEF a, b, c, n
<1>5. /\ c \o b \in Seq(Timers) /\ Len(c \o b) = n - k + 1
      /\ \A i \in 1..(n - k + 1) : (c \o b)[i] = IF i <= 1 THEN c[i] ELSE b[i - 1]
  <2>1. /\ c \o b \in Seq(Timers) /\ Len(c \o b) = Len(c) + Len(b)
        /\ \A i \in 1..(Len(c) + Len(b)) : (c \o b)[i] = IF i <= Len(c) THEN c[i] ELSE b[i - Len(c)]
    BY <1>3, <1>4, ConcatProperties
  <2>2. Len(c) + Len(b) = n - k + 1
    BY <1>1, <1>3, <1>4
  <2> QED
    BY <1>4, <2>1, <2>2
<1>6. \A i \in 1..(n - k + 1) : (c \o b)[i] = a[i]
  <2> SUFFICES ASSUME NEW i \in 1..(n - k + 1) PROVE (c \o b)[i] = a[i]
    OBVIOUS
  <2>1. CASE i = 1
    <3>1. k + i - 1 = k
      BY <1>1, <2>1
    <3>2. a[i] = s[k]
      BY <1>2, <3>1
    <3> QED
      BY <1>4, <1>5, <2>1, <3>2
  <2>2. CASE i # 1
    <3> DEFINE j == i - 1
    <3>1. j \in 1..(n - k) /\ k + i - 1 = k + j /\ ~(i <= 1)
      BY <1>1, <2>2
    <3> HIDE DEF j
    <3>2. (c \o b)[i] = b[j]
      BY <1>5, <3>1 DEF j
    <3>3. b[j] = s[k + j] /\ a[i] = s[k + j]
      BY <1>2, <1>3, <3>1
    <3> QED
      BY <3>2, <3>3
  <2> QED
    BY <2>1, <2>2
<1>7. a = c \o b
  BY <1>2, <1>5, <1>6, SeqEqual
<1> QED
  BY <1>2, <1>7 DEF a, b, c, n

(* A list without one element: its timers and their order.                 *)
LEMMA SkipFacts ==
  ASSUME NEW s \in Seq(Timers), Distinct(s), NEW k \in 1..Len(s), NEW w, Skips(s, k, w)
  PROVE  /\ Distinct(w) /\ Running(w) = Running(s) \ {s[k]}
         /\ \A exp : Sorted(s, exp) => Sorted(w, exp)
<1> DEFINE n == Len(s)
<1>1. /\ n \in Nat /\ k \in Nat /\ k >= 1 /\ k <= n /\ w \in Seq(Timers) /\ Len(w) = n - 1
      /\ \A i \in 1..(n - 1) : w[i] = IF i < k THEN s[i] ELSE s[i + 1]
  BY DEF Skips
<1> HIDE DEF n
<1>2. \A i \in 1..(n - 1) : \E a \in 1..n : w[i] = s[a] /\ a # k /\ a = (IF i < k THEN i ELSE i + 1)
  <2> SUFFICES ASSUME NEW i \in 1..(n - 1)
               PROVE  \E a \in 1..n : w[i] = s[a] /\ a # k /\ a = (IF i < k THEN i ELSE i + 1)
    OBVIOUS
  <2> DEFINE a == IF i < k THEN i ELSE i + 1
  <2>1. a \in 1..n /\ a # k
    BY <1>1
  <2>2. w[i] = s[a]
    BY <1>1
  <2> HIDE DEF a
  <2>3. w[i] = s[a] /\ a # k /\ a = a
    BY <2>1, <2>2
  <2> QED
    BY <2>1, <2>3 DEF a
<1>3. Distinct(w)
  BY <1>1 DEF Distinct, n
<1>4. Running(w) = Running(s) \ {s[k]}
  <2>1. ASSUME NEW i \in 1..(n - 1) PROVE w[i] \in Running(s) \ {s[k]}
    <3>1. PICK a \in 1..n : w[i] = s[a] /\ a # k
      BY <1>2
    <3>2. s[a] \in Running(s)
      BY DEF Running, n
    <3>3. s[a] # s[k]
      BY <1>1, <3>1 DEF Distinct, n
    <3> QED
      BY <3>1, <3>2, <3>3
  <2>2. ASSUME NEW i \in 1..n, s[i] # s[k] PROVE \E a \in 1..(n - 1) : w[a] = s[i]
    <3>1. CASE i < k
      BY <1>1, <3>1
    <3>2. CASE i > k
      <4>1. i - 1 \in 1..(n - 1) /\ ~(i - 1 < k) /\ (i - 1) + 1 = i
        BY <1>1, <3>2
      <4> QED
        BY <1>1, <4>1
    <3> QED
      BY <1>1, <2>2, <3>1, <3>2
  <2>3. Running(w) = {w[i] : i \in 1..(n - 1)}
    BY <1>1 DEF Running
  <2>4. Running(s) \ {s[k]} \subseteq {w[i] : i \in 1..(n - 1)}
    BY <2>2 DEF Running, n
  <2> QED
    BY <2>1, <2>3, <2>4
<1>5. ASSUME NEW exp, Sorted(s, exp) PROVE Sorted(w, exp)
  <2> SUFFICES ASSUME NEW i \in 1..(n - 1), NEW j \in 1..(n - 1), i < j
               PROVE  exp[w[i]] <= exp[w[j]]
    BY <1>1 DEF Sorted
  <2>1. PICK a \in 1..n : w[i] = s[a] /\ a = (IF i < k THEN i ELSE i + 1)
    BY <1>2
  <2>2. PICK b \in 1..n : w[j] = s[b] /\ b = (IF j < k THEN j ELSE j + 1)
    BY <1>2
  <2>3. a < b
    BY <1>1, <2>1, <2>2
  <2> QED
    BY <1>5, <2>1, <2>2, <2>3 DEF Sorted, n
<1> QED
  BY <1>3, <1>4, <1>5

(* A list with a timer behind it that expires last.                        *)
LEMMA AppendFacts ==
  ASSUME NEW s \in Seq(Timers), Distinct(s), NEW t \in Timers, t \notin Running(s),
         NEW w, Appends(s, t, w)
  PROVE  Distinct(w) /\ Running(w) = Running(s) \union {t}
<1> DEFINE n == Len(s)
<1>1. /\ n \in Nat /\ w \in Seq(Timers) /\ Len(w) = n + 1
      /\ \A i \in 1..(n + 1) : w[i] = IF i <= n THEN s[i] ELSE t
      /\ \A i \in 1..n : s[i] \in Running(s)
  BY DEF Appends, Running
<1> HIDE DEF n
<1>2. Distinct(w)
  BY <1>1 DEF Distinct, n
<1>3. Running(w) = Running(s) \union {t}
  <2>1. Running(w) = {w[i] : i \in 1..(n + 1)} /\ Running(s) = {s[i] : i \in 1..n}
    BY <1>1 DEF Running, n
  <2>2. \A i \in 1..(n + 1) : w[i] \in Running(s) \union {t}
    BY <1>1
  <2>3. \A i \in 1..n : i \in 1..(n + 1) /\ w[i] = s[i]
    BY <1>1
  <2>4. n + 1 \in 1..(n + 1) /\ w[n + 1] = t
    BY <1>1
  <2> QED
    BY <2>1, <2>2, <2>3, <2>4
<1> QED
  BY <1>2, <1>3

LEMMA AppendSorted ==
  ASSUME NEW s \in Seq(Timers), NEW t \in Timers, NEW w, Appends(s, t, w),
         NEW exp, NEW new, Sorted(s, exp),
         \A x \in Running(s) : new[x] = exp[x] /\ exp[x] <= new[t]
  PROVE  Sorted(w, new)
<1> DEFINE n == Len(s)
<1>1. /\ n \in Nat /\ w \in Seq(Timers) /\ Len(w) = n + 1
      /\ \A i \in 1..(n + 1) : w[i] = IF i <= n THEN s[i] ELSE t
      /\ \A i \in 1..n : s[i] \in Running(s)
  BY DEF Appends, Running
<1> HIDE DEF n
<1> SUFFICES ASSUME NEW i \in 1..(n + 1), NEW j \in 1..(n + 1), i < j
             PROVE  new[w[i]] <= new[w[j]]
  BY <1>1 DEF Sorted
<1>2. i \in 1..n /\ w[i] = s[i] /\ s[i] \in Running(s)
  BY <1>1
<1>3. CASE j <= n
  <2>1. j \in 1..n /\ w[j] = s[j] /\ s[j] \in Running(s)
    BY <1>1, <1>3
  <2>2. exp[s[i]] <= exp[s[j]]
    BY <1>2, <2>1 DEF Sorted, n
  <2> QED
    BY <1>2, <2>1, <2>2
<1>4. CASE ~(j <= n)
  <2>1. w[j] = t
    BY <1>1, <1>4
  <2> QED
    BY <1>2, <2>1
<1> QED
  BY <1>3, <1>4

-----------------------------------------------------------------------------
(* The pointers of a list.                                                 *)
Links(s, nx, pv) ==
  \A i \in 1..Len(s) : /\ nx[s[i]] = IF i < Len(s) THEN s[i + 1] ELSE Null
                       /\ pv[s[i]] = IF i > 1 THEN s[i - 1] ELSE Null

Pointers == [Timers -> Timers \union {Null}]

(* add_timer at the end of the list: the last element points to the new    *)
(* one and back.                                                           *)
LEMMA AppendLinks ==
  ASSUME NEW s \in Seq(Timers), Distinct(s), Len(s) > 0, NEW t \in Timers, t \notin Running(s),
         NEW nx \in Pointers, NEW pv \in Pointers, Links(s, nx, pv), NEW w, Appends(s, t, w),
         NEW nx2, nx2[t] = Null, nx2[s[Len(s)]] = t,
         \A x \in Timers : x # t /\ x # s[Len(s)] => nx2[x] = nx[x],
         NEW pv2, pv2[t] = s[Len(s)], \A x \in Timers : x # t => pv2[x] = pv[x]
  PROVE  Links(w, nx2, pv2) /\ w[1] = s[1] /\ w[Len(w)] = t
<1> DEFINE n == Len(s)
           p == s[n]
<1>1. /\ n \in Nat /\ n > 0 /\ w \in Seq(Timers) /\ Len(w) = n + 1
      /\ \A i \in 1..(n + 1) : w[i] = IF i <= n THEN s[i] ELSE t
      /\ \A i \in 1..n : s[i] \in Running(s) /\ s[i] \in Timers
  BY ElementOfSeq DEF Appends, Running
<1>2. \A i \in 1..n : s[i] # t /\ (s[i] = p <=> i = n)
  BY <1>1 DEF Distinct
<1>3. \A i \in 1..n : /\ nx[s[i]] = IF i < n THEN s[i + 1] ELSE Null
                      /\ pv[s[i]] = IF i > 1 THEN s[i - 1] ELSE Null
  BY DEF Links
<1>4. /\ nx2[t] = Null /\ nx2[p] = t /\ pv2[t] = p
      /\ \A x \in Timers : x # t /\ x # p => nx2[x] = nx[x]
      /\ \A x \in Timers : x # t => pv2[x] = pv[x]
  OBVIOUS
<1>5. w[n] = p
  BY <1>1
<1> HIDE DEF n, p
<1>6. ASSUME NEW i \in 1..(n + 1)
      PROVE  /\ nx2[w[i]] = IF i < n + 1 THEN w[i + 1] ELSE Null
             /\ pv2[w[i]] = IF i > 1 THEN w[i - 1] ELSE Null
  <2>1. CASE i < n
    <3>1. /\ i \in 1..n /\ i < n + 1 /\ i + 1 \in 1..n /\ i + 1 \in 1..(n + 1) /\ i # n
          /\ (i > 1 => i - 1 \in 1..n /\ i - 1 \in 1..(n + 1))
      BY <1>1, <2>1
    <3>2. w[i] = s[i] /\ w[i + 1] = s[i + 1] /\ (i > 1 => w[i - 1] = s[i - 1])
      BY <1>1, <3>1
    <3>3. s[i] \in Timers /\ s[i] # t /\ s[i] # p
      BY <1>1, <1>2, <3>1
    <3>4. nx2[w[i]] = w[i + 1]
      BY <1>3, <1>4, <2>1, <3>1, <3>2, <3>3
    <3>5. pv2[w[i]] = IF i > 1 THEN w[i - 1] ELSE Null
      BY <1>3, <1>4, <3>1, <3>2, <3>3
    <3> QED
      BY <3>1, <3>4, <3>5
  <2>2. CASE i = n
    <3>1. /\ i \in 1..n /\ i + 1 \in 1..(n + 1) /\ ~(i + 1 <= n) /\ i < n + 1
          /\ (i > 1 => i - 1 \in 1..n /\ i - 1 \in 1..(n + 1))
      BY <1>1, <2>2
    <3>2. w[i] = p /\ w[i] = s[i] /\ w[i + 1] = t /\ (i > 1 => w[i - 1] = s[i - 1])
      BY <1>1, <1>5, <2>2, <3>1
    <3> QED
      BY <1>1, <1>2, <1>3, <1>4, <2>2, <3>1, <3>2
  <2>3. CASE i = n + 1
    <3>1. ~(i < n + 1) /\ i > 1 /\ i - 1 = n /\ ~(i <= n)
      BY <1>1, <2>3
    <3>2. w[i] = t /\ w[i - 1] = p
      BY <1>1, <1>5, <3>1
    <3> QED
      BY <1>4, <3>1, <3>2
  <2> QED
    BY <1>1, <2>1, <2>2, <2>3
<1>7. Links(w, nx2, pv2)
  <2>1. Len(w) = n + 1
    BY <1>1
  <2> QED
    BY <1>6, <2>1 DEF Links
<1>8. w[1] = s[1] /\ w[n + 1] = t
  BY <1>1
<1> QED
  BY <1>1, <1>7, <1>8 DEF n, p

(* Unlinking an element: its neighbours point to one another.              *)
LEMMA SkipLinks ==
  ASSUME NEW s \in Seq(Timers), Distinct(s), Len(s) > 1, NEW k \in 1..Len(s),
         NEW nx \in Pointers, NEW pv \in Pointers, Links(s, nx, pv), NEW w, Skips(s, k, w),
         NEW nx2, nx2 = IF k > 1 THEN [nx EXCEPT ![pv[s[k]]] = nx[s[k]]] ELSE nx,
         NEW pv2, pv2 = IF k < Len(s) THEN [pv EXCEPT ![nx[s[k]]] = pv[s[k]]] ELSE pv
  PROVE  /\ Links(w, nx2, pv2)
         /\ w[1] = IF k = 1 THEN s[2] ELSE s[1]
         /\ w[Len(w)] = IF k = Len(s) THEN s[Len(s) - 1] ELSE s[Len(s)]
<1> DEFINE n == Len(s)
           x == s[k]
<1>1. /\ n \in Nat /\ n > 1 /\ k \in Nat /\ k >= 1 /\ k <= n
      /\ w \in Seq(Timers) /\ Len(w) = n - 1
      /\ \A i \in 1..(n - 1) : w[i] = IF i < k THEN s[i] ELSE s[i + 1]
      /\ \A i \in 1..n : s[i] \in Timers
      /\ \A i, j \in 1..n : s[i] = s[j] => i = j
  BY ElementOfSeq DEF Skips, Distinct
<1>2. \A i \in 1..n : /\ nx[s[i]] = IF i < n THEN s[i + 1] ELSE Null
                      /\ pv[s[i]] = IF i > 1 THEN s[i - 1] ELSE Null
  BY DEF Links
<1>3. /\ nx[x] = IF k < n THEN s[k + 1] ELSE Null
      /\ pv[x] = IF k > 1 THEN s[k - 1] ELSE Null
  BY <1>2
<1>4. /\ k > 1 => nx2[s[k - 1]] = nx[x]
      /\ \A i \in 1..n : i # k - 1 => nx2[s[i]] = nx[s[i]]
  <2>1. CASE k > 1
    <3>1. k - 1 \in 1..n /\ pv[x] = s[k - 1] /\ s[k - 1] \in Timers
      BY <1>1, <1>3, <2>1
    <3>2. \A i \in 1..n : i # k - 1 => s[i] # s[k - 1] /\ s[i] \in Timers
      BY <1>1, <3>1
    <3>3. nx2 = [nx EXCEPT ![s[k - 1]] = nx[x]]
      BY <2>1, <3>1
    <3> HIDE DEF n, x
    <3> QED
      BY <3>1, <3>2, <3>3 DEF Pointers
  <2>2. CASE ~(k > 1)
    BY <2>2
  <2> QED
    BY <2>1, <2>2
<1>5. /\ k < n => pv2[s[k + 1]] = pv[x]
      /\ \A i \in 1..n : i # k + 1 => pv2[s[i]] = pv[s[i]]
  <2>1. CASE k < n
    <3>1. k + 1 \in 1..n /\ nx[x] = s[k + 1] /\ s[k + 1] \in Timers
      BY <1>1, <1>3, <2>1
    <3>2. \A i \in 1..n : i # k + 1 => s[i] # s[k + 1] /\ s[i] \in Timers
      BY <1>1, <3>1
    <3>3. pv2 = [pv EXCEPT ![s[k + 1]] = pv[x]]
      BY <2>1, <3>1
    <3> HIDE DEF n, x
    <3> QED
      BY <3>1, <3>2, <3>3 DEF Pointers
  <2>2. CASE ~(k < n)
    BY <2>2
  <2> QED
    BY <2>1, <2>2
<1> HIDE DEF n, x
<1>6. ASSUME NEW i \in 1..(n - 1)
      PROVE  nx2[w[i]] = IF i < n - 1 THEN w[i + 1] ELSE Null
  <2>1. CASE i < k - 1
    <3>1. /\ i \in 1..n /\ i + 1 \in 1..(n - 1) /\ i < k /\ i + 1 < k /\ i < n /\ i < n - 1 /\ i # k - 1
      BY <1>1, <2>1
    <3> QED
      BY <1>1, <1>2, <1>4, <3>1
  <2>2. CASE i = k - 1
    <3>1. i < k /\ k > 1 /\ i + 1 = k /\ (k < n <=> i < n - 1) /\ ~(k < k)
      BY <1>1, <2>2
    <3>2. w[i] = s[k - 1] /\ (k < n => w[k] = s[k + 1])
      BY <1>1, <2>2, <3>1
    <3> QED
      BY <1>3, <1>4, <3>1, <3>2
  <2>3. CASE i >= k
    <3> DEFINE j == i + 1
    <3>1. /\ ~(i < k) /\ j \in 1..n /\ j # k - 1 /\ (j < n <=> i < n - 1)
          /\ (j < n => j \in 1..(n - 1) /\ ~(j < k))
      BY <1>1, <2>3
    <3>2. w[i] = s[j]
      BY <1>1, <3>1
    <3> HIDE DEF j
    <3>3. nx2[w[i]] = IF j < n THEN s[j + 1] ELSE Null
      BY <1>2, <1>4, <3>1, <3>2
    <3>4. j < n => w[j] = s[j + 1]
      BY <1>1, <3>1
    <3> QED
      BY <3>1, <3>3, <3>4 DEF j
  <2> QED
    BY <1>1, <2>1, <2>2, <2>3
<1>7. ASSUME NEW i \in 1..(n - 1)
      PROVE  pv2[w[i]] = IF i > 1 THEN w[i - 1] ELSE Null
  <2>1. CASE i < k
    <3>1. /\ i \in 1..n /\ i # k + 1 /\ (i > 1 => i - 1 \in 1..(n - 1) /\ i - 1 < k)
      BY <1>1, <2>1
    <3>2. w[i] = s[i] /\ (i > 1 => w[i - 1] = s[i - 1])
      BY <1>1, <2>1, <3>1
    <3>3. pv2[s[i]] = IF i > 1 THEN s[i - 1] ELSE Null
      BY <1>2, <1>5, <3>1
    <3> QED
      BY <3>2, <3>3
  <2>2. CASE i = k
    <3>1. k < n /\ ~(i < k) /\ (i > 1 => i - 1 \in 1..(n - 1) /\ i - 1 < k)
      BY <1>1, <2>2
    <3>2. w[i] = s[k + 1] /\ (k > 1 => w[k - 1] = s[k - 1])
      BY <1>1, <2>2, <3>1
    <3> QED
      BY <1>3, <1>5, <2>2, <3>1, <3>2
  <2>3. CASE i > k
    <3> DEFINE j == i + 1
               h == i - 1
    <3>1. /\ ~(i < k) /\ j \in 1..n /\ j # k + 1 /\ j > 1 /\ j - 1 = i /\ i > 1
          /\ h \in 1..(n - 1) /\ ~(h < k) /\ h + 1 = i
      BY <1>1, <2>3
    <3>2. w[i] = s[j]
      BY <1>1, <3>1
    <3> HIDE DEF j, h
    <3>3. pv2[w[i]] = s[i]
      BY <1>2, <1>5, <3>1, <3>2
    <3>4. w[h] = s[i]
      BY <1>1, <3>1
    <3> QED
      BY <3>1, <3>3, <3>4 DEF h
  <2> QED
    BY <1>1, <2>1, <2>2, <2>3
<1>8. Links(w, nx2, pv2)
  BY <1>1, <1>6, <1>7 DEF Links
<1>9. w[1] = IF k = 1 THEN s[2] ELSE s[1]
  BY <1>1
<1>10. w[n - 1] = IF k = n THEN s[n - 1] ELSE s[n]
  <2>1. n - 1 \in 1..(n - 1) /\ (n - 1 < k <=> k = n) /\ n - 1 + 1 = n
    BY <1>1
  <2> QED
    BY <1>1, <2>1
<1> QED
  BY <1>1, <1>8, <1>9, <1>10 DEF n, x

-----------------------------------------------------------------------------
(* Following the pointers from an element of the list gives the rest of it. *)
Walk(L, nx, t) == LET walk[x \in Timers \union {Null}] ==
                        IF x \in L THEN <<x>> \o walk[nx[x]] ELSE << >>
                  IN  walk[t]

(* What following the pointers gives, for a list s and from outside of it. *)
LEMMA WalkIs ==
  ASSUME NEW s \in Seq(Timers), Distinct(s), NEW nx \in Pointers,
         \A i \in 1..Len(s) : nx[s[i]] = IF i < Len(s) THEN s[i + 1] ELSE Null
  PROVE  /\ \A k \in 1..Len(s) : Walk(Running(s), nx, s[k]) = SubSeq(s, k, Len(s))
         /\ \A x \in Timers \union {Null} : x \notin Running(s) => Walk(Running(s), nx, x) = << >>
<1> DEFINE n == Len(s)
           D == Timers \union {Null}
           L == Running(s)
           Rest(k) == SubSeq(s, k, n)
           G(f) == [x \in D |-> IF x \in L THEN <<x>> \o f[nx[x]] ELSE << >>]
           g == [x \in D |-> IF x \in L THEN Rest(CHOOSE k \in 1..n : s[k] = x) ELSE << >>]
           f == CHOOSE h : h = G(h)
<1>1. /\ n \in Nat /\ \A i \in 1..n : s[i] \in Timers /\ s[i] \in L
      /\ \A x \in L : \E i \in 1..n : x = s[i]
      /\ L \subseteq Timers /\ Null \notin L
  BY ElementOfSeq, TimerAssumption DEF Running
<1>2. \A k \in 1..n : Rest(k) = <<s[k]>> \o (IF k < n THEN Rest(k + 1) ELSE << >>)
  BY SubSeqFrom
<1>3. \A k \in 1..n : nx[s[k]] = IF k < n THEN s[k + 1] ELSE Null
  OBVIOUS
<1>4. \A i, k \in 1..n : s[i] = s[k] => i = k
  BY DEF Distinct
<1>5. \A x \in D : Walk(L, nx, x) = f[x]
  BY DEF Walk
<1> HIDE DEF n, L, Rest, f
<1>6. \A k \in 1..n : g[s[k]] = Rest(k)
  <2> SUFFICES ASSUME NEW k \in 1..n PROVE g[s[k]] = Rest(k)
    OBVIOUS
  <2>1. (CHOOSE i \in 1..n : s[i] = s[k]) = k
    BY <1>4
  <2> QED
    BY <1>1, <2>1
<1>7. \A x \in D : x \notin L => g[x] = << >>
  OBVIOUS
<1>8. g = G(g)
  <2>1. ASSUME NEW x \in D PROVE g[x] = G(g)[x]
    <3>1. CASE x \in L
      <4>1. PICK k \in 1..n : x = s[k]
        BY <1>1, <3>1
      <4>2. g[nx[x]] = IF k < n THEN Rest(k + 1) ELSE << >>
        <5>1. CASE k < n
          <6>1. k + 1 \in 1..n /\ nx[x] = s[k + 1]
            BY <1>1, <1>3, <4>1, <5>1
          <6> QED
            BY <1>6, <5>1, <6>1
        <5>2. CASE ~(k < n)
          <6>1. nx[x] = Null /\ Null \in D /\ Null \notin L
            BY <1>1, <1>3, <4>1, <5>2
          <6> HIDE DEF g
          <6> QED
            BY <1>7, <5>2, <6>1
        <5> QED
          BY <5>1, <5>2
      <4>3. g[x] = Rest(k) /\ <<x>> \o g[nx[x]] = Rest(k)
        <5> HIDE DEF g
        <5> QED
          BY <1>2, <1>6, <4>1, <4>2
      <4> HIDE DEF g
      <4>4. G(g)[x] = <<x>> \o g[nx[x]]
        BY <3>1
      <4> QED
        BY <4>3, <4>4
    <3>2. CASE x \notin L
      BY <3>2
    <3> QED
      BY <3>1, <3>2
  <2> QED
    BY <2>1
<1>9. f = G(f)
  <2> HIDE DEF g, G
  <2> QED
    BY <1>8 DEF f
<1>10. \A x \in D : f[x] = IF x \in L THEN <<x>> \o f[nx[x]] ELSE << >>
  BY <1>9
<1> HIDE DEF g, G
<1>11. \A x \in D : x \notin L => f[x] = << >>
  BY <1>10
<1>12. \A k \in 1..n : f[s[k]] = Rest(k)
  <2> DEFINE S == {j \in 1..n : f[s[n + 1 - j]] = Rest(n + 1 - j)}
  <2> SUFFICES ASSUME n > 0 PROVE 1..n \subseteq S
    <3> SUFFICES ASSUME NEW k \in 1..n PROVE f[s[k]] = Rest(k)
      OBVIOUS
    <3>1. n + 1 - k \in 1..n /\ n + 1 - (n + 1 - k) = k
      BY <1>1
    <3>2. n > 0
      BY <1>1
    <3>3. 1..n \subseteq S
      BY <3>2
    <3> DEFINE j == n + 1 - k
    <3>4. j \in 1..n /\ n + 1 - j = k
      BY <3>1
    <3> HIDE DEF j
    <3> QED
      BY <3>3, <3>4
  <2>1. 1 \in S
    <3>1. n \in 1..n /\ 1 \in 1..n /\ n + 1 - 1 = n /\ ~(n < n)
      BY <1>1
    <3>2. nx[s[n]] = Null /\ Null \in D /\ Null \notin L /\ s[n] \in L /\ s[n] \in D
      BY <1>1, <1>3, <3>1
    <3>3. f[s[n]] = <<s[n]>> \o << >>
      BY <1>10, <1>11, <3>2
    <3>4. Rest(n) = <<s[n]>> \o << >>
      BY <1>2, <3>1
    <3> QED
      BY <3>1, <3>3, <3>4
  <2>2. ASSUME NEW i \in 1..(n - 1), i \in S PROVE i + 1 \in S
    <3> DEFINE k == n + 1 - (i + 1)
               p == n + 1 - i
    <3>1. i + 1 \in 1..n /\ k \in 1..n /\ p \in 1..n /\ k < n /\ p = k + 1
      BY <1>1
    <3>2. f[s[p]] = Rest(p)
      BY <2>2
    <3> SUFFICES f[s[k]] = Rest(k)
      BY <3>1
    <3> HIDE DEF k, p, S
    <3>3. s[k] \in L /\ s[k] \in D /\ nx[s[k]] = s[p]
      BY <1>1, <1>3, <3>1
    <3>4. f[s[k]] = <<s[k]>> \o Rest(p)
      BY <1>10, <3>2, <3>3
    <3> QED
      BY <1>2, <3>1, <3>4
  <2> HIDE DEF S
  <2> QED
    BY <1>1, <2>1, <2>2, Upwards
<1>13. \A k \in 1..n : s[k] \in D
  BY <1>1
<1> QED
  BY <1>5, <1>11, <1>12, <1>13 DEF n, L, Rest

-----------------------------------------------------------------------------
(* The list s of the timers L, from h to l.                                *)
IsList(s, L, h, l, nx, pv, exp) ==
  /\ s \in Seq(Timers) /\ Distinct(s) /\ Running(s) = L
  /\ Links(s, nx, pv)
  /\ Len(s) > 0 => h = s[1] /\ l = s[Len(s)]
  /\ Sorted(s, exp)

(* The nodes of the list s.                                                *)
LEMMA NodesAre ==
  ASSUME NEW s, NEW L, NEW h \in Timers \union {Null}, NEW l, NEW nx \in Pointers, NEW pv, NEW exp,
         IsList(s, L, h, l, nx, pv, exp)
  PROVE  Walk(L, nx, h) = s
<1>1. s \in Seq(Timers) /\ Distinct(s) /\ Running(s) = L /\ (Len(s) > 0 => h = s[1])
  BY DEF IsList
<1>2. \A i \in 1..Len(s) : nx[s[i]] = IF i < Len(s) THEN s[i + 1] ELSE Null
  BY DEF IsList, Links
<1>3. /\ \A k \in 1..Len(s) : Walk(L, nx, s[k]) = SubSeq(s, k, Len(s))
      /\ \A x \in Timers \union {Null} : x \notin L => Walk(L, nx, x) = << >>
  BY <1>1, <1>2, WalkIs
<1>4. CASE Len(s) > 0
  <2>1. 1 \in 1..Len(s) /\ Len(s) \in Nat
    BY <1>1, <1>4
  <2>2. /\ SubSeq(s, 1, Len(s)) \in Seq(Timers) /\ Len(SubSeq(s, 1, Len(s))) = Len(s) - 1 + 1
        /\ \A i \in 1..(Len(s) - 1 + 1) : SubSeq(s, 1, Len(s))[i] = s[1 + i - 1]
    BY <1>1, <2>1, SubSeqFrom
  <2>3. Len(SubSeq(s, 1, Len(s))) = Len(s) /\ \A i \in 1..Len(s) : SubSeq(s, 1, Len(s))[i] = s[i]
    BY <2>1, <2>2
  <2>4. SubSeq(s, 1, Len(s)) = s
    BY <1>1, <2>2, <2>3, SeqEqual
  <2> QED
    BY <1>1, <1>3, <1>4, <2>1, <2>4
<1>5. CASE ~(Len(s) > 0)
  <2>1. s = << >>
    BY <1>1, <1>5, EmptySeq
  <2>2. L = {}
    BY <1>1, <2>1 DEF Running
  <2> QED
    BY <1>3, <2>1, <2>2
<1> QED
  BY <1>4, <1>5

(* A list has as many elements as timers.                                  *)
LEMMA CountIs ==
  ASSUME NEW s \in Seq(Timers), Distinct(s)
  PROVE  Len(s) = Cardinality(Running(s))
<1> DEFINE n == Len(s)
           f == [i \in 1..n |-> s[i]]
<1>1. n \in Nat
  OBVIOUS
<1>2. f \in Bijection(1..n, Running(s))
  <2>1. f \in [1..n -> Running(s)]
    BY DEF Running
  <2>2. \A i, k \in 1..n : f[i] = f[k] => i = k
    BY DEF Distinct
  <2>3. \A x \in Running(s) : \E i \in 1..n : f[i] = x
    BY DEF Running
  <2> HIDE DEF f, n
  <2> QED
    BY <2>1, <2>2, <2>3 DEF Bijection, Injection, Surjection, IsInjective
<1> HIDE DEF f, n
<1>3. Cardinality(Running(s)) = n
  BY <1>1, <1>2, FS_CountingElements DEF ExistsBijection
<1> QED
  BY <1>3 DEF n

(* The list with t behind it, and without its element k.                   *)
LEMMA AppendList ==
  ASSUME NEW s, NEW L, NEW h, NEW l, NEW nx \in Pointers, NEW pv \in Pointers,
         NEW exp \in [Timers -> Nat], IsList(s, L, h, l, nx, pv, exp), Len(s) > 0,
         NEW t \in Timers, t \notin L, NEW e \in Nat, \A x \in L : exp[x] <= e,
         NEW w, Appends(s, t, w),
         NEW nx2, nx2[t] = Null, nx2[l] = t, \A x \in Timers : x # t /\ x # l => nx2[x] = nx[x],
         NEW pv2, pv2[t] = l, \A x \in Timers : x # t => pv2[x] = pv[x],
         NEW new, new[t] = e, \A x \in Timers : x # t => new[x] = exp[x]
  PROVE  IsList(w, L \union {t}, h, t, nx2, pv2, new)
<1>1. /\ s \in Seq(Timers) /\ Distinct(s) /\ Running(s) = L /\ Links(s, nx, pv)
      /\ h = s[1] /\ l = s[Len(s)] /\ Sorted(s, exp)
  BY DEF IsList
<1>2. w \in Seq(Timers) /\ Len(w) = Len(s) + 1
  BY DEF Appends
<1>3. L \subseteq Timers
  BY <1>1, ElementOfSeq DEF Running
<1>4. \A x \in L : new[x] = exp[x] /\ exp[x] <= new[t]
  BY <1>3
<1>5. Distinct(w) /\ Running(w) = L \union {t} /\ Sorted(w, new)
  <2>1. t \notin Running(s) /\ \A x \in Running(s) : new[x] = exp[x] /\ exp[x] <= new[t]
    BY <1>1, <1>4
  <2>2. Distinct(w) /\ Running(w) = Running(s) \union {t}
    BY <1>1, <2>1, AppendFacts
  <2>3. Sorted(w, new)
    BY <1>1, <2>1, AppendSorted
  <2> QED
    BY <1>1, <2>2, <2>3
<1>6. Links(w, nx2, pv2) /\ w[1] = s[1] /\ w[Len(w)] = t
  <2>1. t \notin Running(s)
    BY <1>1
  <2>2. /\ nx2[s[Len(s)]] = t
        /\ \A x \in Timers : x # t /\ x # s[Len(s)] => nx2[x] = nx[x]
        /\ pv2[t] = s[Len(s)]
    BY <1>1
  <2>3. s \in Seq(Timers) /\ Distinct(s) /\ Links(s, nx, pv)
    BY <1>1
  <2> QED
    BY <2>1, <2>2, <2>3, AppendLinks
<1> QED
  BY <1>1, <1>2, <1>5, <1>6 DEF IsList

LEMMA SkipList ==
  ASSUME NEW s, NEW L, NEW h, NEW l, NEW nx \in Pointers, NEW pv \in Pointers,
         NEW exp, IsList(s, L, h, l, nx, pv, exp), Len(s) > 1,
         NEW k \in 1..Len(s), NEW w, Skips(s, k, w),
         NEW nx2, nx2 = IF k > 1 THEN [nx EXCEPT ![pv[s[k]]] = nx[s[k]]] ELSE nx,
         NEW pv2, pv2 = IF k < Len(s) THEN [pv EXCEPT ![nx[s[k]]] = pv[s[k]]] ELSE pv
  PROVE  IsList(w, L \ {s[k]}, IF k = 1 THEN nx[s[k]] ELSE h, IF k = Len(s) THEN pv[s[k]] ELSE l,
                nx2, pv2, exp)
<1>1. /\ s \in Seq(Timers) /\ Distinct(s) /\ Running(s) = L /\ Links(s, nx, pv)
      /\ h = s[1] /\ l = s[Len(s)] /\ Sorted(s, exp)
  BY DEF IsList
<1>2. w \in Seq(Timers) /\ Len(w) = Len(s) - 1
  BY DEF Skips
<1>3. Distinct(w) /\ Running(w) = L \ {s[k]} /\ Sorted(w, exp)
  BY <1>1, SkipFacts
<1>4. /\ Links(w, nx2, pv2)
      /\ w[1] = IF k = 1 THEN s[2] ELSE s[1]
      /\ w[Len(w)] = IF k = Len(s) THEN s[Len(s) - 1] ELSE s[Len(s)]
  BY <1>1, SkipLinks
<1>5. /\ k = 1 => nx[s[k]] = s[2]
      /\ k = Len(s) => pv[s[k]] = s[Len(s) - 1]
  BY <1>1 DEF Links
<1>6. /\ w[1] = IF k = 1 THEN nx[s[k]] ELSE h
      /\ w[Len(w)] = IF k = Len(s) THEN pv[s[k]] ELSE l
  BY <1>1, <1>4, <1>5
<1> QED
  BY <1>2, <1>3, <1>4, <1>6 DEF IsList

(* Lists of no timer and of one.                                           *)
LEMMA NoList ==
  ASSUME NEW h, NEW l, NEW nx, NEW pv, NEW exp
  PROVE  IsList(<< >>, {}, h, l, nx, pv, exp)
BY DEF IsList, Distinct, Running, Links, Sorted

LEMMA OneTimer ==
  ASSUME NEW t \in Timers, NEW w, Appends(<< >>, t, w), NEW exp,
         NEW nx, nx[t] = Null, NEW pv, pv[t] = Null
  PROVE  IsList(w, {t}, t, t, nx, pv, exp)
<1>1. w \in Seq(Timers) /\ Len(w) = 1 /\ w[1] = t
  BY DEF Appends
<1>2. \A i \in 1..1 : i = 1
  OBVIOUS
<1>3. Distinct(w) /\ Running(w) = {t} /\ Sorted(w, exp)
  BY <1>1, <1>2 DEF Distinct, Running, Sorted
<1>4. Links(w, nx, pv)
  BY <1>1, <1>2 DEF Links
<1> QED
  BY <1>1, <1>3, <1>4 DEF IsList

(* The list without its first element.                                     *)
LEMMA TailSkips ==
  ASSUME NEW s \in Seq(Timers), Len(s) > 0
  PROVE  Skips(s, 1, Tail(s))
<1>1. s # << >>
  OBVIOUS
<1>2. /\ Tail(s) \in Seq(Timers) /\ Len(Tail(s)) = Len(s) - 1
      /\ \A i \in 1..Len(Tail(s)) : Tail(s)[i] = s[i + 1]
  BY <1>1, HeadTailProperties
<1> QED
  BY <1>2 DEF Skips

-----------------------------------------------------------------------------
(* The invariant.  Every running timer was set no later than now, so none  *)
(* expires later than one that is set now: whatever add_timer inserts goes *)
(* to the end of the list.                                                 *)
ListTypes ==
  /\ live \in SUBSET Timers
  /\ head \in Timers \union {Null} /\ tail \in Timers \union {Null}
  /\ next \in Pointers /\ prev \in Pointers
  /\ expire \in [Timers -> Nat] /\ now \in Nat
  /\ pc \in {"idle", "tick"}

(* While tick() is not at work an empty list has no head; while it is,     *)
(* cur_timer is the head of the list.                                      *)
HeadInv ==
  /\ live = {} /\ pc = "idle" => head = Null
  /\ live # {} /\ pc = "tick" => cur = head

SetByNow == \A t \in live : expire[t] <= now + Lifetime

ListInv == /\ ListTypes
           /\ IsList(Nodes, live, head, tail, next, prev, expire)
           /\ HeadInv
           /\ SetByNow

(* Instances of the definitions for the variables of TimerList.            *)
LEMMA LifetimeIsNat == Lifetime \in Nat
BY TimerAssumption

LEMMA WalkIsFrom == ASSUME NEW h PROVE From(h) = Walk(live, next, h)
BY DEF From, Walk

(* What an action leaves behind: the list w.                               *)
LEMMA NodesThen ==
  ASSUME ListTypes', NEW w, IsList(w, live', head', tail', next', prev', expire')
  PROVE  Nodes' = w
<1>1. Nodes' = Walk(live', next', head')
  BY DEF Nodes, From, Walk
<1>2. next' \in Pointers /\ head' \in Timers \union {Null}
  BY DEF ListTypes
<1> QED
  BY <1>1, <1>2, NodesAre

(* The private add_timer, where nothing expires later than e.              *)
LEMMA Behind ==
  ASSUME NEW h, From(h) \in Seq(Timers), NEW e \in Nat,
         \A i \in 1..Len(From(h)) : expire[From(h)[i]] \in Nat /\ expire[From(h)[i]] <= e,
         NEW l, l = From(h)[Len(From(h))],
         NEW t, NEW nx, NEW pv, AddBehind(t, e, h, nx, pv)
  PROVE  /\ next' = [nx EXCEPT ![l] = t, ![t] = Null]
         /\ prev' = [pv EXCEPT ![t] = l]
         /\ tail' = t
<1> DEFINE r == From(h)
           later == {i \in 2..Len(r) : e < expire[r[i]]}
<1>1. later = {}
  OBVIOUS
<1>2. Len(r) + 1 - 1 = Len(r)
  OBVIOUS
<1>3. LET at == Len(r) + 1
          p == r[at - 1]
      IN  next' = [nx EXCEPT ![p] = t, ![t] = Null] /\ prev' = [pv EXCEPT ![t] = p] /\ tail' = t
  BY <1>1 DEF AddBehind
<1> QED
  BY <1>2, <1>3

(* What the invariant says of the list.                                    *)
LEMMA ListFacts ==
  ASSUME ListInv
  PROVE  /\ Nodes \in Seq(Timers) /\ Distinct(Nodes) /\ Running(Nodes) = live
         /\ Len(Nodes) \in Nat /\ Links(Nodes, next, prev) /\ Sorted(Nodes, expire)
         /\ live # {} <=> Len(Nodes) > 0
         /\ Len(Nodes) > 0 => head = Nodes[1] /\ tail = Nodes[Len(Nodes)]
         /\ \A i \in 1..Len(Nodes) : Nodes[i] \in live /\ Nodes[i] \in Timers
         /\ \A t \in live : \E k \in 1..Len(Nodes) : t = Nodes[k]
         /\ \A t \in live : expire[t] \in Nat /\ expire[t] <= now + Lifetime
<1>1. /\ Nodes \in Seq(Timers) /\ Distinct(Nodes) /\ Running(Nodes) = live
      /\ Links(Nodes, next, prev) /\ Sorted(Nodes, expire)
      /\ Len(Nodes) > 0 => head = Nodes[1] /\ tail = Nodes[Len(Nodes)]
  BY DEF ListInv, IsList
<1>2. /\ \A i \in 1..Len(Nodes) : Nodes[i] \in live
      /\ \A t \in live : \E k \in 1..Len(Nodes) : t = Nodes[k]
  BY <1>1 DEF Running
<1>3. Len(Nodes) \in Nat /\ \A i \in 1..Len(Nodes) : Nodes[i] \in Timers
  BY <1>1, ElementOfSeq, LenProperties
<1>4. live # {} <=> Len(Nodes) > 0
  <2>1. ASSUME live # {} PROVE Len(Nodes) > 0
    <3>1. PICK k \in 1..Len(Nodes) : TRUE
      BY <1>2, <2>1
    <3> QED
      BY <1>3, <3>1
  <2>2. ASSUME Len(Nodes) > 0 PROVE live # {}
    <3>1. 1 \in 1..Len(Nodes)
      BY <1>3, <2>2
    <3> QED
      BY <1>2, <3>1
  <2> QED
    BY <2>1, <2>2
<1>5. \A t \in live : expire[t] \in Nat /\ expire[t] <= now + Lifetime
  BY DEF ListInv, ListTypes, SetByNow
<1> QED
  BY <1>1, <1>2, <1>3, <1>4, <1>5

(* From an element of the list on.                                         *)
LEMMA FromElement ==
  ASSUME ListInv, NEW k \in 1..Len(Nodes)
  PROVE  /\ From(Nodes[k]) = SubSeq(Nodes, k, Len(Nodes))
         /\ From(Nodes[k]) \in Seq(Timers)
         /\ Len(From(Nodes[k])) = Len(Nodes) - k + 1
         /\ \A i \in 1..Len(From(Nodes[k])) :
              expire[From(Nodes[k])[i]] \in Nat /\ expire[From(Nodes[k])[i]] <= now + Lifetime
         /\ From(Nodes[k])[Len(From(Nodes[k]))] = tail
<1> DEFINE s == Nodes
           r == SubSeq(s, k, Len(s))
<1>1. /\ s \in Seq(Timers) /\ Distinct(s) /\ Running(s) = live /\ Len(s) \in Nat
      /\ Links(s, next, prev)
      /\ Len(s) > 0 => tail = s[Len(s)]
      /\ \A i \in 1..Len(s) : s[i] \in live
      /\ \A t \in live : expire[t] \in Nat /\ expire[t] <= now + Lifetime
  BY ListFacts
<1>2. next \in Pointers
  BY DEF ListInv, ListTypes
<1> HIDE DEF s
<1>3. From(s[k]) = r
  <2>1. \A i \in 1..Len(s) : next[s[i]] = IF i < Len(s) THEN s[i + 1] ELSE Null
    BY <1>1 DEF Links
  <2>2. k \in 1..Len(s)
    BY DEF s
  <2> QED
    BY <1>1, <1>2, <2>1, <2>2, WalkIs, WalkIsFrom
<1>4. /\ r \in Seq(Timers) /\ Len(r) = Len(s) - k + 1
      /\ \A i \in 1..(Len(s) - k + 1) : r[i] = s[k + i - 1]
  <2>1. k \in 1..Len(s)
    BY DEF s
  <2> QED
    BY <1>1, <2>1, SubSeqFrom
<1>5. k \in Nat /\ k >= 1 /\ k <= Len(s)
  BY DEF s
<1> HIDE DEF r
<1>6. \A i \in 1..Len(r) : expire[r[i]] \in Nat /\ expire[r[i]] <= now + Lifetime
  <2> SUFFICES ASSUME NEW i \in 1..Len(r) PROVE r[i] \in live
    BY <1>1
  <2>1. k + i - 1 \in 1..Len(s) /\ i \in 1..(Len(s) - k + 1)
    BY <1>1, <1>4, <1>5
  <2>2. r[i] = s[k + i - 1]
    BY <1>4, <2>1
  <2> QED
    BY <1>1, <2>1, <2>2
<1>7. r[Len(r)] = tail
  <2>1. /\ Len(r) \in 1..(Len(s) - k + 1) /\ k + Len(r) - 1 = Len(s) /\ Len(s) > 0
    BY <1>1, <1>4, <1>5
  <2> QED
    BY <1>1, <1>4, <2>1
<1> QED
  BY <1>3, <1>4, <1>6, <1>7 DEF r, s

-----------------------------------------------------------------------------
(* Each operation: what it does to the list, and that it keeps the         *)
(* invariant.                                                              *)
LEMMA Join ==
  ASSUME ListTypes', NEW w, IsList(w, live', head', tail', next', prev', expire'),
         HeadInv', SetByNow'
  PROVE  ListInv' /\ Nodes' = w
<1>1. Nodes' = w
  BY NodesThen
<1> QED
  BY <1>1 DEF ListInv

(* A new timer.                                                            *)
LEMMA AddStep ==
  ASSUME ListInv, NEW t \in Timers, AddTimer(t)
  PROVE  /\ ListInv' /\ t \notin Running(Nodes)
         /\ Nodes' = InsertBy(Nodes, expire, t, now + Lifetime)
<1> DEFINE s == Nodes
           e == now + Lifetime
           w == InsertBy(s, expire, t, e)
<1>1. /\ s \in Seq(Timers) /\ Running(s) = live /\ Len(s) \in Nat
      /\ live # {} <=> Len(s) > 0
      /\ Len(s) > 0 => head = s[1] /\ tail = s[Len(s)]
      /\ \A i \in 1..Len(s) : s[i] \in live /\ s[i] \in Timers
      /\ \A x \in live : expire[x] \in Nat /\ expire[x] <= e
  BY ListFacts
<1>2. /\ live \in SUBSET Timers /\ now \in Nat /\ e \in Nat
      /\ next \in Pointers /\ prev \in Pointers /\ expire \in [Timers -> Nat]
      /\ head \in Timers \union {Null} /\ tail \in Timers \union {Null}
      /\ IsList(s, live, head, tail, next, prev, expire)
  BY LifetimeIsNat DEF ListInv, ListTypes
<1>3. /\ pc = "idle" /\ t \notin live
      /\ live' = live \union {t} /\ expire' = [expire EXCEPT ![t] = e]
      /\ pc' = pc /\ now' = now
  BY DEF AddTimer
<1> HIDE DEF e, s
<1>4. Appends(s, t, w)
  <2>1. \A i \in 1..Len(s) : ~(e < expire[s[i]])
    BY <1>1, <1>2
  <2> QED
    BY <1>1, <2>1, InsertAppends
<1> HIDE DEF w
<1>5. expire' \in [Timers -> Nat] /\ expire'[t] = e /\ \A x \in Timers : x # t => expire'[x] = expire[x]
  BY <1>2, <1>3
<1>6. SetByNow'
  <2> SUFFICES ASSUME NEW x \in live' PROVE expire'[x] <= now' + Lifetime
    BY DEF SetByNow
  <2>1. CASE x = t
    BY <1>2, <1>3, <1>5, <2>1 DEF e
  <2>2. CASE x # t
    BY <1>1, <1>2, <1>3, <1>5, <2>2 DEF e
  <2> QED
    BY <2>1, <2>2
<1>7. CASE live = {}
  <2>1. head = Null
    BY <1>3, <1>7 DEF ListInv, HeadInv
  <2>2. /\ head' = t /\ tail' = t /\ next' = [next EXCEPT ![t] = Null]
        /\ prev' = [prev EXCEPT ![t] = Null]
    BY <2>1 DEF AddTimer
  <2>3. next' \in Pointers /\ prev' \in Pointers /\ next'[t] = Null /\ prev'[t] = Null
    BY <1>2, <2>2 DEF Pointers
  <2>4. live' = {t} /\ s = << >>
    BY <1>1, <1>3, <1>7, EmptySeq
  <2>5. IsList(w, {t}, t, t, next', prev', expire')
    BY <1>4, <2>3, <2>4, OneTimer
  <2>6. ListTypes'
    BY <1>2, <1>3, <1>5, <2>2, <2>3, <2>4 DEF ListTypes
  <2>7. HeadInv'
    BY <1>3, <2>4 DEF HeadInv
  <2>8. ListInv' /\ Nodes' = w
    BY <1>6, <2>2, <2>4, <2>5, <2>6, <2>7, Join
  <2> QED
    BY <1>1, <1>3, <2>8 DEF s, e, w
<1>8. CASE live # {}
  <2> DEFINE nx == [next EXCEPT ![t] = Null]
             pv == [prev EXCEPT ![t] = Null]
  <2>1. Len(s) > 0 /\ 1 \in 1..Len(s) /\ head = s[1] /\ head \in live
    BY <1>1, <1>8
  <2>2. head # Null /\ e >= expire[head] /\ ~(e < expire[head])
    BY <1>1, <1>2, <2>1, TimerAssumption
  <2>3. head' = head /\ AddBehind(t, e, head, nx, pv)
    BY <2>2 DEF AddTimer, e
  <2>4. /\ From(head) \in Seq(Timers)
        /\ \A i \in 1..Len(From(head)) : expire[From(head)[i]] \in Nat /\ expire[From(head)[i]] <= e
        /\ tail = From(head)[Len(From(head))]
    BY <2>1, FromElement DEF s, e
  <2>5. next' = [nx EXCEPT ![tail] = t, ![t] = Null] /\ prev' = [pv EXCEPT ![t] = tail] /\ tail' = t
    <3> HIDE DEF nx, pv
    <3> QED
      BY <1>2, <2>3, <2>4, Behind
  <2>6. tail \in live /\ tail # t /\ tail \in Timers
    BY <1>1, <1>2, <1>3, <2>1
  <2>7. /\ next' \in Pointers /\ next'[t] = Null /\ next'[tail] = t
        /\ \A x \in Timers : x # t /\ x # tail => next'[x] = next[x]
    BY <1>2, <2>5, <2>6 DEF Pointers
  <2>8. prev' \in Pointers /\ prev'[t] = tail /\ \A x \in Timers : x # t => prev'[x] = prev[x]
    BY <1>2, <2>5, <2>6 DEF Pointers
  <2> HIDE DEF nx, pv
  <2>9. IsList(w, live \union {t}, head, t, next', prev', expire')
    <3>1. (\A x \in live : expire[x] <= e) /\ e \in Nat
      BY <1>1, <1>2
    <3>2. /\ next \in Pointers /\ prev \in Pointers /\ expire \in [Timers -> Nat]
          /\ IsList(s, live, head, tail, next, prev, expire) /\ Len(s) > 0 /\ t \notin live
      BY <1>2, <1>3, <2>1
    <3> QED
      BY <1>4, <1>5, <2>7, <2>8, <3>1, <3>2, AppendList
  <2>10. ListTypes'
    BY <1>2, <1>3, <1>5, <2>3, <2>5, <2>7, <2>8 DEF ListTypes
  <2>11. HeadInv'
    BY <1>3 DEF HeadInv
  <2>12. ListInv' /\ Nodes' = w
    BY <1>3, <1>6, <2>3, <2>5, <2>9, <2>10, <2>11, Join
  <2> QED
    BY <1>1, <1>3, <2>12 DEF s, e, w
<1> QED
  BY <1>7, <1>8

(* A timer is deleted: alone, first, last or in the middle.                *)
LEMMA RemoveStep ==
  ASSUME ListInv, NEW t \in Timers, RemoveTimer(t)
  PROVE  ListInv' /\ t \in Running(Nodes) /\ Nodes' = Without(Nodes, t)
<1> DEFINE s == Nodes
           n == Len(s)
           w == Without(s, t)
<1>1. /\ s \in Seq(Timers) /\ Distinct(s) /\ Running(s) = live /\ n \in Nat
      /\ Links(s, next, prev)
      /\ n > 0 => head = s[1] /\ tail = s[n]
      /\ \A i \in 1..n : s[i] \in live /\ s[i] \in Timers
      /\ \A x \in live : \E k \in 1..n : x = s[k]
  BY ListFacts
<1>2. /\ live \in SUBSET Timers /\ now \in Nat
      /\ next \in Pointers /\ prev \in Pointers /\ expire \in [Timers -> Nat]
      /\ head \in Timers \union {Null} /\ tail \in Timers \union {Null}
      /\ IsList(s, live, head, tail, next, prev, expire) /\ SetByNow
  BY DEF ListInv, ListTypes
<1>3. /\ pc = "idle" /\ t \in live /\ live' = live \ {t}
      /\ expire' = expire /\ pc' = pc /\ now' = now
  BY DEF RemoveTimer
<1> HIDE DEF s
<1>4. PICK k \in 1..n : t = s[k]
  BY <1>1, <1>3
<1>5. Skips(s, k, w)
  BY <1>1, <1>4, WithoutSkips
<1>6. w \in Seq(Timers) /\ Len(w) = n - 1 /\ n \in Nat /\ n > 0 /\ k \in Nat /\ k >= 1 /\ k <= n
  BY <1>1, <1>4, <1>5 DEF Skips
<1> HIDE DEF w, n
<1>7. SetByNow'
  BY <1>2, <1>3 DEF SetByNow
<1>8. /\ (t = head <=> k = 1) /\ (t = tail <=> k = n)
      /\ next[t] = IF k < n THEN s[k + 1] ELSE Null
      /\ prev[t] = IF k > 1 THEN s[k - 1] ELSE Null
  <2>1. 1 \in 1..n /\ n \in 1..n /\ head = s[1] /\ tail = s[n]
    BY <1>1, <1>6 DEF n
  <2>2. \A i \in 1..n : s[i] = t => i = k
    BY <1>1, <1>4 DEF Distinct, n
  <2>3. /\ next[s[k]] = IF k < n THEN s[k + 1] ELSE Null
        /\ prev[s[k]] = IF k > 1 THEN s[k - 1] ELSE Null
    BY <1>1 DEF Links, n
  <2> QED
    BY <1>4, <2>1, <2>2, <2>3
<1>9. next[t] \in Timers \union {Null} /\ prev[t] \in Timers \union {Null}
  BY <1>2, <1>3 DEF Pointers
<1>10. CASE n = 1
  <2>1. t = head /\ t = tail
    BY <1>6, <1>8, <1>10
  <2>2. head' = Null /\ tail' = Null /\ next' = next /\ prev' = prev
    BY <2>1 DEF RemoveTimer
  <2>3. w = << >>
    BY <1>6, <1>10, EmptySeq
  <2>4. \A i \in 1..n : i = k
    BY <1>6, <1>10
  <2>5. live' = {}
    BY <1>1, <1>3, <1>4, <2>4
  <2>6. IsList(w, live', head', tail', next', prev', expire')
    BY <2>3, <2>5, NoList
  <2>7. ListTypes' /\ HeadInv'
    BY <1>2, <1>3, <2>2, <2>5 DEF ListTypes, HeadInv
  <2> QED
    BY <1>1, <1>3, <1>7, <2>6, <2>7, Join DEF s, w
<1>11. CASE n > 1
  <2>1. next' = IF k > 1 THEN [next EXCEPT ![prev[s[k]]] = next[s[k]]] ELSE next
    <3>1. CASE k = 1
      <4>1. t = head /\ t # tail /\ ~(k > 1)
        BY <1>8, <1>11, <3>1
      <4>2. next' = next
        BY <4>1 DEF RemoveTimer
      <4> QED
        BY <4>1, <4>2
    <3>2. CASE k # 1 /\ k = n
      <4>1. t # head /\ t = tail /\ k > 1 /\ next[t] = Null
        BY <1>6, <1>8, <3>2
      <4>2. next' = [next EXCEPT ![prev[t]] = Null]
        BY <4>1 DEF RemoveTimer
      <4> QED
        BY <1>4, <4>1, <4>2
    <3>3. CASE k # 1 /\ k # n
      <4>1. t # head /\ t # tail /\ k > 1
        BY <1>6, <1>8, <3>3
      <4>2. next' = [next EXCEPT ![prev[t]] = next[t]]
        BY <4>1 DEF RemoveTimer
      <4> QED
        BY <1>4, <4>1, <4>2
    <3> QED
      BY <3>1, <3>2, <3>3
  <2>2. prev' = IF k < n THEN [prev EXCEPT ![next[s[k]]] = prev[s[k]]] ELSE prev
    <3>1. CASE k = n
      <4>1. t # head /\ t = tail /\ ~(k < n)
        BY <1>6, <1>8, <1>11, <3>1
      <4>2. prev' = prev
        BY <4>1 DEF RemoveTimer
      <4> QED
        BY <4>1, <4>2
    <3>2. CASE k = 1 /\ k # n
      <4>1. t = head /\ t # tail /\ k < n /\ prev[t] = Null
        BY <1>6, <1>8, <1>11, <3>2
      <4>2. prev' = [prev EXCEPT ![next[t]] = Null]
        BY <4>1 DEF RemoveTimer
      <4> QED
        BY <1>4, <4>1, <4>2
    <3>3. CASE k # 1 /\ k # n
      <4>1. t # head /\ t # tail /\ k < n
        BY <1>6, <1>8, <3>3
      <4>2. prev' = [prev EXCEPT ![next[t]] = prev[t]]
        BY <4>1 DEF RemoveTimer
      <4> QED
        BY <1>4, <4>1, <4>2
    <3> QED
      BY <3>1, <3>2, <3>3
  <2>3. head' = IF k = 1 THEN next[s[k]] ELSE head
    BY <1>4, <1>8, <1>11 DEF RemoveTimer
  <2>4. tail' = IF k = n THEN prev[s[k]] ELSE tail
    BY <1>4, <1>8, <1>11 DEF RemoveTimer
  <2>5. IsList(w, live \ {s[k]}, IF k = 1 THEN next[s[k]] ELSE head,
               IF k = n THEN prev[s[k]] ELSE tail, next', prev', expire)
    BY <1>2, <1>5, <1>11, <2>1, <2>2, SkipList DEF n
  <2>6. IsList(w, live', head', tail', next', prev', expire')
    BY <1>3, <1>4, <2>3, <2>4, <2>5
  <2>7. next' \in Pointers /\ prev' \in Pointers
    BY <1>2, <1>4, <1>9, <2>1, <2>2 DEF Pointers
  <2>8. ListTypes'
    BY <1>2, <1>3, <1>4, <1>9, <2>3, <2>4, <2>7 DEF ListTypes
  <2>9. HeadInv'
    <3>1. 1 \in 1..Len(w)
      BY <1>1, <1>6, <1>11 DEF n
    <3>2. w[1] \in live'
      BY <2>6, <3>1 DEF IsList, Running
    <3> QED
      BY <1>3, <3>2 DEF HeadInv
  <2> QED
    BY <1>1, <1>3, <1>7, <2>6, <2>8, <2>9, Join DEF s, w
<1> QED
  BY <1>1, <1>6, <1>10, <1>11 DEF n

(* Nothing that runs expires after now + Lifetime, so a timer stays put    *)
(* only at the end of the list.                                            *)
LEMMA AdjustStep ==
  ASSUME ListInv, NEW t \in Timers, AdjustTimer(t)
  PROVE  /\ ListInv' /\ t \in Running(Nodes)
         /\ Nodes' = InsertBy(Without(Nodes, t), expire, t, now + Lifetime)
<1> DEFINE s == Nodes
           n == Len(s)
           e == now + Lifetime
           v == Without(s, t)
           w == InsertBy(v, expire, t, e)
<1>1. /\ s \in Seq(Timers) /\ Distinct(s) /\ Running(s) = live /\ n \in Nat
      /\ Links(s, next, prev) /\ Sorted(s, expire)
      /\ n > 0 => head = s[1] /\ tail = s[n]
      /\ \A i \in 1..n : s[i] \in live /\ s[i] \in Timers
      /\ \A x \in live : \E k \in 1..n : x = s[k]
      /\ \A x \in live : expire[x] \in Nat /\ expire[x] <= e
  BY ListFacts
<1>2. /\ live \in SUBSET Timers /\ now \in Nat /\ e \in Nat
      /\ next \in Pointers /\ prev \in Pointers /\ expire \in [Timers -> Nat]
      /\ head \in Timers \union {Null} /\ tail \in Timers \union {Null}
      /\ IsList(s, live, head, tail, next, prev, expire)
  BY LifetimeIsNat DEF ListInv, ListTypes
<1>3. /\ pc = "idle" /\ t \in live /\ expire' = [expire EXCEPT ![t] = e]
      /\ live' = live /\ pc' = pc /\ now' = now
  BY DEF AdjustTimer
<1> HIDE DEF s, e
<1>4. PICK k \in 1..n : t = s[k]
  BY <1>1, <1>3
<1>5. Skips(s, k, v)
  BY <1>1, <1>4, WithoutSkips
<1>6. v \in Seq(Timers) /\ Len(v) = n - 1 /\ n \in Nat /\ n > 0 /\ k \in Nat /\ k >= 1 /\ k <= n
  BY <1>1, <1>4, <1>5 DEF Skips
<1> HIDE DEF v
<1>7. Distinct(v) /\ Running(v) = live \ {t}
  BY <1>1, <1>4, <1>5, SkipFacts
<1>8. Appends(v, t, w)
  <2>1. \A i \in 1..Len(v) : v[i] \in live
    BY <1>7 DEF Running
  <2>2. \A i \in 1..Len(v) : ~(e < expire[v[i]])
    BY <1>1, <1>2, <2>1
  <2> QED
    BY <1>6, <2>2, InsertAppends
<1> HIDE DEF w, n
<1>9. expire' \in [Timers -> Nat] /\ expire'[t] = e /\ \A x \in Timers : x # t => expire'[x] = expire[x]
  BY <1>2, <1>3
<1>10. SetByNow'
  <2> SUFFICES ASSUME NEW x \in live' PROVE expire'[x] <= now' + Lifetime
    BY DEF SetByNow
  <2>1. CASE x = t
    BY <1>2, <1>3, <1>9, <2>1 DEF e
  <2>2. CASE x # t
    BY <1>1, <1>2, <1>3, <1>9, <2>2 DEF e
  <2> QED
    BY <2>1, <2>2
<1>11. HeadInv'
  BY <1>3 DEF HeadInv
<1>12. /\ (t = head <=> k = 1) /\ head = s[1] /\ tail = s[n]
       /\ next[t] = IF k < n THEN s[k + 1] ELSE Null
       /\ prev[t] = IF k > 1 THEN s[k - 1] ELSE Null
  <2>1. 1 \in 1..n /\ n \in 1..n /\ head = s[1] /\ tail = s[n]
    BY <1>1, <1>6 DEF n
  <2>2. \A i \in 1..n : s[i] = t => i = k
    BY <1>1, <1>4 DEF Distinct, n
  <2>3. /\ next[s[k]] = IF k < n THEN s[k + 1] ELSE Null
        /\ prev[s[k]] = IF k > 1 THEN s[k - 1] ELSE Null
    BY <1>1 DEF Links, n
  <2> QED
    BY <1>4, <2>1, <2>2, <2>3
<1>13. next[t] \in Timers \union {Null} /\ prev[t] \in Timers \union {Null}
  BY <1>2, <1>3 DEF Pointers
<1>14. CASE k = n
  <2>1. next[t] = Null
    BY <1>6, <1>12, <1>14
  <2>2. StaysPut(t, e)
    BY <2>1 DEF StaysPut
  <2>3. UNCHANGED links
    BY <2>2 DEF AdjustTimer, e
  <2>4. head' = head /\ tail' = tail /\ next' = next /\ prev' = prev
    BY <2>3 DEF links
  <2>5. w = s
    <3>1. w \in Seq(Timers) /\ Len(w) = n
      BY <1>6, <1>8 DEF Appends
    <3>2. ASSUME NEW i \in 1..n PROVE w[i] = s[i]
      <4>1. w[i] = IF i <= n - 1 THEN v[i] ELSE t
        BY <1>6, <1>8 DEF Appends
      <4>2. CASE i = n
        BY <1>4, <1>6, <1>14, <4>1, <4>2
      <4>3. CASE i # n
        <5>1. i \in 1..(n - 1) /\ i <= n - 1 /\ i < k
          BY <1>6, <1>14, <4>3
        <5>2. v[i] = s[i]
          BY <1>5, <5>1 DEF Skips, n
        <5> QED
          BY <4>1, <5>1, <5>2
      <4> QED
        BY <4>2, <4>3
    <3> QED
      BY <1>1, <3>1, <3>2, SeqEqual DEF n
  <2>6. Sorted(s, expire')
    <3> SUFFICES ASSUME NEW i \in 1..n, NEW j \in 1..n, i < j
                 PROVE  expire'[s[i]] <= expire'[s[j]]
      BY DEF Sorted, n
    <3>1. i # k /\ s[i] \in live /\ s[i] # t /\ s[i] \in Timers /\ s[j] \in Timers /\ s[j] \in live
      BY <1>1, <1>4, <1>6, <1>14 DEF Distinct, n
    <3>2. expire'[s[i]] = expire[s[i]] /\ expire[s[i]] <= e
      BY <1>1, <1>9, <3>1
    <3>3. CASE s[j] = t
      BY <1>9, <3>2, <3>3
    <3>4. CASE s[j] # t
      <4>1. expire[s[i]] <= expire[s[j]]
        BY <1>1 DEF Sorted, n
      <4> QED
        BY <1>9, <3>1, <3>2, <3>4, <4>1
    <3> QED
      BY <3>3, <3>4
  <2>7. IsList(w, live', head', tail', next', prev', expire')
    BY <1>1, <1>3, <2>4, <2>5, <2>6 DEF IsList, n
  <2>8. ListTypes'
    BY <1>2, <1>3, <1>9, <2>4 DEF ListTypes
  <2>9. ListInv' /\ Nodes' = w
    BY <1>10, <1>11, <2>7, <2>8, Join
  <2> QED
    BY <1>1, <1>3, <2>9 DEF s, e, v, w
<1>15. CASE k < n
  <2> DEFINE m == s[k + 1]
             nx == IF k > 1 THEN [next EXCEPT ![prev[t]] = m] ELSE next
             pv == [prev EXCEPT ![m] = prev[t]]
             h == IF k = 1 THEN m ELSE head
  <2>1. next[t] = m /\ k + 1 \in 1..n
    BY <1>6, <1>12, <1>15
  <2>2. m \in live /\ m \in Timers
    BY <1>1, <2>1 DEF n
  <2> HIDE DEF m
  <2>3. ~StaysPut(t, e)
    BY <1>1, <1>2, <2>1, <2>2, TimerAssumption DEF StaysPut
  <2>4. head' = h /\ AddBehind(t, e, m, nx, pv)
    <3>1. CASE k = 1
      <4>1. t = head /\ prev[t] = Null
        BY <1>12, <3>1
      <4>2. head' = m /\ AddBehind(t, e, m, next, [prev EXCEPT ![m] = Null])
        BY <2>1, <2>3, <4>1 DEF AdjustTimer, e
      <4> QED
        BY <3>1, <4>1, <4>2
    <3>2. CASE k # 1
      <4>1. t # head /\ k > 1
        BY <1>6, <1>12, <3>2
      <4>2. /\ head' = head
            /\ AddBehind(t, e, m, [next EXCEPT ![prev[t]] = m], [prev EXCEPT ![m] = prev[t]])
        BY <2>1, <2>3, <4>1 DEF AdjustTimer, e
      <4> QED
        BY <3>2, <4>1, <4>2
    <3> QED
      BY <3>1, <3>2
  <2>5. nx = IF k > 1 THEN [next EXCEPT ![prev[s[k]]] = next[s[k]]] ELSE next
    BY <1>4, <2>1
  <2>6. pv = IF k < Len(s) THEN [prev EXCEPT ![next[s[k]]] = prev[s[k]]] ELSE prev
    BY <1>4, <1>15, <2>1 DEF n
  <2>7. nx \in Pointers /\ pv \in Pointers
    BY <1>2, <1>13, <2>2 DEF Pointers
  <2>8. IsList(v, live \ {t}, h, tail, nx, pv, expire)
    <3> HIDE DEF nx, pv, h
    <3>1. Len(s) > 1 /\ k \in 1..Len(s) /\ k # Len(s)
      BY <1>6, <1>15 DEF n
    <3>2. IsList(v, live \ {s[k]}, IF k = 1 THEN next[s[k]] ELSE head,
                 IF k = Len(s) THEN prev[s[k]] ELSE tail, nx, pv, expire)
      BY <1>2, <1>5, <2>5, <2>6, <3>1, SkipList
    <3>3. h = IF k = 1 THEN next[s[k]] ELSE head
      BY <1>4, <2>1 DEF h
    <3> QED
      BY <1>4, <3>1, <3>2, <3>3
  <2>9. h \in Timers
    <3>1. 1 \in 1..n
      BY <1>6
    <3> QED
      BY <1>1, <1>12, <2>2, <3>1 DEF n
  <2>10. tail # t /\ tail \in Timers
    <3>1. n \in 1..n /\ n # k
      BY <1>6, <1>15
    <3> QED
      BY <1>1, <1>4, <1>12, <3>1 DEF Distinct, n
  <2>11. /\ From(m) \in Seq(Timers)
         /\ \A i \in 1..Len(From(m)) : expire[From(m)[i]] \in Nat /\ expire[From(m)[i]] <= e
         /\ tail = From(m)[Len(From(m))]
    BY <2>1, FromElement DEF s, e, n, m
  <2> HIDE DEF nx, pv, h
  <2>12. next' = [nx EXCEPT ![tail] = t, ![t] = Null] /\ prev' = [pv EXCEPT ![t] = tail] /\ tail' = t
    <3>1. e \in Nat /\ AddBehind(t, e, m, nx, pv)
      BY <1>2, <2>4
    <3> QED
      BY <2>11, <3>1, Behind, SMTT(30)
  <2>13. /\ next' \in Pointers /\ next'[t] = Null /\ next'[tail] = t
         /\ \A x \in Timers : x # t /\ x # tail => next'[x] = nx[x]
    BY <2>7, <2>10, <2>12 DEF Pointers
  <2>14. prev' \in Pointers /\ prev'[t] = tail /\ \A x \in Timers : x # t => prev'[x] = pv[x]
    BY <2>7, <2>10, <2>12 DEF Pointers
  <2>15. IsList(w, (live \ {t}) \union {t}, h, t, next', prev', expire')
    <3>1. (\A x \in live \ {t} : expire[x] <= e) /\ e \in Nat
      BY <1>1, <1>2
    <3>2. Len(v) > 0 /\ t \notin live \ {t} /\ expire \in [Timers -> Nat]
      BY <1>2, <1>6, <1>15
    <3> QED
      BY <1>8, <1>9, <2>7, <2>8, <2>13, <2>14, <3>1, <3>2, AppendList
  <2>16. live' = (live \ {t}) \union {t}
    BY <1>3
  <2>17. ListTypes'
    BY <1>2, <1>3, <1>9, <2>4, <2>9, <2>12, <2>13, <2>14 DEF ListTypes
  <2>18. ListInv' /\ Nodes' = w
    BY <1>10, <1>11, <2>4, <2>12, <2>15, <2>16, <2>17, Join
  <2> QED
    BY <1>1, <1>3, <2>18 DEF s, e, v, w
<1> QED
  BY <1>6, <1>14, <1>15

(* tick() deletes the first timer.                                         *)
LEMMA ExpireStep ==
  ASSUME ListInv, TickExpired
  PROVE  ListInv' /\ Nodes # << >> /\ expire[Head(Nodes)] <= now /\ Nodes' = Tail(Nodes)
<1> DEFINE s == Nodes
           n == Len(s)
           w == Tail(s)
<1>1. /\ s \in Seq(Timers) /\ Distinct(s) /\ Running(s) = live /\ n \in Nat
      /\ Links(s, next, prev)
      /\ live # {} <=> n > 0
      /\ n > 0 => head = s[1] /\ tail = s[n]
      /\ \A i \in 1..n : s[i] \in live /\ s[i] \in Timers
      /\ \A x \in live : \E k \in 1..n : x = s[k]
  BY ListFacts
<1>2. /\ live \in SUBSET Timers /\ now \in Nat
      /\ next \in Pointers /\ prev \in Pointers /\ expire \in [Timers -> Nat]
      /\ head \in Timers \union {Null} /\ tail \in Timers \union {Null}
      /\ IsList(s, live, head, tail, next, prev, expire) /\ SetByNow /\ HeadInv
  BY DEF ListInv, ListTypes
<1>3. /\ pc = "tick" /\ cur \in live /\ now >= expire[cur]
      /\ live' = live \ {cur} /\ expire' = expire /\ now' = now /\ pc' = pc
      /\ tail' = tail /\ next' = next /\ head' = NewHead /\ cur' = NewHead
      /\ prev' = IF next[cur] # Null THEN [prev EXCEPT ![next[cur]] = Null] ELSE prev
  BY DEF TickExpired
<1> HIDE DEF s
<1>4. n \in Nat /\ n > 0 /\ 1 \in 1..n /\ cur = head /\ cur = s[1]
  BY <1>1, <1>2, <1>3 DEF HeadInv
<1>5. s # << >> /\ Head(s) = s[1]
  BY <1>1, <1>4
<1>6. expire[Head(s)] <= now
  <2>1. expire[cur] \in Nat
    BY <1>2, <1>3
  <2> QED
    BY <1>2, <1>3, <1>4, <1>5, <2>1
<1>7. Skips(s, 1, w)
  BY <1>1, <1>4, TailSkips
<1>8. w \in Seq(Timers) /\ Len(w) = n - 1
  BY <1>7 DEF Skips
<1> HIDE DEF w, n
<1>9. SetByNow'
  BY <1>2, <1>3 DEF SetByNow
<1>10. prev[s[1]] = Null /\ next[s[1]] = IF 1 < n THEN s[2] ELSE Null
  <2>1. 1 + 1 = 2
    OBVIOUS
  <2>2. ~(1 > 1)
    OBVIOUS
  <2> QED
    BY <1>1, <1>4, <2>1, <2>2 DEF Links, n
<1>11. CASE n = 1
  <2>1. next[cur] = Null
    BY <1>4, <1>10, <1>11
  <2>2. head' = head /\ prev' = prev
    BY <1>3, <2>1 DEF NewHead
  <2>3. w = << >>
    BY <1>8, <1>11, EmptySeq
  <2>4. \A i \in 1..n : i = 1
    BY <1>11
  <2>5. live' = {}
    BY <1>1, <1>3, <1>4, <2>4 DEF n
  <2>6. IsList(w, live', head', tail', next', prev', expire')
    BY <2>3, <2>5, NoList
  <2>7. ListTypes'
    BY <1>2, <1>3, <2>2, <2>5 DEF ListTypes
  <2>8. HeadInv'
    BY <1>3, <2>5 DEF HeadInv
  <2>9. ListInv' /\ Nodes' = w
    BY <1>9, <2>6, <2>7, <2>8, Join
  <2> QED
    BY <1>5, <1>6, <2>9 DEF s, w
<1>12. CASE n > 1
  <2>1. 2 \in 1..n /\ s[2] \in Timers /\ s[2] # Null /\ next[cur] = s[2]
    <3>1. 2 \in 1..n
      BY <1>1, <1>12 DEF n
    <3> QED
      BY <1>1, <1>4, <1>10, <1>12, <3>1, TimerAssumption DEF n
  <2>2. head' = next[s[1]] /\ cur' = head' /\ prev' = [prev EXCEPT ![next[s[1]]] = prev[s[1]]]
    BY <1>3, <1>4, <1>10, <2>1 DEF NewHead
  <2>3. IsList(w, live \ {s[1]}, next[s[1]], tail, next', prev', expire)
    <3>1. Len(s) > 1 /\ 1 \in 1..Len(s) /\ 1 # Len(s) /\ 1 < Len(s) /\ ~(1 > 1)
      BY <1>1, <1>12 DEF n
    <3>2. next' = IF 1 > 1 THEN [next EXCEPT ![prev[s[1]]] = next[s[1]]] ELSE next
      BY <1>3, <3>1
    <3>3. prev' = IF 1 < Len(s) THEN [prev EXCEPT ![next[s[1]]] = prev[s[1]]] ELSE prev
      BY <2>2, <3>1
    <3>4. IsList(w, live \ {s[1]}, IF 1 = 1 THEN next[s[1]] ELSE head,
                 IF 1 = Len(s) THEN prev[s[1]] ELSE tail, next', prev', expire)
      BY <1>2, <1>7, <3>1, <3>2, <3>3, SkipList
    <3> QED
      BY <3>1, <3>4
  <2>4. IsList(w, live', head', tail', next', prev', expire')
    BY <1>3, <1>4, <2>2, <2>3
  <2>5. prev' \in Pointers
    BY <1>2, <1>10, <2>2, <2>1, <1>4 DEF Pointers
  <2>6. ListTypes'
    BY <1>2, <1>3, <1>4, <2>1, <2>2, <2>5 DEF ListTypes
  <2>7. HeadInv'
    <3>1. 1 \in 1..Len(w)
      BY <1>8, <1>12, <1>1 DEF n
    <3>2. w[1] \in live'
      BY <2>4, <3>1 DEF IsList, Running
    <3> QED
      BY <1>3, <2>2, <3>2 DEF HeadInv
  <2>8. ListInv' /\ Nodes' = w
    BY <1>9, <2>4, <2>6, <2>7, Join
  <2> QED
    BY <1>5, <1>6, <2>8 DEF s, w
<1>13. n = 1 \/ n > 1
  BY <1>4
<1> QED
  BY <1>11, <1>12, <1>13

(* The rest of tick(), and the clock, leave the list as it is.             *)
LEMMA SameList ==
  ASSUME ListInv, UNCHANGED <<live, links, expire>>, now' \in Nat, now' >= now,
         pc' \in {"idle", "tick"}, HeadInv'
  PROVE  ListInv' /\ Nodes' = Nodes
<1>1. /\ live' = live /\ head' = head /\ tail' = tail /\ prev' = prev /\ next' = next
      /\ expire' = expire
  BY DEF links
<1>2. IsList(Nodes, live', head', tail', next', prev', expire')
  BY <1>1 DEF ListInv
<1>3. ListTypes'
  BY <1>1 DEF ListInv, ListTypes
<1>4. SetByNow'
  BY <1>1, LifetimeIsNat DEF ListInv, ListTypes, SetByNow
<1> QED
  BY <1>2, <1>3, <1>4, Join

(* The steps of tick() that delete nothing, and the clock.                 *)
LEMMA QuietStep ==
  ASSUME ListInv, Tick \/ TickStop \/ TickDeleted \/ Clock \/ UNCHANGED vars
  PROVE  ListInv' /\ Nodes' = Nodes /\ expire' = expire /\ (now' = now \/ now' > now)
<1>1. /\ now \in Nat /\ pc \in {"idle", "tick"} /\ HeadInv
      /\ live # {} => head \in live
  BY ListFacts DEF ListInv, ListTypes
<1>2. CASE Tick
  <2>1. HeadInv'
    BY <1>2 DEF HeadInv, Tick, links
  <2> QED
    BY <1>1, <1>2, <2>1, SameList DEF Tick, links
<1>3. CASE TickStop
  <2>1. HeadInv'
    BY <1>3 DEF HeadInv, TickStop
  <2> QED
    BY <1>1, <1>3, <2>1, SameList DEF TickStop, links
<1>4. CASE TickDeleted
  <2>1. HeadInv'
    BY <1>1, <1>4 DEF HeadInv, TickDeleted, links
  <2> QED
    BY <1>1, <1>4, <2>1, SameList DEF TickDeleted, links
<1>5. CASE Clock
  <2>1. HeadInv'
    BY <1>1, <1>5 DEF HeadInv, Clock, links
  <2>2. now' \in Nat /\ now' > now /\ now' >= now
    BY <1>1, <1>5 DEF Clock
  <2> QED
    BY <1>1, <1>5, <2>1, <2>2, SameList DEF Clock, links
<1>6. CASE UNCHANGED vars
  <2>1. HeadInv'
    BY <1>1, <1>6 DEF HeadInv, vars, links
  <2> QED
    BY <1>1, <1>6, <2>1, SameList DEF vars, links
<1> QED
  BY <1>2, <1>3, <1>4, <1>5, <1>6

(* An empty list.                                                          *)
LEMMA ListStarts == ASSUME Init PROVE ListInv /\ Nodes = << >>
<1>1. /\ live = {} /\ head = Null /\ tail = Null /\ pc = "idle" /\ now = 0
      /\ prev = [t \in Timers |-> Null] /\ next = [t \in Timers |-> Null]
      /\ expire = [t \in Timers |-> 0]
  BY DEF Init
<1>2. ListTypes
  BY <1>1 DEF ListTypes, Pointers
<1>3. IsList(<< >>, live, head, tail, next, prev, expire)
  BY <1>1, NoList
<1>4. Nodes = << >>
  <2>1. Nodes = Walk(live, next, head)
    BY WalkIsFrom DEF Nodes
  <2> QED
    BY <1>2, <1>3, <2>1, NodesAre DEF ListTypes
<1>5. HeadInv /\ SetByNow
  BY <1>1 DEF HeadInv, SetByNow
<1> QED
  BY <1>2, <1>3, <1>4, <1>5 DEF ListInv

(* Whatever the event loop does, and in the middle of tick() too, the      *)
(* pointers are one list of the timers, soonest first.                     *)
LEMMA ListStep ==
  ASSUME ListInv, [Next]_vars
  PROVE  ListInv' /\ [Abstract!Next]_(Abstract!tvars)
<1>1. Running(Nodes) = live /\ now \in Nat
  BY ListFacts DEF ListInv, ListTypes
<1>2. ASSUME NEW t \in Timers, AddTimer(t) PROVE ListInv' /\ Abstract!Next
  <2>1. /\ ListInv' /\ t \notin Running(Nodes)
        /\ Nodes' = InsertBy(Nodes, expire, t, now + Lifetime)
    BY <1>2, AddStep
  <2>2. expire' = [expire EXCEPT ![t] = now + Lifetime] /\ now' = now
    BY <1>2 DEF AddTimer
  <2>3. Abstract!Add(t)
    BY <2>1, <2>2 DEF Abstract!Add, Abstract!Running, Abstract!InsertBy, Abstract!Deadline, Running, InsertBy
  <2> QED
    BY <2>1, <2>3 DEF Abstract!Next
<1>3. ASSUME NEW t \in Timers, AdjustTimer(t) PROVE ListInv' /\ Abstract!Next
  <2>1. /\ ListInv' /\ t \in Running(Nodes)
        /\ Nodes' = InsertBy(Without(Nodes, t), expire, t, now + Lifetime)
    BY <1>3, AdjustStep
  <2>2. expire' = [expire EXCEPT ![t] = now + Lifetime] /\ now' = now
    BY <1>3 DEF AdjustTimer
  <2>3. Abstract!Adjust(t)
    BY <2>1, <2>2 DEF Abstract!Adjust, Abstract!Running, Abstract!InsertBy, Abstract!Without,
                      Abstract!Deadline, Running, InsertBy, Without
  <2> QED
    BY <2>1, <2>3 DEF Abstract!Next
<1>4. ASSUME NEW t \in Timers, RemoveTimer(t) PROVE ListInv' /\ Abstract!Next
  <2>1. ListInv' /\ t \in Running(Nodes) /\ Nodes' = Without(Nodes, t)
    BY <1>4, RemoveStep
  <2>2. expire' = expire /\ now' = now
    BY <1>4 DEF RemoveTimer
  <2>3. Abstract!Remove(t)
    BY <2>1, <2>2 DEF Abstract!Remove, Abstract!Running, Abstract!Without, Running, Without
  <2> QED
    BY <2>1, <2>3 DEF Abstract!Next
<1>5. ASSUME TickExpired PROVE ListInv' /\ Abstract!Next
  <2>1. ListInv' /\ Nodes # << >> /\ expire[Head(Nodes)] <= now /\ Nodes' = Tail(Nodes)
    BY <1>5, ExpireStep
  <2>2. expire' = expire /\ now' = now
    BY <1>5 DEF TickExpired
  <2> QED
    BY <2>1, <2>2 DEF Abstract!Next, Abstract!Expire
<1>6. ASSUME Tick \/ TickStop \/ TickDeleted \/ Clock \/ UNCHANGED vars
      PROVE  ListInv' /\ [Abstract!Next]_(Abstract!tvars)
  <2>1. ListInv' /\ Nodes' = Nodes /\ expire' = expire /\ (now' = now \/ now' > now)
    BY <1>6, QuietStep
  <2> QED
    BY <2>1 DEF Abstract!Next, Abstract!Clock, Abstract!tvars
<1> QED
  BY <1>2, <1>3, <1>4, <1>5, <1>6 DEF Next

(* The invariant and the simulation, along every behaviour.                *)
LEMMA ListSpec == Spec => []ListInv /\ [][Abstract!Next]_(Abstract!tvars)
<1>1. Init => ListInv
  BY ListStarts
<1>2. ListInv /\ [Next]_vars => ListInv' /\ [Abstract!Next]_(Abstract!tvars)
  BY ListStep
<1> QED
  BY <1>1, <1>2, PTL DEF Spec

-----------------------------------------------------------------------------
(* The pointers of the list: whatever is added, adjusted, removed and      *)
(* expired, in any order and for any number of timers, the timers that are *)
(* allocated are on one list, linked both ways, with nothing deleted in it. *)
THEOREM PointersAreOneList == Spec => []WellLinked
<1>1. ASSUME ListInv PROVE WellLinked
  <2> SUFFICES ASSUME live # {}
               PROVE  /\ {Nodes[i] : i \in 1..Len(Nodes)} = live /\ Len(Nodes) = Cardinality(live)
                      /\ prev[head] = Null
                      /\ tail = Nodes[Len(Nodes)] /\ next[tail] = Null
                      /\ \A i \in 1..(Len(Nodes) - 1) : prev[Nodes[i + 1]] = Nodes[i]
    BY DEF WellLinked
  <2> DEFINE s == Nodes
  <2>1. /\ s \in Seq(Timers) /\ Distinct(s) /\ Running(s) = live /\ Len(s) \in Nat
        /\ Links(s, next, prev) /\ Len(s) > 0 /\ head = s[1] /\ tail = s[Len(s)]
    BY <1>1, ListFacts
  <2> HIDE DEF s
  <2>2. {s[i] : i \in 1..Len(s)} = live /\ Len(s) = Cardinality(live)
    BY <2>1, CountIs DEF Running
  <2>3. prev[head] = Null
    <3>1. 1 \in 1..Len(s) /\ ~(1 > 1)
      BY <2>1
    <3> QED
      BY <2>1, <3>1 DEF Links
  <2>4. next[tail] = Null
    <3>1. Len(s) \in 1..Len(s) /\ ~(Len(s) < Len(s))
      BY <2>1
    <3> QED
      BY <2>1, <3>1 DEF Links
  <2>5. ASSUME NEW i \in 1..(Len(s) - 1) PROVE prev[s[i + 1]] = s[i]
    <3> DEFINE j == i + 1
    <3>1. j \in 1..Len(s) /\ j > 1 /\ j - 1 = i
      BY <2>1
    <3> HIDE DEF j
    <3>2. prev[s[j]] = s[i]
      BY <2>1, <3>1 DEF Links
    <3> QED
      BY <3>2 DEF j
  <2> QED
    BY <2>1, <2>2, <2>3, <2>4, <2>5 DEF s
<1> QED
  BY <1>1, ListSpec, PTL

(* tick() calls back every timer that has expired and no other, although   *)
(* it stops at the first one that has not.                                 *)
THEOREM TickCallsBackTheExpired == Spec => TickIsExact
<1>1. ASSUME ListInv, TickStop, NEW t \in live PROVE now < expire[t]
  <2> DEFINE s == Nodes
  <2>1. /\ Sorted(s, expire) /\ Len(s) \in Nat
        /\ Len(s) > 0 => head = s[1]
        /\ \A x \in live : \E k \in 1..Len(s) : x = s[k]
        /\ \A x \in live : expire[x] \in Nat
    BY <1>1, ListFacts
  <2>2. pc = "tick" /\ cur \in live /\ now < expire[cur]
    BY <1>1 DEF TickStop
  <2>3. cur = head /\ now \in Nat
    BY <1>1, <2>2 DEF ListInv, ListTypes, HeadInv
  <2> HIDE DEF s
  <2>4. PICK k \in 1..Len(s) : t = s[k]
    BY <2>1
  <2>5. expire[cur] <= expire[t]
    <3>1. CASE k = 1
      BY <2>1, <2>2, <2>3, <2>4, <3>1
    <3>2. CASE k # 1
      <4>1. 1 \in 1..Len(s) /\ 1 < k /\ Len(s) > 0
        BY <2>1, <3>2
      <4>2. expire[s[1]] <= expire[s[k]]
        BY <2>1, <2>4, <4>1 DEF Sorted
      <4> QED
        BY <2>1, <2>3, <2>4, <4>1, <4>2
    <3> QED
      BY <3>1, <3>2
  <2> QED
    BY <2>1, <2>2, <2>3, <2>5
<1>2. ListInv => [TickStop => \A t \in live : now < expire[t]]_vars
  BY <1>1
<1> QED
  BY <1>2, ListSpec, PTL DEF TickIsExact

(* The doubly linked list does what the sorted list of SortedTimers does,  *)
(* which is all the event loop relies on.                                  *)
THEOREM PointersImplementSortedTimers == Spec => ImplementsSortedTimers
<1>1. Init => Abstract!Init
  <2> SUFFICES ASSUME Init PROVE Abstract!Init
    OBVIOUS
  <2>1. Nodes = << >>
    BY ListStarts
  <2> QED
    BY <2>1 DEF Init, Abstract!Init
<1>2. Spec => Init
  BY DEF Spec
<1> QED
  BY <1>1, <1>2, ListSpec, PTL DEF ImplementsSortedTimers, Abstract!Spec
=============================================================================
