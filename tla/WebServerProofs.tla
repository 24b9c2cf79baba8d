-------------------------- MODULE WebServerProofs --------------------------
(***************************************************************************)
(* Proofs about WebServer, for every number of clients, descriptors and    *)
(* workers and every configuration:                                        *)
(*   HandInv   the reactor's handshake;                                    *)
(*   TypeInv   types;                                                      *)
(*   TimersInv the timer list, the descriptors and the batch of events, in *)
(*             any environment;                                            *)
(*   MatchInv  timers, connections and m_user_count, as long as no worker  *)
(*             closes a connection itself;                                 *)
(*   CalmInv, FoundInv  jobs, descriptors and whose data is where, in a    *)
(*             calm setting.                                               *)
(***************************************************************************)
EXTENDS WebServer, Integers, SequenceTheorems, FiniteSetTheorems, TLAPS

(* The timer list as a sequence: what putting a timer into it and taking   *)
(* one out do to the list, to the set of running timers and to their       *)
(* order, for every list.                                                  *)
Distinct(s) == \A i, k \in 1..Len(s) : s[i] = s[k] => i = k

(* exp gives every timer its expiry; in new, that of t is e.               *)
Expires(T, exp) == \A x \in T : exp[x] \in Nat
Moved(T, exp, new, t, e) == \A x \in T : new[x] = IF x = t THEN e ELSE exp[x]

(* A set of numbers has a least one.                                       *)
LEMMA LeastElement ==
  ASSUME NEW S \in SUBSET Nat, S # {}
  PROVE  \E m \in S : \A k \in S : m <= k
<1> DEFINE R == {p \in Nat \X Nat : p[1] < p[2]}
<1>1. IsWellFoundedOn(R, Nat)
  BY NatLessThanWellFounded DEF OpToRel
<1>2. PICK m \in S : \A k \in S : ~ (<<k, m>> \in R)
  <2> HIDE DEF R
  <2> QED
    BY <1>1, WFMin
<1>3. ASSUME NEW k \in S PROVE m <= k
  <2>1. <<k, m>> \in Nat \X Nat => ~ (k < m)
    BY <1>2
  <2> QED
    BY <2>1
<1> QED
  BY <1>3

(* Taking a timer out.                                                     *)
LEMMA WithoutFacts ==
  ASSUME NEW T, NEW s \in Seq(T), Distinct(s), NEW t \in Running(s)
  PROVE  /\ Without(s, t) \in Seq(T)
         /\ Distinct(Without(s, t))
         /\ Running(Without(s, t)) = Running(s) \ {t}
         /\ \A exp : Sorted(s, exp) => Sorted(Without(s, t), exp)
<1> DEFINE n == Len(s)
           at == CHOOSE i \in 1..n : s[i] = t
           left == SubSeq(s, 1, at - 1)
           right == SubSeq(s, at + 1, n)
           w == Without(s, t)
<1>1. n \in Nat /\ at \in 1..n /\ s[at] = t
  BY LenProperties DEF Running
<1>2. \A i \in 1..n : s[i] \in T
  BY ElementOfSeq
<1>3. w = left \o right
  BY DEF Without
<1> HIDE DEF at
<1>4. /\ left \in Seq(T) /\ Len(left) = at - 1
      /\ \A i \in 1..(at - 1) : left[i] = s[i]
  <2>1. \A i \in 1..(at - 1) : s[i] \in T
    BY <1>1, <1>2
  <2> QED
    BY <1>1, <2>1, SubSeqProperties
<1>5. /\ right \in Seq(T) /\ Len(right) = n - at
      /\ \A i \in 1..(n - at) : right[i] = s[at + i]
  <2>1. \A i \in (at + 1)..n : s[i] \in T
    BY <1>1, <1>2
  <2>2. /\ right \in Seq(T) /\ Len(right) = IF at + 1 <= n THEN n - (at + 1) + 1 ELSE 0
        /\ \A i \in 1..(n - (at + 1) + 1) : right[i] = s[(at + 1) + i - 1]
    BY <1>1, <2>1, SubSeqProperties
  <2> QED
    BY <1>1, <2>2
<1> HIDE DEF n, left, right, w
<1>6. w \in Seq(T) /\ Len(w) = n - 1
  <2>1. w \in Seq(T) /\ Len(w) = Len(left) + Len(right)
    BY <1>3, <1>4, <1>5, ConcatProperties
  <2> QED
    BY <1>1, <1>4, <1>5, <2>1
<1>7. \A i \in 1..(n - 1) : w[i] = IF i < at THEN s[i] ELSE s[i + 1]
  <2> SUFFICES ASSUME NEW i \in 1..(n - 1) PROVE w[i] = IF i < at THEN s[i] ELSE s[i + 1]
    OBVIOUS
  <2>1. w[i] = IF i <= at - 1 THEN left[i] ELSE right[i - (at - 1)]
    BY <1>1, <1>3, <1>4, <1>5, ConcatProperties
  <2>2. CASE i < at
    BY <1>1, <1>4, <2>1, <2>2
  <2>3. CASE i >= at
    <3>1. i - (at - 1) \in 1..(n - at) /\ at + (i - (at - 1)) = i + 1
      BY <1>1, <2>3
    <3> QED
      BY <1>1, <1>5, <2>1, <2>3, <3>1
  <2> QED
    BY <1>1, <2>2, <2>3
<1>8. Distinct(w)
  BY <1>1, <1>6, <1>7 DEF Distinct, n
<1>9. Running(w) = Running(s) \ {t}
  <2>1. ASSUME NEW i \in 1..(n - 1) PROVE w[i] \in Running(s) \ {t}
    <3> DEFINE a == IF i < at THEN i ELSE i + 1
    <3>1. a \in 1..n /\ a # at /\ w[i] = s[a]
      BY <1>1, <1>7
    <3> HIDE DEF a
    <3>2. s[a] \in Running(s)
      BY <3>1 DEF Running, n
    <3>3. s[a] # t
      BY <1>1, <3>1 DEF Distinct, n
    <3> QED
      BY <3>1, <3>2, <3>3
  <2>2. ASSUME NEW i \in 1..n, s[i] # t PROVE \E k \in 1..(n - 1) : w[k] = s[i]
    <3>1. CASE i < at
      BY <1>1, <1>7, <3>1
    <3>2. CASE i > at
      <4>1. i - 1 \in 1..(n - 1) /\ ~ (i - 1 < at) /\ (i - 1) + 1 = i
        BY <1>1, <3>2
      <4> QED
        BY <1>7, <4>1
    <3> QED
      BY <1>1, <2>2, <3>1, <3>2
  <2>3. Running(w) = {w[i] : i \in 1..(n - 1)}
    BY <1>6 DEF Running
  <2>4. Running(s) \ {t} \subseteq {w[i] : i \in 1..(n - 1)}
    BY <2>2 DEF Running, n
  <2> QED
    BY <2>1, <2>3, <2>4
<1>10. ASSUME NEW exp, Sorted(s, exp) PROVE Sorted(w, exp)
  <2> SUFFICES ASSUME NEW i \in 1..(n - 1), NEW k \in 1..(n - 1), i < k
               PROVE  exp[w[i]] <= exp[w[k]]
    BY <1>6 DEF Sorted
  <2>1. PICK a \in 1..n, b \in 1..n : a < b /\ w[i] = s[a] /\ w[k] = s[b]
    <3>1. CASE i < at /\ k < at
      <4>1. i \in 1..n /\ k \in 1..n
        BY <1>1
      <4> QED
        BY <1>7, <3>1, <4>1
    <3>2. CASE i < at /\ ~ (k < at)
      <4>1. i \in 1..n /\ k + 1 \in 1..n /\ i < k + 1
        BY <1>1
      <4> QED
        BY <1>7, <3>2, <4>1
    <3>3. CASE ~ (i < at)
      <4>1. i + 1 \in 1..n /\ k + 1 \in 1..n /\ i + 1 < k + 1 /\ ~ (k < at)
        BY <1>1, <3>3
      <4> QED
        BY <1>7, <3>3, <4>1
    <3> QED
      BY <3>1, <3>2, <3>3
  <2> QED
    BY <1>10, <2>1 DEF Sorted, n
<1> QED
  BY <1>6, <1>8, <1>9, <1>10 DEF w

(* Putting a timer in that is not there yet.                               *)
LEMMA InsertFacts ==
  ASSUME NEW T, NEW s \in Seq(T), Distinct(s), NEW t \in T, t \notin Running(s),
         NEW exp, Expires(T, exp), NEW e \in Nat, Sorted(s, exp),
         NEW new, Moved(T, exp, new, t, e)
  PROVE  /\ InsertBy(s, exp, t, e) \in Seq(T)
         /\ Distinct(InsertBy(s, exp, t, e))
         /\ Running(InsertBy(s, exp, t, e)) = Running(s) \union {t}
         /\ Sorted(InsertBy(s, exp, t, e), new)
<1> DEFINE n == Len(s)
           later == {i \in 1..n : e < exp[s[i]]}
           at == IF later = {} THEN n + 1 ELSE CHOOSE i \in later : \A k \in later : i <= k
           left == SubSeq(s, 1, at - 1)
           right == SubSeq(s, at, n)
           mid == left \o <<t>>
           w == InsertBy(s, exp, t, e)
<1>1. n \in Nat /\ \A i \in 1..n : s[i] \in T /\ s[i] # t /\ exp[s[i]] \in Nat
  BY LenProperties, ElementOfSeq DEF Running, Expires
<1>2. later \in SUBSET (1..n) /\ later \in SUBSET Nat
  BY <1>1
<1>3. later # {} => at \in later /\ \A k \in later : at <= k
  <2> HIDE DEF later
  <2>1. later # {} => \E m \in later : \A k \in later : m <= k
    BY <1>2, LeastElement
  <2> QED
    BY <2>1
<1>4. later = {} => at = n + 1
  OBVIOUS
<1>5. w = mid \o right
  BY DEF InsertBy
<1> HIDE DEF at
<1>6. at \in 1..(n + 1)
  BY <1>1, <1>2, <1>3, <1>4
<1>7. /\ \A i \in 1..(at - 1) : exp[s[i]] <= e
      /\ \A i \in at..n : e <= exp[s[i]]
  <2>1. CASE later = {}
    <3>1. \A i \in 1..n : ~ (e < exp[s[i]])
      BY <2>1 DEF later
    <3>2. at = n + 1
      BY <1>4, <2>1
    <3> QED
      BY <1>1, <3>1, <3>2
  <2>2. CASE later # {}
    <3>1. ASSUME NEW i \in 1..(at - 1) PROVE exp[s[i]] <= e
      <4>1. i \in 1..n /\ i \notin later
        BY <1>1, <1>2, <1>3, <2>2
      <4> QED
        BY <1>1, <4>1
    <3>2. ASSUME NEW i \in at..n PROVE e <= exp[s[i]]
      <4>1. i \in 1..n /\ at \in 1..n /\ (at < i \/ at = i)
        BY <1>1, <1>6
      <4>2. exp[s[at]] <= exp[s[i]]
        BY <1>1, <4>1 DEF Sorted
      <4> QED
        BY <1>1, <1>3, <2>2, <4>1, <4>2
    <3> QED
      BY <3>1, <3>2
  <2> QED
    BY <2>1, <2>2
<1> HIDE DEF later
<1>8. /\ left \in Seq(T) /\ Len(left) = at - 1
      /\ \A i \in 1..(at - 1) : left[i] = s[i]
  <2>1. \A i \in 1..(at - 1) : s[i] \in T
    BY <1>1, <1>6
  <2> QED
    BY <1>6, <2>1, SubSeqProperties
<1>9. /\ right \in Seq(T) /\ Len(right) = n + 1 - at
      /\ \A i \in 1..(n + 1 - at) : right[i] = s[at + i - 1]
  <2>1. \A i \in at..n : s[i] \in T
    BY <1>1, <1>6
  <2>2. /\ right \in Seq(T) /\ Len(right) = IF at <= n THEN n - at + 1 ELSE 0
        /\ \A i \in 1..(n - at + 1) : right[i] = s[at + i - 1]
    BY <1>1, <1>6, <2>1, SubSeqProperties
  <2> QED
    BY <1>1, <1>6, <2>2
<1> HIDE DEF n, left, right, w
<1>10. /\ mid \in Seq(T) /\ Len(mid) = at
       /\ \A i \in 1..(at - 1) : mid[i] = s[i]
       /\ mid[at] = t
  <2>1. <<t>> \in Seq(T) /\ Len(<<t>>) = 1 /\ <<t>>[1] = t
    OBVIOUS
  <2>2. /\ mid \in Seq(T) /\ Len(mid) = Len(left) + 1
        /\ \A i \in 1..(Len(left) + 1) :
             mid[i] = IF i <= Len(left) THEN left[i] ELSE <<t>>[i - Len(left)]
    BY <1>8, <2>1, ConcatProperties
  <2> HIDE DEF mid
  <2>3. Len(mid) = at /\ mid[at] = t
    BY <1>6, <1>8, <2>1, <2>2
  <2>4. ASSUME NEW i \in 1..(at - 1) PROVE mid[i] = s[i]
    <3>1. i \in 1..(Len(left) + 1) /\ i <= Len(left)
      BY <1>6, <1>8
    <3> QED
      BY <1>8, <2>2, <3>1
  <2> QED
    BY <2>2, <2>3, <2>4
<1> HIDE DEF mid
<1>11. w \in Seq(T) /\ Len(w) = n + 1
  <2>1. w \in Seq(T) /\ Len(w) = Len(mid) + Len(right)
    BY <1>5, <1>9, <1>10, ConcatProperties
  <2> QED
    BY <1>1, <1>6, <1>9, <1>10, <2>1
<1>12. \A i \in 1..(n + 1) : w[i] = IF i < at THEN s[i] ELSE IF i = at THEN t ELSE s[i - 1]
  <2> SUFFICES ASSUME NEW i \in 1..(n + 1)
               PROVE  w[i] = IF i < at THEN s[i] ELSE IF i = at THEN t ELSE s[i - 1]
    OBVIOUS
  <2>1. w[i] = IF i <= at THEN mid[i] ELSE right[i - at]
    <3>1. \A j \in 1..(Len(mid) + Len(right)) :
            w[j] = IF j <= Len(mid) THEN mid[j] ELSE right[j - Len(mid)]
      BY <1>5, <1>9, <1>10, ConcatProperties
    <3>2. Len(mid) = at /\ Len(mid) + Len(right) = n + 1
      BY <1>1, <1>6, <1>9, <1>10
    <3> QED
      BY <3>1, <3>2
  <2>2. CASE i <= at
    <3>1. w[i] = mid[i] /\ (i < at => i \in 1..(at - 1)) /\ (i = at \/ i < at)
      BY <1>6, <2>1, <2>2
    <3>2. CASE i = at
      <4>1. mid[at] = t
        BY <1>10
      <4> QED
        BY <1>6, <3>1, <3>2, <4>1
    <3>3. CASE i < at
      BY <1>10, <3>1, <3>3
    <3> QED
      BY <3>1, <3>2, <3>3
  <2>3. CASE i > at
    <3>1. i - at \in 1..(n + 1 - at) /\ at + (i - at) - 1 = i - 1
      BY <1>1, <1>6, <2>3
    <3> QED
      BY <1>1, <1>6, <1>9, <2>1, <2>3, <3>1
  <2> QED
    BY <1>1, <1>6, <2>2, <2>3
<1>13. \A i \in 1..(n + 1) :
         \/ i = at /\ w[i] = t
         \/ i < at /\ i \in 1..n /\ w[i] = s[i]
         \/ i > at /\ i - 1 \in 1..n /\ w[i] = s[i - 1]
  <2>1. ASSUME NEW i \in 1..(n + 1)
        PROVE  \/ i = at /\ w[i] = t
               \/ i < at /\ i \in 1..n /\ w[i] = s[i]
               \/ i > at /\ i - 1 \in 1..n /\ w[i] = s[i - 1]
    <3>1. w[i] = IF i < at THEN s[i] ELSE IF i = at THEN t ELSE s[i - 1]
      BY <1>12
    <3> QED
      BY <1>1, <1>6, <3>1
  <2> QED
    BY <2>1
<1>14. Distinct(w)
  <2> SUFFICES ASSUME NEW i \in 1..(n + 1), NEW k \in 1..(n + 1), w[i] = w[k]
               PROVE  i = k
    BY <1>11 DEF Distinct
  <2>1. \A a, b \in 1..n : s[a] = s[b] => a = b
    BY DEF Distinct, n
  <2>2. CASE i = at
    BY <1>1, <1>13, <1>6, <2>2
  <2>3. CASE k = at
    BY <1>1, <1>13, <1>6, <2>3
  <2>4. CASE i # at /\ k # at
    BY <1>13, <1>6, <2>1, <2>4
  <2> QED
    BY <2>2, <2>3, <2>4
<1>15. Running(w) = Running(s) \union {t}
  <2>1. Running(w) = {w[i] : i \in 1..(n + 1)}
    BY <1>11 DEF Running
  <2>2. \A i \in 1..(n + 1) : w[i] \in Running(s) \union {t}
    BY <1>13 DEF Running, n
  <2>3. w[at] = t
    BY <1>6, <1>12
  <2>4. ASSUME NEW i \in 1..n PROVE \E k \in 1..(n + 1) : w[k] = s[i]
    <3>1. CASE i < at
      BY <1>1, <1>12, <3>1
    <3>2. CASE i >= at
      <4>1. i + 1 \in 1..(n + 1) /\ ~ (i + 1 < at) /\ i + 1 # at /\ (i + 1) - 1 = i
        BY <1>1, <1>6, <3>2
      <4> QED
        BY <1>12, <4>1
    <3> QED
      BY <1>1, <1>6, <3>1, <3>2
  <2>5. Running(s) \union {t} \subseteq {w[i] : i \in 1..(n + 1)}
    BY <1>6, <2>3, <2>4 DEF Running, n
  <2> QED
    BY <2>1, <2>2, <2>5
<1>16. Sorted(w, new)
  <2> SUFFICES ASSUME NEW i \in 1..(n + 1), NEW k \in 1..(n + 1), i < k
               PROVE  new[w[i]] <= new[w[k]]
    BY <1>11 DEF Sorted
  <2>1. new[t] = e /\ \A j \in 1..n : new[s[j]] = exp[s[j]]
    BY <1>1 DEF Moved
  <2>2. CASE i < at /\ k < at
    <3>1. i \in 1..n /\ k \in 1..n /\ w[i] = s[i] /\ w[k] = s[k]
      BY <1>1, <1>6, <1>12, <2>2
    <3> QED
      BY <2>1, <3>1 DEF Sorted, n
  <2>3. CASE i < at /\ k = at
    <3>1. i \in 1..n /\ w[i] = s[i] /\ w[k] = t /\ i \in 1..(at - 1)
      BY <1>1, <1>6, <1>12, <2>3
    <3> QED
      BY <1>7, <2>1, <3>1
  <2>4. CASE i < at /\ k > at
    <3>1. i \in 1..n /\ k - 1 \in 1..n /\ w[i] = s[i] /\ w[k] = s[k - 1] /\ i < k - 1
      BY <1>1, <1>6, <1>12, <2>4
    <3> QED
      BY <2>1, <3>1 DEF Sorted, n
  <2>5. CASE i = at
    <3>1. k - 1 \in 1..n /\ w[i] = t /\ w[k] = s[k - 1] /\ k - 1 \in at..n
      BY <1>1, <1>6, <1>12, <2>5
    <3>2. new[w[i]] = e /\ new[w[k]] = exp[s[k - 1]]
      BY <2>1, <3>1
    <3>3. e <= exp[s[k - 1]]
      BY <1>1, <1>6, <1>7, <3>1
    <3> QED
      BY <3>2, <3>3
  <2>6. CASE i > at
    <3>1. /\ i - 1 \in 1..n /\ k - 1 \in 1..n /\ i - 1 < k - 1
          /\ ~ (i < at) /\ i # at /\ ~ (k < at) /\ k # at
      BY <1>1, <1>6, <2>6
    <3>2. w[i] = s[i - 1] /\ w[k] = s[k - 1]
      BY <1>12, <3>1
    <3> QED
      BY <2>1, <3>1, <3>2 DEF Sorted, n
  <2> QED
    BY <1>1, <1>6, <2>2, <2>3, <2>4, <2>5, <2>6
<1> QED
  BY <1>11, <1>14, <1>15, <1>16 DEF w

(* In a sorted list the timers that expire by d are a front part of it, as *)
(* long as there are such timers; what is left without them is sorted and  *)
(* has the others.                                                         *)
LEMMA FrontFacts ==
  ASSUME NEW T, NEW s \in Seq(T), Distinct(s),
         NEW exp \in [T -> Nat], NEW d \in Nat, Sorted(s, exp),
         NEW E, E = {t \in Running(s) : exp[t] <= d}
  PROVE  /\ IsFiniteSet(E) /\ Cardinality(E) \in 0..Len(s)
         /\ \A i \in 1..Len(s) : s[i] \in E <=> i <= Cardinality(E)
         /\ SubSeq(s, Cardinality(E) + 1, Len(s)) \in Seq(T)
         /\ Distinct(SubSeq(s, Cardinality(E) + 1, Len(s)))
         /\ Running(SubSeq(s, Cardinality(E) + 1, Len(s))) = Running(s) \ E
         /\ Sorted(SubSeq(s, Cardinality(E) + 1, Len(s)), exp)
<1> DEFINE n == Len(s)
           later == {i \in 1..n : d < exp[s[i]]}
<1>1. n \in Nat /\ \A i \in 1..n : s[i] \in T /\ exp[s[i]] \in Nat
  BY LenProperties, ElementOfSeq
<1>2. \A i \in 1..n : s[i] \in E <=> i \notin later
  BY <1>1 DEF Running
<1>3. \A i, k \in 1..n : i < k => exp[s[i]] <= exp[s[k]]
  BY DEF Sorted
<1>4. E \subseteq {s[i] : i \in 1..n}
  BY DEF Running
<1>5. later \in SUBSET (1..n) /\ later \in SUBSET Nat
  BY <1>1
<1>6. \A i \in later, k \in 1..n : i < k => k \in later
  BY <1>1, <1>3
<1> HIDE DEF n, later
<1>7. \E m \in 0..n : \A i \in 1..n : s[i] \in E <=> i <= m
  <2>1. CASE later = {}
    BY <1>1, <1>2, <2>1
  <2>2. CASE later # {}
    <3>1. PICK l \in later : \A k \in later : l <= k
      BY <1>5, <2>2, LeastElement
    <3>2. l \in 1..n /\ l - 1 \in 0..n
      BY <1>1, <1>5, <3>1
    <3>3. ASSUME NEW i \in 1..n PROVE s[i] \in E <=> i <= l - 1
      <4>1. i < l => i \notin later
        BY <1>1, <3>1, <3>2
      <4>2. i >= l => i \in later
        BY <1>1, <1>6, <3>1, <3>2
      <4> QED
        BY <1>1, <1>2, <3>2, <4>1, <4>2
    <3> QED
      BY <3>2, <3>3
  <2> QED
    BY <2>1, <2>2
<1>8. PICK m \in 0..n : \A i \in 1..n : s[i] \in E <=> i <= m
  BY <1>7
<1>9. m \in Nat /\ m <= n /\ \A i \in 1..m : i \in 1..n
  BY <1>1, <1>8
<1>10. IsFiniteSet(E) /\ Cardinality(E) = m
  <2> DEFINE f == [i \in 1..m |-> s[i]]
  <2>1. f \in [1..m -> E]
    BY <1>8, <1>9
  <2>2. \A i, k \in 1..m : f[i] = f[k] => i = k
    BY <1>9 DEF Distinct, n
  <2>3. \A t \in E : \E i \in 1..m : f[i] = t
    BY <1>4, <1>8, <1>9
  <2>4. f \in Bijection(1..m, E)
    BY <2>1, <2>2, <2>3 DEF Bijection, Injection, Surjection, IsInjective
  <2>5. ExistsBijection(1..m, E)
    BY <2>4 DEF ExistsBijection
  <2>6. IsFiniteSet(1..m) /\ Cardinality(1..m) = m
    BY <1>9, FS_Interval
  <2> QED
    BY <2>5, <2>6, FS_Bijection
<1> DEFINE w == SubSeq(s, m + 1, n)
<1>11. w \in Seq(T) /\ Len(w) = n - m /\ \A i \in 1..(n - m) : w[i] = s[m + i]
  <2>1. \A i \in (m + 1)..n : s[i] \in T
    BY <1>1, <1>9
  <2>2. /\ w \in Seq(T) /\ Len(w) = IF m + 1 <= n THEN n - (m + 1) + 1 ELSE 0
        /\ \A i \in 1..(n - (m + 1) + 1) : w[i] = s[(m + 1) + i - 1]
    BY <1>1, <1>9, <2>1, SubSeqProperties
  <2> HIDE DEF w
  <2>3. Len(w) = n - m
    BY <1>1, <1>9, <2>2
  <2>4. ASSUME NEW i \in 1..(n - m) PROVE w[i] = s[m + i]
    <3>1. i \in 1..(n - (m + 1) + 1) /\ (m + 1) + i - 1 = m + i
      BY <1>1, <1>9
    <3> QED
      BY <2>2, <3>1
  <2> QED
    BY <2>2, <2>3, <2>4
<1> HIDE DEF w
<1>12. \A i \in 1..(n - m) : m + i \in 1..n /\ w[i] = s[m + i] /\ w[i] \notin E
  BY <1>1, <1>8, <1>9, <1>11
<1>13. Distinct(w)
  <2> SUFFICES ASSUME NEW i \in 1..(n - m), NEW k \in 1..(n - m), w[i] = w[k]
               PROVE  i = k
    BY <1>11 DEF Distinct
  <2>1. m + i = m + k
    BY <1>12 DEF Distinct, n
  <2> QED
    BY <1>9, <2>1
<1>14. Sorted(w, exp)
  <2> SUFFICES ASSUME NEW i \in 1..(n - m), NEW k \in 1..(n - m), i < k
               PROVE  exp[w[i]] <= exp[w[k]]
    BY <1>11 DEF Sorted
  <2>1. m + i < m + k
    BY <1>9
  <2> QED
    BY <1>3, <1>12, <2>1
<1>15. Running(w) = Running(s) \ E
  <2>1. Running(w) = {w[i] : i \in 1..(n - m)}
    BY <1>11 DEF Running
  <2>2. \A i \in 1..(n - m) : w[i] \in Running(s) \ E
    BY <1>12 DEF Running, n
  <2>3. ASSUME NEW i \in 1..n, s[i] \notin E PROVE \E k \in 1..(n - m) : w[k] = s[i]
    <3>1. i - m \in 1..(n - m) /\ m + (i - m) = i
      BY <1>1, <1>8, <1>9, <2>3
    <3> QED
      BY <1>11, <3>1
  <2>4. Running(s) \ E \subseteq {w[i] : i \in 1..(n - m)}
    BY <2>3 DEF Running, n
  <2> QED
    BY <2>1, <2>2, <2>4
<1> QED
  BY <1>8, <1>10, <1>11, <1>13, <1>14, <1>15 DEF w, n

-----------------------------------------------------------------------------

(* What the code needs of a configuration and of a worker's record.        *)
Shapes == /\ setting \in Settings
          /\ improv \in [Fds -> {0, 1}]
          /\ DOMAIN worker = Workers
          /\ \A w \in Workers : DOMAIN worker[w] = {"at", "task", "asked", "count"}

Unrep(w) == worker[w].at \in {"read", "write"}
NoneUnrep == \A w \in Workers : ~Unrep(w)
NoneImproved == \A k \in Fds : improv[k] = 0

(* The places of the one job the event loop waits for.                     *)
InQueue == queue = <<mfd>> /\ NoneUnrep /\ NoneImproved
WithWorker == /\ queue = << >> /\ NoneImproved
              /\ \E w \in Workers : /\ Unrep(w) /\ worker[w].task = mfd
                                    /\ \A v \in Workers \ {w} : ~Unrep(v)
InImprov == /\ queue = << >> /\ NoneUnrep
            /\ \A k \in Fds : improv[k] = IF k = mfd THEN 1 ELSE 0
Quiet == queue = << >> /\ NoneUnrep /\ NoneImproved

OnePlace == /\ mpc = "spin" => mfd \in Fds /\ (InQueue \/ WithWorker \/ InImprov)
            /\ mpc = "seen" => mfd \in Fds /\ InImprov
            /\ mpc \notin {"spin", "seen"} => Quiet

HandInv == Shapes /\ (setting.mode = "reactor" => OnePlace)

LEMMA HandInit == Init => HandInv
BY DEF Init, HandInv, OnePlace, Shapes, Quiet, NoneUnrep, NoneImproved, Unrep, Idle

(* A step of one worker, which takes it to l.                              *)
Moves(w, l) == /\ DOMAIN worker' = Workers
               /\ \A v \in Workers : DOMAIN worker'[v] = {"at", "task", "asked", "count"}
               /\ worker'[w].at = l
               /\ \A v \in Workers \ {w} : worker'[v] = worker[v]

LEMMA GotoMoves ==
  ASSUME Shapes, NEW w \in Workers, NEW l, Goto(w, l)
  PROVE  Moves(w, l)
<1>1. CASE l = "idle"
  BY <1>1 DEF Goto, Shapes, Idle, Moves
<1>2. CASE l # "idle"
  BY <1>2 DEF Goto, Shapes, Moves
<1> QED
  BY <1>1, <1>2

(* A worker that is past its report steps without touching queue or flags. *)
LEMMA PastReport ==
  ASSUME HandInv, NEW w \in Workers, ~Unrep(w), NEW l, l \notin {"read", "write"},
         Moves(w, l), UNCHANGED <<setting, queue, improv, mpc, mfd>>
  PROVE  HandInv'
<1>1. /\ Shapes' /\ ~(worker'[w].at \in {"read", "write"})
      /\ \A v \in Workers \ {w} : worker'[v] = worker[v]
  BY DEF HandInv, Shapes, Moves
<1>2. \A v \in Workers : worker'[v].at \in {"read", "write"} <=> worker[v].at \in {"read", "write"}
  BY <1>1 DEF Unrep
<1>3. NoneUnrep' <=> NoneUnrep
  BY <1>2 DEF NoneUnrep, Unrep
<1>4. NoneImproved' <=> NoneImproved
  BY DEF NoneImproved
<1>5. (InQueue => InQueue') /\ (InImprov => InImprov') /\ (Quiet => Quiet')
  BY <1>3, <1>4 DEF InQueue, InImprov, Quiet
<1>6. WithWorker => WithWorker'
  BY <1>1, <1>2, <1>4 DEF WithWorker, Unrep
<1> QED
  BY <1>1, <1>5, <1>6 DEF HandInv, OnePlace

(* A worker that reports: the job moves from its hands to improv.          *)
LEMMA Reports ==
  ASSUME HandInv, NEW w \in Workers, Unrep(w), Improved(w), NEW l, l \notin {"read", "write"},
         Moves(w, l), UNCHANGED <<setting, queue, mpc, mfd>>
  PROVE  HandInv'
<1>1. Shapes'
  BY DEF HandInv, Shapes, Moves, Improved
<1>2. ASSUME setting.mode = "reactor" PROVE OnePlace'
  <2>1. mpc = "spin" /\ mfd \in Fds /\ WithWorker
    BY <1>2 DEF HandInv, OnePlace, InQueue, InImprov, Quiet, NoneUnrep
  <2>2. worker[w].task = mfd /\ \A v \in Workers \ {w} : ~Unrep(v)
    BY <2>1 DEF WithWorker
  <2>3. NoneUnrep'
    BY <2>2 DEF NoneUnrep, Unrep, Moves
  <2>4. \A k \in Fds : improv'[k] = IF k = mfd THEN 1 ELSE 0
    BY <2>1, <2>2 DEF WithWorker, NoneImproved, Improved, HandInv, Shapes
  <2> QED
    BY <2>1, <2>3, <2>4 DEF OnePlace, InImprov, WithWorker
<1> QED
  BY <1>1, <1>2 DEF HandInv

LEMMA FetchStep ==
  ASSUME HandInv, NEW w \in Workers, Fetch(w), UNCHANGED <<setting, mpc, mfd>>
  PROVE  HandInv'
<1>1. Shapes' /\ improv' = improv
  BY DEF HandInv, Shapes, Fetch, connVars
<1>2. ASSUME setting.mode = "reactor" PROVE OnePlace'
  <2>1. mpc = "spin" /\ mfd \in Fds /\ InQueue
    BY <1>2 DEF HandInv, OnePlace, WithWorker, InImprov, Quiet, Fetch
  <2>2. Head(queue) = mfd /\ Tail(queue) = << >>
    BY <2>1 DEF InQueue
  <2>3. /\ queue' = << >> /\ worker'[w].task = mfd /\ worker'[w].at \in {"read", "write"}
        /\ \A v \in Workers \ {w} : worker'[v] = worker[v]
    BY <1>2, <2>2 DEF Fetch, HandInv, Shapes
  <2>4. NoneImproved' /\ \A v \in Workers \ {w} : ~Unrep(v)'
    BY <1>1, <2>1, <2>3 DEF InQueue, NoneImproved, NoneUnrep, Unrep
  <2> QED
    BY <2>1, <2>3, <2>4 DEF OnePlace, WithWorker, Unrep
<1> QED
  BY <1>1, <1>2 DEF HandInv

LEMMA WorkerKeeps ==
  ASSUME HandInv, NEW w \in Workers, WorkerStep(w)
  PROVE  HandInv'
<1>0. Shapes /\ UNCHANGED <<setting, mpc, mfd>>
  BY DEF HandInv, WorkerStep, mainVars
<1>1. CASE Fetch(w)
  BY <1>0, <1>1, FetchStep
<1>2. CASE DoRead(w)
  <2>1. Unrep(w) /\ Improved(w) /\ queue' = queue
        /\ \E l \in {"process", "flag", "idle"} : Goto(w, l)
    BY <1>2 DEF DoRead, Unrep, ReportFailure
  <2> QED
    BY <1>0, <2>1, GotoMoves, Reports
<1>3. CASE DoWrite(w)
  <2>1. Unrep(w) /\ Improved(w) /\ queue' = queue
        /\ \E l \in {"flag", "idle"} : Goto(w, l)
    BY <1>3 DEF DoWrite, Unrep, ReportFailure
  <2> QED
    BY <1>0, <2>1, GotoMoves, Reports
<1>4. CASE SetTimerFlag(w) \/ NoRequest(w) \/ ProcessWrite(w) \/ ArmOut(w) \/ RemoveFd(w)
             \/ CountDown(w)
  <2>1. ~Unrep(w) /\ UNCHANGED <<queue, improv>>
        /\ \E l \in {"idle", "arm", "close", "closed"} : Goto(w, l)
    BY <1>4 DEF SetTimerFlag, NoRequest, ProcessWrite, ArmOut, RemoveFd, CountDown, Unrep, connVars
  <2> QED
    BY <1>0, <2>1, GotoMoves, PastReport
<1>5. CASE DoRequest(w) \/ ForgetFd(w)
  <2>1. ~Unrep(w) /\ UNCHANGED <<queue, improv>>
        /\ \E l \in {"reply", "count"} : Moves(w, l)
    BY <1>0, <1>5 DEF DoRequest, ForgetFd, Unrep, connVars, Moves, Shapes
  <2> QED
    BY <1>0, <2>1, PastReport
<1> QED
  BY <1>1, <1>2, <1>3, <1>4, <1>5 DEF WorkerStep

-----------------------------------------------------------------------------
(* The event loop while it does not spin, and nobody's queue.              *)
LEMMA LoopMoves ==
  ASSUME HandInv, UNCHANGED <<setting, worker, queue>>,
         improv' = improv \/ \E k : improv' = [improv EXCEPT ![k] = 0],
         mpc \notin {"spin", "seen"}, mpc' \notin {"spin", "seen"}
  PROVE  HandInv'
<1>1. Shapes'
  BY DEF HandInv, Shapes
<1>2. NoneImproved => NoneImproved'
  BY DEF HandInv, Shapes, NoneImproved
<1>3. NoneUnrep => NoneUnrep'
  BY DEF NoneUnrep, Unrep
<1> QED
  BY <1>1, <1>2, <1>3 DEF HandInv, OnePlace, Quiet

LEMMA HandOverStep ==
  ASSUME HandInv, NEW k \in Fds, NEW kind, NEW state, HandOver(k, kind, state),
         UNCHANGED <<setting, worker>>
  PROVE  HandInv'
<1>1. /\ setting.mode = "reactor" /\ mpc = "batch" /\ mpc' = "spin" /\ mfd' = k
      /\ improv' = improv /\ AppendJob(k)
  BY DEF HandOver, Handling
<1>2. Quiet /\ setting.maxRequests \in Nat \ {0}
  BY <1>1, WebAssumption DEF HandInv, OnePlace, Shapes
<1>3. queue' = <<k>>
  BY <1>1, <1>2 DEF Quiet, AppendJob, QueueFull
<1>4. NoneUnrep' /\ NoneImproved'
  BY <1>1, <1>2 DEF Quiet, NoneUnrep, NoneImproved, Unrep
<1>5. Shapes'
  BY <1>1 DEF HandInv, Shapes
<1> QED
  BY <1>1, <1>3, <1>4, <1>5 DEF HandInv, OnePlace, InQueue

LEMMA SpinSteps ==
  ASSUME HandInv, SeeImprov \/ EndSpin, UNCHANGED <<setting, worker>>
  PROVE  HandInv'
<1>1. CASE SeeImprov
  <2>1. /\ mpc = "spin" /\ mpc' = "seen" /\ improv[mfd] = 1
        /\ UNCHANGED <<queue, improv, mfd>>
    BY <1>1 DEF SeeImprov, connVars
  <2>2. Shapes' /\ (NoneUnrep => NoneUnrep')
    BY <2>1 DEF HandInv, Shapes, NoneUnrep, Unrep
  <2>3. ASSUME setting.mode = "reactor" PROVE mfd \in Fds /\ InImprov
    BY <2>1, <2>3 DEF HandInv, OnePlace, InQueue, WithWorker, NoneImproved
  <2> QED
    BY <2>1, <2>2, <2>3 DEF HandInv, OnePlace, InImprov
<1>2. CASE EndSpin
  <2>1. /\ mpc = "seen" /\ mpc' = "batch" /\ improv' = [improv EXCEPT ![mfd] = 0]
        /\ queue' = queue
    BY <1>2 DEF EndSpin
  <2>2. Shapes' /\ (NoneUnrep => NoneUnrep')
    BY <2>1 DEF HandInv, Shapes, NoneUnrep, Unrep
  <2>3. ASSUME setting.mode = "reactor" PROVE Quiet'
    <3>1. mfd \in Fds /\ InImprov
      BY <2>1, <2>3 DEF HandInv, OnePlace
    <3>2. NoneImproved'
      BY <2>1, <3>1 DEF InImprov, NoneImproved, HandInv, Shapes
    <3> QED
      BY <2>1, <2>2, <3>1, <3>2 DEF InImprov, Quiet
  <2> QED
    BY <2>1, <2>2, <2>3 DEF HandInv, OnePlace
<1> QED
  BY <1>1, <1>2

LEMMA MainKeeps ==
  ASSUME HandInv, MainStep
  PROVE  HandInv'
<1>0. UNCHANGED <<setting, worker>>
  BY DEF MainStep
<1>1. CASE EpollWait
  BY <1>0, <1>1, LoopMoves DEF EpollWait, connVars
<1>2. CASE DealClientData
  BY <1>0, <1>2, LoopMoves
     DEF DealClientData, Handling, Accept, AcceptFails, CreateTimerForUser
<1>3. CASE DealSysSignal
  BY <1>0, <1>3, LoopMoves DEF DealSysSignal, Handling, connVars
<1>4. ASSUME NEW k \in Fds, Hangup(k) PROVE HandInv'
  BY <1>0, <1>4, LoopMoves DEF Hangup, Handling, connVars
<1>5. ASSUME NEW k \in Fds, HandOver(k, "in", 0) \/ HandOver(k, "out", 1) PROVE HandInv'
  BY <1>0, <1>5, HandOverStep
<1>6. ASSUME NEW k \in Fds, ReadHere(k) \/ WriteHere(k) PROVE HandInv'
  <2>1. setting.mode = "proactor" /\ improv' = improv
    BY <1>6 DEF ReadHere, WriteHere
  <2> QED
    BY <1>0, <2>1 DEF HandInv, Shapes
<1>7. CASE SeeImprov \/ EndSpin
  BY <1>0, <1>7, SpinSteps
<1>8. CASE EndBatch
  BY <1>0, <1>8, LoopMoves DEF EndBatch, connVars
<1> QED
  BY <1>1, <1>2, <1>3, <1>4, <1>5, <1>6, <1>7, <1>8 DEF MainStep

LEMMA OthersKeep ==
  ASSUME HandInv, ClientStep \/ Clock \/ Terminate \/ UNCHANGED vars
  PROVE  HandInv'
<1>1. UNCHANGED <<setting, worker, queue, improv, mpc, mfd>>
  BY DEF ClientStep, Clock, Terminate, vars, connVars, mainVars
<1> QED
  BY <1>1 DEF HandInv, Shapes, OnePlace, InQueue, WithWorker, InImprov, Quiet,
              NoneUnrep, NoneImproved, Unrep

(* The reactor's handshake, whatever is slow, torn, closed or stopped: as  *)
(* long as the event loop spins on a descriptor, its job is at exactly one *)
(* place, and when it does not there is none.                              *)
THEOREM JobAtOnePlace == Spec => []Handshake
<1>1. HandInv /\ [Next]_vars => HandInv'
  BY WorkerKeeps, MainKeeps, OthersKeep DEF Next
<1>2. HandInv => Handshake
  <2> SUFFICES ASSUME HandInv, setting.mode = "reactor", NEW k \in Fds
               PROVE  Cardinality(Unreported(k)) + improv[k]
                        + Cardinality({i \in 1..Len(queue) : queue[i] = k})
                      = IF Spinning(k) THEN 1 ELSE 0
    BY DEF Handshake
  <2> DEFINE slots == {i \in 1..Len(queue) : queue[i] = k}
  <2>1. NoneUnrep => Unreported(k) = {}
    BY DEF NoneUnrep, Unrep, Unreported, Working
  <2>2. queue = << >> => slots = {}
    OBVIOUS
  <2>3. NoneImproved => improv[k] = 0
    BY DEF NoneImproved
  <2>4. Cardinality({}) = 0 /\ \A x : Cardinality({x}) = 1
    BY FS_EmptySet, FS_Singleton
  <2>5. CASE mpc \notin {"spin", "seen"}
    <3>1. slots = {} /\ Unreported(k) = {} /\ improv[k] = 0
      BY <2>1, <2>2, <2>3, <2>5 DEF HandInv, OnePlace, Quiet
    <3>2. Cardinality(slots) = 0 /\ Cardinality(Unreported(k)) = 0
      BY <2>4, <3>1
    <3> HIDE DEF slots
    <3>3. Cardinality(Unreported(k)) + improv[k] + Cardinality(slots) = 0
      BY <3>1, <3>2
    <3> QED
      BY <2>5, <3>3 DEF Spinning, slots
  <2>6. CASE mpc \in {"spin", "seen"} /\ InQueue
    <3>1. slots = IF k = mfd THEN {1} ELSE {}
      BY <2>6 DEF InQueue
    <3> HIDE DEF slots
    <3>2. Unreported(k) = {} /\ improv[k] = 0
      BY <2>1, <2>3, <2>6 DEF InQueue
    <3>3. Cardinality(Unreported(k)) = 0 /\ Cardinality(slots) = IF k = mfd THEN 1 ELSE 0
      BY <2>4, <3>1, <3>2
    <3>4. Cardinality(Unreported(k)) + improv[k] + Cardinality(slots) = IF k = mfd THEN 1 ELSE 0
      BY <3>2, <3>3
    <3> QED
      BY <2>6, <3>4 DEF Spinning, slots
  <2>7. CASE mpc \in {"spin", "seen"} /\ WithWorker
    <3>1. PICK w \in Workers : /\ Unrep(w) /\ worker[w].task = mfd
                               /\ \A v \in Workers \ {w} : ~Unrep(v)
      BY <2>7 DEF WithWorker
    <3>2. Unreported(k) = IF k = mfd THEN {w} ELSE {}
      BY <3>1 DEF Unreported, Working, Unrep
    <3>3. slots = {} /\ improv[k] = 0
      BY <2>2, <2>3, <2>7 DEF WithWorker
    <3> HIDE DEF slots
    <3>4. Cardinality(Unreported(k)) = (IF k = mfd THEN 1 ELSE 0) /\ Cardinality(slots) = 0
      BY <2>4, <3>2, <3>3
    <3>5. Cardinality(Unreported(k)) + improv[k] + Cardinality(slots) = IF k = mfd THEN 1 ELSE 0
      BY <3>3, <3>4
    <3> QED
      BY <2>7, <3>5 DEF Spinning, slots
  <2>8. CASE mpc \in {"spin", "seen"} /\ InImprov
    <3>1. slots = {} /\ Unreported(k) = {}
      BY <2>1, <2>2, <2>8 DEF InImprov
    <3> HIDE DEF slots
    <3> QED
      BY <2>4, <2>8, <3>1 DEF Spinning, InImprov, slots
  <2> QED
    BY <2>5, <2>6, <2>7, <2>8 DEF HandInv, OnePlace
<1> QED
  BY <1>1, <1>2, HandInit, PTL DEF Spec

-----------------------------------------------------------------------------
(* Types.                                                                  *)
ClientAts == {"new", "backlog", "reported", "talking", "asked", "told", "gone"}
ClientType == [at : ClientAts, inbuf : {"none", "part", "last"}, sends : Nat]
ConnType == [live : BOOLEAN, state : {0, 1}, buf : {"empty", "part", "whole"},
             from : SUBSET Clients, resp : SUBSET Clients,
             linger : BOOLEAN, partial : BOOLEAN]
WorkerAts == {"idle", "read", "write", "process", "reply", "arm", "flag", "close",
              "closed", "count"}
WorkerType == [at : WorkerAts, task : Fds \union {None}, asked : SUBSET Clients, count : Int]
Events == [fd : Fds, kind : {"in", "out", "hup"}] \union {Listen, Signal}

NetTypes == /\ client \in [Clients -> ClientType]
            /\ got \in [Clients -> SUBSET Clients]
            /\ sock \in [Fds -> Clients \union {None}]
            /\ epoll \in [Fds -> {"none", "off", "in", "out"}]
ConnTypes == /\ conn \in [Fds -> ConnType]
             /\ improv \in [Fds -> {0, 1}] /\ timerFlag \in [Fds -> {0, 1}]
             /\ userCount \in Int
WorkTypes == /\ queue \in Seq(Fds)
             /\ worker \in [Workers -> WorkerType]
             /\ \A w \in Workers : worker[w].at # "idle" => worker[w].task \in Fds
LoopTypes == /\ setting \in Settings
             /\ mpc \in {"wait", "batch", "accept", "spin", "seen"}
             /\ mpc \in {"spin", "seen"} => mfd \in Fds
             /\ batch \subseteq Events
             /\ timeout \in BOOLEAN
TimerTypes == /\ ttl \in [Clients -> 0..Lifetime]
              /\ timerFd \in [Clients -> Fds \union {None}]
              /\ userTimer \in [Fds -> Clients \union {None}]

TypeInv == NetTypes /\ ConnTypes /\ WorkTypes /\ LoopTypes /\ TimerTypes

LEMMA TypesInit == Init => TypeInv
<1> SUFFICES ASSUME Init PROVE TypeInv
  OBVIOUS
<1> USE WebAssumption DEF Init
<1>1. NetTypes
  BY DEF NetTypes, ClientType, ClientAts
<1>2. ConnTypes
  BY DEF ConnTypes, ConnType, Fresh
<1>3. WorkTypes
  BY DEF WorkTypes, WorkerType, WorkerAts, Idle
<1>4. LoopTypes
  BY DEF LoopTypes
<1>5. TimerTypes
  BY DEF TimerTypes
<1> QED
  BY <1>1, <1>2, <1>3, <1>4, <1>5 DEF TypeInv

LEMMA GotoTypes ==
  ASSUME WorkTypes, NEW w \in Workers, NEW l \in WorkerAts, Goto(w, l),
         l # "idle" => worker[w].task \in Fds, queue' = queue
  PROVE  WorkTypes'
<1>1. CASE l = "idle"
  BY <1>1 DEF Goto, WorkTypes, WorkerType, WorkerAts, Idle
<1>2. CASE l # "idle"
  <2>1. /\ worker' = [worker EXCEPT ![w].at = l, ![w].asked = {}]
        /\ worker[w] \in WorkerType
    BY <1>2 DEF Goto, WorkTypes
  <2> QED
    BY <1>2, <2>1 DEF WorkTypes, WorkerType
<1> QED
  BY <1>1, <1>2

LEMMA ArmedTypes ==
  ASSUME NetTypes, NEW k, NEW ev \in {"in", "out"}
  PROVE  Armed(k, ev) \in [Fds -> {"none", "off", "in", "out"}]
BY DEF NetTypes, Armed

LEMMA CloseTypes ==
  ASSUME NetTypes, NEW k, CloseFd(k), got' = got
  PROVE  NetTypes'
BY DEF NetTypes, CloseFd, Closed, Gone, ClientType, ClientAts

LEMMA ReadTypes ==
  ASSUME NetTypes, ConnTypes, NEW k, ReadOnceOk(k), UNCHANGED <<got, sock, epoll>>
  PROVE  NetTypes' /\ conn' \in [Fds -> ConnType]
<1>1. NetTypes'
  BY DEF ReadOnceOk, Readable, NetTypes, ClientType, ClientAts
<1>2. conn' \in [Fds -> ConnType]
  <2>1. ASSUME k \in Fds PROVE conn[k] \in ConnType /\ sock[k] \in Clients
    BY <2>1 DEF NetTypes, ConnTypes, ReadOnceOk, Readable
  <2>2. CASE k \in Fds
    BY <2>1, <2>2 DEF ReadOnceOk, ConnTypes, ConnType
  <2>3. CASE k \notin Fds
    BY <2>3 DEF ReadOnceOk, ConnTypes
  <2> QED
    BY <2>2, <2>3
<1> QED
  BY <1>1, <1>2

LEMMA WriteTypes ==
  ASSUME NetTypes, ConnTypes, NEW k \in Fds, NEW outcome \in Outcomes, WriteOnce(k, outcome)
  PROVE  /\ conn' \in [Fds -> ConnType]
         /\ got' \in [Clients -> SUBSET Clients]
         /\ ReArm(k, outcome) \in [Fds -> {"none", "off", "in", "out"}]
         /\ Told(k, outcome) \in [Clients -> ClientType]
<1>1. conn' \in [Fds -> ConnType]
  <2>1. conn[k] \in ConnType /\ Reset(conn[k]) \in ConnType
    <3>1. conn[k] \in ConnType
      BY DEF ConnTypes
    <3> QED
      BY <3>1 DEF ConnType, Reset
  <2>2. /\ [conn[k] EXCEPT !.resp = {}] \in ConnType
        /\ [conn[k] EXCEPT !.partial = TRUE] \in ConnType
    BY <2>1 DEF ConnType
  <2>3. \E r \in ConnType : conn' = [conn EXCEPT ![k] = r] \/ conn' = conn
    BY <2>1, <2>2 DEF WriteOnce
  <2> QED
    BY <2>3 DEF ConnTypes
<1>2. got' \in [Clients -> SUBSET Clients]
  BY DEF WriteOnce, Sends, NetTypes, ConnTypes, ConnType
<1>3. ReArm(k, outcome) \in [Fds -> {"none", "off", "in", "out"}]
  BY ArmedTypes DEF ReArm, Outcomes, NetTypes
<1>4. Told(k, outcome) \in [Clients -> ClientType]
  BY DEF Told, NetTypes, ClientType, ClientAts
<1> QED
  BY <1>1, <1>2, <1>3, <1>4

(* What no worker touches.                                                 *)
LEMMA WorkerLeaves ==
  ASSUME TypeInv, NEW w \in Workers, WorkerStep(w)
  PROVE  LoopTypes' /\ TimerTypes'
BY DEF TypeInv, WorkerStep, LoopTypes, TimerTypes, mainVars, timerVars

LEMMA WorkerTypes ==
  ASSUME TypeInv, NEW w \in Workers, WorkerStep(w)
  PROVE  TypeInv'
<1> DEFINE k == worker[w].task
<1>0. /\ NetTypes /\ ConnTypes /\ WorkTypes
      /\ worker[w].at # "idle" => k \in Fds
  BY DEF TypeInv, WorkTypes
<1>1. CASE Fetch(w)
  <2>1. /\ Head(queue) \in Fds /\ Tail(queue) \in Seq(Fds)
    BY <1>0, <1>1, HeadTailProperties DEF Fetch, WorkTypes
  <2>2. \E l \in {"process", "read", "write"} :
          worker' = [worker EXCEPT ![w].task = Head(queue), ![w].at = l]
    BY <1>1 DEF Fetch
  <2>3. WorkTypes'
    BY <1>0, <1>1, <2>1, <2>2 DEF Fetch, WorkTypes, WorkerType, WorkerAts
  <2>4. NetTypes' /\ ConnTypes'
    BY <1>0, <1>1 DEF Fetch, NetTypes, ConnTypes, clientVars, kernelVars, connVars
  <2> QED
    BY <2>3, <2>4, WorkerLeaves DEF TypeInv
<1>2. CASE DoRead(w)
  <2>1. k \in Fds /\ queue' = queue /\ \E l \in {"process", "flag", "idle"} : Goto(w, l)
    BY <1>0, <1>2 DEF DoRead, ReportFailure
  <2>2. WorkTypes'
    BY <1>0, <2>1, GotoTypes DEF WorkerAts
  <2>3. NetTypes' /\ conn' \in [Fds -> ConnType]
    <3>1. CASE ReadOnceOk(k)
      BY <1>0, <1>2, <3>1, ReadTypes DEF DoRead, kernelVars
    <3>2. CASE UNCHANGED <<client, conn>>
      BY <1>0, <1>2, <3>2 DEF DoRead, kernelVars, NetTypes, ConnTypes
    <3> QED
      BY <1>2, <3>1, <3>2 DEF DoRead
  <2>4. improv' \in [Fds -> {0, 1}] /\ timerFlag' \in [Fds -> {0, 1}] /\ userCount' \in Int
    BY <1>0, <1>2 DEF DoRead, Improved, ReportFailure, ConnTypes
  <2> QED
    BY <2>2, <2>3, <2>4, WorkerLeaves DEF TypeInv, ConnTypes
<1>3. CASE DoWrite(w)
  <2>1. k \in Fds /\ queue' = queue /\ \E l \in {"flag", "idle"} : Goto(w, l)
    BY <1>0, <1>3 DEF DoWrite, ReportFailure
  <2>2. WorkTypes'
    BY <1>0, <2>1, GotoTypes DEF WorkerAts
  <2>3. PICK outcome \in Outcomes :
          /\ WriteOnce(k, outcome) /\ epoll' = ReArm(k, outcome)
          /\ client' = Told(k, outcome)
    BY <1>3 DEF DoWrite
  <2>4. NetTypes' /\ conn' \in [Fds -> ConnType]
    BY <1>0, <1>3, <2>1, <2>3, WriteTypes DEF DoWrite, NetTypes
  <2>5. improv' \in [Fds -> {0, 1}] /\ timerFlag' \in [Fds -> {0, 1}] /\ userCount' \in Int
    BY <1>0, <1>3 DEF DoWrite, Improved, ReportFailure, ConnTypes
  <2> QED
    BY <2>2, <2>4, <2>5, WorkerLeaves DEF TypeInv, ConnTypes
<1>4. CASE SetTimerFlag(w) \/ NoRequest(w) \/ ArmOut(w)
  <2>1. k \in Fds /\ queue' = queue /\ Goto(w, "idle")
    BY <1>0, <1>4 DEF SetTimerFlag, NoRequest, ArmOut
  <2>2. WorkTypes'
    BY <1>0, <2>1, GotoTypes DEF WorkerAts
  <2>3. NetTypes'
    BY <1>0, <1>4, ArmedTypes DEF SetTimerFlag, NoRequest, ArmOut, clientVars, kernelVars, NetTypes
  <2>4. ConnTypes'
    BY <1>0, <1>4 DEF SetTimerFlag, NoRequest, ArmOut, connVars, ConnTypes
  <2> QED
    BY <2>2, <2>3, <2>4, WorkerLeaves DEF TypeInv
<1>5. CASE DoRequest(w) \/ ForgetFd(w)
  <2>1. k \in Fds /\ queue' = queue
    BY <1>0, <1>5 DEF DoRequest, ForgetFd
  <2>2. conn[k] \in ConnType /\ worker[w] \in WorkerType /\ userCount \in Int
    BY <1>0, <2>1 DEF ConnTypes, WorkTypes
  <2>3. \E r \in WorkerType : worker' = [worker EXCEPT ![w] = r] /\ r.task = k
    <3>1. CASE DoRequest(w)
      <4>1. [worker[w] EXCEPT !.at = "reply", !.asked = conn[k].from] \in WorkerType
        BY <2>2 DEF ConnType, WorkerType, WorkerAts
      <4> QED
        BY <3>1, <4>1 DEF DoRequest, WorkerType
    <3>2. CASE ForgetFd(w)
      <4>1. [worker[w] EXCEPT !.at = "count", !.count = userCount] \in WorkerType
        BY <2>2 DEF WorkerType, WorkerAts
      <4> QED
        BY <3>2, <4>1 DEF ForgetFd, WorkerType
    <3> QED
      BY <1>5, <3>1, <3>2
  <2>4. WorkTypes'
    BY <1>0, <2>1, <2>3 DEF WorkTypes
  <2>5. ConnTypes'
    <3>1. [conn[k] EXCEPT !.live = FALSE] \in ConnType
      BY <2>2 DEF ConnType
    <3>2. /\ UNCHANGED <<improv, timerFlag, userCount>>
          /\ conn' = conn \/ conn' = [conn EXCEPT ![k] = [conn[k] EXCEPT !.live = FALSE]]
      BY <1>5 DEF DoRequest, ForgetFd, connVars
    <3> QED
      BY <1>0, <3>1, <3>2 DEF ConnTypes
  <2>6. NetTypes'
    BY <1>0, <1>5 DEF DoRequest, ForgetFd, clientVars, kernelVars, NetTypes
  <2> QED
    BY <2>4, <2>5, <2>6, WorkerLeaves DEF TypeInv
<1>6. CASE ProcessWrite(w)
  <2>1. k \in Fds /\ queue' = queue /\ \E l \in {"arm", "close"} : Goto(w, l)
    BY <1>0, <1>6 DEF ProcessWrite
  <2>2. WorkTypes'
    BY <1>0, <2>1, GotoTypes DEF WorkerAts
  <2>3. conn[k] \in ConnType /\ worker[w] \in WorkerType
    BY <1>0, <2>1 DEF ConnTypes, WorkTypes
  <2>4. conn' \in [Fds -> ConnType]
    <3>1. \A keep \in BOOLEAN :
            [conn[k] EXCEPT !.buf = "part", !.resp = @ \union worker[w].asked,
                            !.linger = @ \/ keep, !.partial = FALSE] \in ConnType
      BY <2>3 DEF ConnType, WorkerType
    <3>2. \E r \in ConnType : conn' = [conn EXCEPT ![k] = r] \/ conn' = conn
      <4>1. CASE conn' = conn
        BY <2>3, <4>1
      <4>2. ASSUME NEW keep \in BOOLEAN,
                   conn' = [conn EXCEPT ![k].buf = "part", ![k].resp = @ \union worker[w].asked,
                                        ![k].linger = @ \/ keep, ![k].partial = FALSE]
            PROVE  \E r \in ConnType : conn' = [conn EXCEPT ![k] = r]
        BY <2>3, <3>1, <4>2
      <4> QED
        BY <1>6, <4>1, <4>2 DEF ProcessWrite
    <3> QED
      BY <1>0, <3>2 DEF ConnTypes
  <2>5. ConnTypes' /\ NetTypes'
    BY <1>0, <1>6, <2>4 DEF ProcessWrite, clientVars, kernelVars, ConnTypes, NetTypes
  <2> QED
    BY <2>2, <2>5, WorkerLeaves DEF TypeInv
<1>7. CASE RemoveFd(w)
  <2>1. k \in Fds /\ queue' = queue /\ \E l \in {"arm", "closed"} : Goto(w, l)
    BY <1>0, <1>7 DEF RemoveFd
  <2>2. WorkTypes'
    BY <1>0, <2>1, GotoTypes DEF WorkerAts
  <2>3. NetTypes'
    <3>1. CASE CloseFd(k)
      BY <1>0, <1>7, <3>1, CloseTypes DEF RemoveFd
    <3>2. CASE UNCHANGED <<client, kernelVars>>
      BY <1>0, <1>7, <3>2 DEF RemoveFd, kernelVars, NetTypes
    <3> QED
      BY <1>7, <3>1, <3>2 DEF RemoveFd
  <2>4. ConnTypes'
    BY <1>0, <1>7 DEF RemoveFd, connVars, ConnTypes
  <2> QED
    BY <2>2, <2>3, <2>4, WorkerLeaves DEF TypeInv
<1>8. CASE CountDown(w)
  <2>1. k \in Fds /\ queue' = queue /\ Goto(w, "arm") /\ worker[w].count \in Int
    BY <1>0, <1>8 DEF CountDown, WorkTypes, WorkerType
  <2>2. WorkTypes'
    BY <1>0, <2>1, GotoTypes DEF WorkerAts
  <2>3. NetTypes' /\ ConnTypes'
    BY <1>0, <1>8, <2>1 DEF CountDown, clientVars, kernelVars, connVars, NetTypes, ConnTypes
  <2> QED
    BY <2>2, <2>3, WorkerLeaves DEF TypeInv
<1> QED
  BY <1>1, <1>2, <1>3, <1>4, <1>5, <1>6, <1>7, <1>8 DEF WorkerStep

-----------------------------------------------------------------------------
(* The running timers, each for one descriptor, sorted; an open connection *)
(* has its own; a descriptor the event loop is about to handle has one,    *)
(* whoever closed it in the meantime; who was not accepted has none.       *)
Early(c) == client[c].at \in {"new", "backlog", "reported"}
Timed(k) == userTimer[k] \in Running(timers)
InBatch(k) == \E e \in batch : e.fd = k

ListInv == timers \in Seq(Clients) /\ Distinct(timers) /\ Sorted(timers, ttl)
OwnerInv ==
  /\ \A t \in Running(timers) : timerFd[t] \in Fds
  /\ \A k \in Fds : Timed(k) => timerFd[userTimer[k]] = k
  /\ \A k \in Fds : sock[k] # None => Timed(k) /\ userTimer[k] = sock[k]
  /\ \A k \in Fds : epoll[k] # "none" => sock[k] # None
  /\ \A c \in Clients : Early(c) => c \notin Running(timers) /\ \A k \in Fds : userTimer[k] # c
BatchInv ==
  /\ \A k \in Fds : InBatch(k) => Timed(k)
  /\ \A d, e \in batch : d.fd = e.fd /\ d.fd \in Fds => d = e
  /\ mpc \in {"spin", "seen"} => Timed(mfd) /\ ~InBatch(mfd)
  /\ mpc = "wait" => batch = {}

TimersInv == ListInv /\ OwnerInv /\ BatchInv /\ status # "dangling"

LEMMA LowestFree ==
  ASSUME FreeFds # {}
  PROVE  Lowest(FreeFds) \in FreeFds
<1>1. FreeFds \in SUBSET Nat
  BY WebAssumption DEF FreeFds
<1>2. \E m \in FreeFds : \A l \in FreeFds : m <= l
  BY <1>1, LeastElement
<1> HIDE DEF FreeFds
<1> QED
  BY <1>2 DEF Lowest

LEMMA RemoveTypes ==
  ASSUME TypeInv, NEW k \in Fds, RemoveTimer(k), got' = got
  PROVE  NetTypes' /\ TimerTypes' /\ userCount' \in Int
<1>1. NetTypes'
  BY CloseTypes DEF TypeInv, RemoveTimer, CloseUserFd
<1>2. TimerTypes'
  BY WebAssumption DEF TypeInv, TimerTypes, RemoveTimer, Deleted
<1>3. userCount' \in Int
  BY DEF TypeInv, ConnTypes, RemoveTimer, CloseUserFd
<1> QED
  BY <1>1, <1>2, <1>3

LEMMA AdjustTypes ==
  ASSUME TypeInv, NEW k \in Fds, AdjustTimer(k)
  PROVE  TimerTypes'
<1>1. Lifetime \in 0..Lifetime
  BY WebAssumption
<1> QED
  BY <1>1 DEF TypeInv, TimerTypes, AdjustTimer

LEMMA AppendTypes ==
  ASSUME WorkTypes, NEW k \in Fds, AppendJob(k), worker' = worker
  PROVE  WorkTypes'
BY AppendProperties DEF AppendJob, WorkTypes

LEMMA AcceptTypes ==
  ASSUME TypeInv, Accept
  PROVE  /\ client' \in [Clients -> ClientType]
         /\ sock' \in [Fds -> Clients \union {None}]
         /\ epoll' \in [Fds -> {"none", "off", "in", "out"}]
         /\ ConnTypes' /\ TimerTypes'
<1>1. PICK c \in Clients : At(c, "talking") /\ CreateTimerForUser(c, Lowest(FreeFds))
  BY DEF Accept, Backlog
<1>2. PICK k \in Fds : k = Lowest(FreeFds)
  BY LowestFree DEF Accept, FreeFds
<1>3. client' \in [Clients -> ClientType]
  BY <1>1 DEF At, TypeInv, NetTypes, ClientType, ClientAts
<1>4. /\ sock' \in [Fds -> Clients \union {None}]
      /\ epoll' \in [Fds -> {"none", "off", "in", "out"}]
  BY <1>1, <1>2 DEF CreateTimerForUser, TypeInv, NetTypes
<1>5. ConnTypes'
  <2>1. [Reset(conn[k]) EXCEPT !.live = TRUE] \in ConnType
    <3>1. conn[k] \in ConnType
      BY DEF TypeInv, ConnTypes
    <3>2. Reset(conn[k]) \in ConnType
      BY <3>1 DEF ConnType, Reset
    <3> QED
      BY <3>2 DEF ConnType
  <2> QED
    BY <1>1, <1>2, <2>1 DEF CreateTimerForUser, TypeInv, ConnTypes
<1>6. TimerTypes'
  <2>1. Lifetime \in 0..Lifetime
    BY WebAssumption
  <2> QED
    BY <1>1, <1>2, <2>1 DEF CreateTimerForUser, TypeInv, TimerTypes
<1> QED
  BY <1>3, <1>4, <1>5, <1>6

LEMMA ExpiredFront ==
  ASSUME TypeInv, ListInv
  PROVE  /\ IsFiniteSet(Expired) /\ Cardinality(Expired) \in 0..Len(timers)
         /\ Expired \subseteq Clients
         /\ SubSeq(timers, Cardinality(Expired) + 1, Len(timers)) \in Seq(Clients)
         /\ Distinct(SubSeq(timers, Cardinality(Expired) + 1, Len(timers)))
         /\ Running(SubSeq(timers, Cardinality(Expired) + 1, Len(timers)))
              = Running(timers) \ Expired
         /\ Sorted(SubSeq(timers, Cardinality(Expired) + 1, Len(timers)), ttl)
<1>1. ttl \in [Clients -> Nat] /\ timers \in Seq(Clients)
  BY WebAssumption DEF TypeInv, TimerTypes, ListInv
<1>2. Running(timers) \subseteq Clients
  BY <1>1, ElementOfSeq DEF Running
<1>3. Expired = {t \in Running(timers) : ttl[t] <= 0}
  BY <1>1, <1>2 DEF Expired
<1>4. Expired \subseteq Clients
  BY <1>2 DEF Expired
<1> HIDE DEF Expired
<1> QED
  BY <1>1, <1>3, <1>4, FrontFacts DEF ListInv

LEMMA HandlerTypes ==
  ASSUME TypeInv, ListInv, TimerHandler, got' = got
  PROVE  NetTypes' /\ TimerTypes' /\ userCount' \in Int
<1>1. NetTypes'
  BY DEF TypeInv, NetTypes, TimerHandler, Gone, ClientType, ClientAts
<1>2. TimerTypes'
  BY WebAssumption DEF TypeInv, TimerTypes, TimerHandler, Deleted
<1>3. userCount' \in Int
  BY ExpiredFront DEF TypeInv, ConnTypes, TimerHandler
<1> QED
  BY <1>1, <1>2, <1>3

LEMMA MainTypes ==
  ASSUME TypeInv, ListInv, MainStep
  PROVE  TypeInv'
<1>0. /\ NetTypes /\ ConnTypes /\ WorkTypes /\ LoopTypes /\ TimerTypes
      /\ UNCHANGED <<setting, worker>>
  BY DEF TypeInv, MainStep
<1>1. CASE EpollWait
  <2>1. Ready \subseteq Events
    BY <1>0 DEF Ready, Events, NetTypes
  <2>2. LoopTypes'
    BY <1>0, <1>1, <2>1 DEF EpollWait, LoopTypes
  <2>3. NetTypes'
    BY <1>0, <1>1 DEF EpollWait, NetTypes, Reported, Seen, OneShot, ClientType, ClientAts
  <2>4. ConnTypes' /\ WorkTypes' /\ TimerTypes'
    BY <1>0, <1>1 DEF EpollWait, connVars, timerVars, ConnTypes, WorkTypes, TimerTypes
  <2> QED
    BY <2>2, <2>3, <2>4 DEF TypeInv
<1>2. CASE DealClientData
  <2>1. LoopTypes'
    BY <1>0, <1>2 DEF DealClientData, Handling, LoopTypes
  <2>2. WorkTypes'
    BY <1>0, <1>2 DEF DealClientData, WorkTypes
  <2>3. NetTypes' /\ ConnTypes' /\ TimerTypes'
    <3>1. CASE Accept
      BY <1>0, <1>2, <3>1, AcceptTypes DEF DealClientData, NetTypes
    <3>2. CASE AcceptFails
      <4>1. client' \in [Clients -> ClientType]
        BY <1>0, <3>2 DEF AcceptFails, At, NetTypes, ClientType, ClientAts
      <4> QED
        BY <1>0, <1>2, <3>2, <4>1 DEF DealClientData, AcceptFails, NetTypes, ConnTypes, TimerTypes,
           kernelVars, timerVars
    <3> QED
      BY <1>2, <3>1, <3>2 DEF DealClientData
  <2> QED
    BY <2>1, <2>2, <2>3 DEF TypeInv
<1>3. CASE DealSysSignal
  <2>1. LoopTypes'
    BY <1>0, <1>3 DEF DealSysSignal, Handling, LoopTypes
  <2>2. NetTypes' /\ ConnTypes' /\ WorkTypes' /\ TimerTypes'
    BY <1>0, <1>3 DEF DealSysSignal, clientVars, kernelVars, connVars, timerVars,
       NetTypes, ConnTypes, WorkTypes, TimerTypes
  <2> QED
    BY <2>1, <2>2 DEF TypeInv
<1>4. ASSUME NEW k \in Fds, Hangup(k) PROVE TypeInv'
  <2>1. NetTypes' /\ TimerTypes' /\ userCount' \in Int
    BY <1>0, <1>4, RemoveTypes DEF Hangup
  <2>2. LoopTypes'
    BY <1>0, <1>4 DEF Hangup, Handling, LoopTypes
  <2>3. ConnTypes' /\ WorkTypes'
    BY <1>0, <1>4, <2>1 DEF Hangup, connVars, ConnTypes, WorkTypes
  <2> QED
    BY <2>1, <2>2, <2>3 DEF TypeInv
<1>5. ASSUME NEW k \in Fds, HandOver(k, "in", 0) \/ HandOver(k, "out", 1) PROVE TypeInv'
  <2>1. PICK kind \in {"in", "out"}, state \in {0, 1} : HandOver(k, kind, state)
    BY <1>5
  <2>2. TimerTypes' /\ WorkTypes'
    BY <1>0, <2>1, AdjustTypes, AppendTypes DEF HandOver
  <2>3. LoopTypes'
    BY <1>0, <2>1 DEF HandOver, Handling, LoopTypes
  <2>4. conn' \in [Fds -> ConnType]
    <3>1. [conn[k] EXCEPT !.state = state] \in ConnType
      BY <1>0 DEF ConnTypes, ConnType
    <3> QED
      BY <1>0, <2>1, <3>1 DEF HandOver, ConnTypes
  <2>5. NetTypes' /\ ConnTypes'
    BY <1>0, <2>1, <2>4 DEF HandOver, clientVars, kernelVars, NetTypes, ConnTypes
  <2> QED
    BY <2>2, <2>3, <2>5 DEF TypeInv
<1>6. ASSUME NEW k \in Fds, ReadHere(k) PROVE TypeInv'
  <2>1. LoopTypes'
    BY <1>0, <1>6 DEF ReadHere, Handling, LoopTypes
  <2>2. CASE ReadOnceOk(k) /\ AppendJob(k) /\ AdjustTimer(k) /\ UNCHANGED <<kernelVars, userCount>>
    <3>1. TimerTypes' /\ WorkTypes'
      BY <1>0, <2>2, AdjustTypes, AppendTypes
    <3>2. NetTypes' /\ conn' \in [Fds -> ConnType]
      BY <1>0, <1>6, <2>2, ReadTypes DEF ReadHere, kernelVars
    <3> QED
      BY <1>0, <1>6, <2>1, <2>2, <3>1, <3>2 DEF ReadHere, TypeInv, ConnTypes
  <2>3. CASE RemoveTimer(k) /\ UNCHANGED <<conn, queue>>
    <3>1. NetTypes' /\ TimerTypes' /\ userCount' \in Int
      BY <1>6, <2>3, RemoveTypes DEF ReadHere
    <3> QED
      BY <1>0, <1>6, <2>1, <2>3, <3>1 DEF ReadHere, TypeInv, ConnTypes, WorkTypes
  <2> QED
    BY <1>6, <2>2, <2>3 DEF ReadHere
<1>7. ASSUME NEW k \in Fds, WriteHere(k) PROVE TypeInv'
  <2>1. LoopTypes' /\ WorkTypes'
    BY <1>0, <1>7 DEF WriteHere, Handling, LoopTypes, WorkTypes
  <2>2. PICK outcome \in Outcomes :
          /\ WriteOnce(k, outcome)
          /\ \/ /\ Returns(outcome) /\ AdjustTimer(k)
                /\ epoll' = ReArm(k, outcome)
                /\ client' = Told(k, outcome)
                /\ UNCHANGED <<sock, userCount>>
             \/ ~Returns(outcome) /\ RemoveTimer(k)
    BY <1>7 DEF WriteHere
  <2>3. conn' \in [Fds -> ConnType] /\ got' \in [Clients -> SUBSET Clients]
    BY <1>0, <2>2, WriteTypes
  <2>4. CASE RemoveTimer(k)
    <3>1. /\ client' \in [Clients -> ClientType] /\ sock' \in [Fds -> Clients \union {None}]
          /\ epoll' \in [Fds -> {"none", "off", "in", "out"}]
      BY <1>0, <2>4 DEF RemoveTimer, CloseUserFd, NetTypes, CloseFd, Closed, Gone, ClientType,
         ClientAts
    <3>2. TimerTypes' /\ userCount' \in Int
      BY <1>0, <2>4, WebAssumption DEF TimerTypes, RemoveTimer, Deleted, ConnTypes, CloseUserFd
    <3> QED
      BY <1>0, <1>7, <2>1, <2>3, <3>1, <3>2 DEF WriteHere, TypeInv, NetTypes, ConnTypes
  <2>5. CASE AdjustTimer(k) /\ epoll' = ReArm(k, outcome) /\ client' = Told(k, outcome)
             /\ UNCHANGED <<sock, userCount>>
    <3>1. TimerTypes'
      BY <2>5, AdjustTypes
    <3>2. NetTypes'
      BY <1>0, <2>2, <2>3, <2>5, WriteTypes DEF NetTypes
    <3> QED
      BY <1>0, <1>7, <2>1, <2>3, <2>5, <3>1, <3>2 DEF WriteHere, TypeInv, ConnTypes
  <2> QED
    BY <2>2, <2>4, <2>5
<1>8. CASE SeeImprov
  <2>1. LoopTypes'
    BY <1>0, <1>8 DEF SeeImprov, LoopTypes
  <2>2. NetTypes' /\ ConnTypes' /\ WorkTypes' /\ TimerTypes'
    BY <1>0, <1>8 DEF SeeImprov, clientVars, kernelVars, connVars, timerVars,
       NetTypes, ConnTypes, WorkTypes, TimerTypes
  <2> QED
    BY <2>1, <2>2 DEF TypeInv
<1>9. CASE EndSpin
  <2>1. LoopTypes' /\ mfd \in Fds
    BY <1>0, <1>9 DEF EndSpin, LoopTypes
  <2>2. WorkTypes'
    BY <1>0, <1>9 DEF EndSpin, WorkTypes
  <2>3. NetTypes' /\ TimerTypes' /\ userCount' \in Int
    <3>1. CASE RemoveTimer(mfd)
      BY <1>9, <2>1, <3>1, RemoveTypes DEF EndSpin
    <3>2. CASE UNCHANGED <<client, kernelVars, userCount, timerVars, status>>
      BY <1>0, <1>9, <3>2 DEF EndSpin, kernelVars, timerVars, NetTypes, TimerTypes, ConnTypes
    <3> QED
      BY <1>9, <3>1, <3>2 DEF EndSpin
  <2>4. ConnTypes'
    BY <1>0, <1>9, <2>3 DEF EndSpin, ConnTypes
  <2> QED
    BY <2>1, <2>2, <2>3, <2>4 DEF TypeInv
<1>10. CASE EndBatch
  <2>1. LoopTypes'
    BY <1>0, <1>10 DEF EndBatch, TimerHandler, LoopTypes
  <2>2. NetTypes' /\ TimerTypes' /\ userCount' \in Int
    <3>1. CASE TimerHandler
      BY <1>10, <3>1, HandlerTypes DEF EndBatch
    <3>2. CASE UNCHANGED <<client, kernelVars, userCount, timerVars, alarm, timeout>>
      BY <1>0, <1>10, <3>2 DEF EndBatch, kernelVars, timerVars, NetTypes, TimerTypes, ConnTypes
    <3> QED
      BY <1>10, <3>1, <3>2 DEF EndBatch
  <2>3. ConnTypes' /\ WorkTypes'
    BY <1>0, <1>10, <2>2 DEF EndBatch, connVars, ConnTypes, WorkTypes
  <2> QED
    BY <2>1, <2>2, <2>3 DEF TypeInv
<1> QED
  BY <1>1, <1>2, <1>3, <1>4, <1>5, <1>6, <1>7, <1>8, <1>9, <1>10 DEF MainStep

LEMMA OtherTypes ==
  ASSUME TypeInv, ClientStep \/ Clock \/ Terminate \/ UNCHANGED vars
  PROVE  TypeInv'
<1>0. NetTypes /\ ConnTypes /\ WorkTypes /\ LoopTypes /\ TimerTypes
  BY DEF TypeInv
<1>1. ConnTypes' /\ WorkTypes' /\ LoopTypes'
  BY <1>0 DEF ClientStep, Clock, Terminate, vars, connVars, mainVars,
     ConnTypes, WorkTypes, LoopTypes
<1>2. NetTypes'
  <2>1. CASE ClientStep
    <3>1. /\ client \in [Clients -> ClientType]
          /\ got' = got /\ sock' = sock /\ epoll' = epoll
      BY <1>0, <2>1 DEF ClientStep, Connect, Send, Leave, kernelVars, NetTypes
    <3>2. ASSUME NEW c \in Clients, NEW l \in ClientAts, At(c, l)
          PROVE  client' \in [Clients -> ClientType]
      BY <3>1, <3>2 DEF At, ClientType
    <3>3. ASSUME NEW c \in Clients, NEW part \in {"part", "last"}, Send(c, part)
          PROVE  client' \in [Clients -> ClientType]
      BY <3>1, <3>3 DEF Send, ClientType, ClientAts
    <3>4. client' \in [Clients -> ClientType]
      BY <2>1, <3>2, <3>3 DEF ClientStep, Connect, Leave, ClientAts
    <3> QED
      BY <1>0, <3>1, <3>4 DEF NetTypes
  <2>2. CASE Clock \/ Terminate \/ UNCHANGED vars
    BY <1>0, <2>2 DEF Clock, Terminate, vars, clientVars, kernelVars, NetTypes
  <2> QED
    BY <2>1, <2>2
<1>3. TimerTypes'
  <2>1. CASE Clock
    BY <1>0, <2>1, WebAssumption DEF Clock, Aged, TimerTypes
  <2>2. CASE ClientStep \/ Terminate \/ UNCHANGED vars
    BY <1>0, <2>2 DEF ClientStep, Terminate, vars, timerVars, TimerTypes
  <2> QED
    BY <2>1, <2>2
<1> QED
  BY <1>1, <1>2, <1>3 DEF TypeInv

-----------------------------------------------------------------------------
(* Descriptors are only closed and disarmed, never opened; nobody comes to *)
(* the door again.                                                         *)
Shrinks == \A k \in Fds : /\ sock'[k] = sock[k] \/ sock'[k] = None
                          /\ epoll'[k] # "none" => epoll[k] # "none" /\ sock'[k] = sock[k]
EarlyStays == \A c \in Clients : Early(c)' => Early(c)

LEMMA CloseShrinks ==
  ASSUME NetTypes, NEW k, CloseFd(k)
  PROVE  Shrinks /\ EarlyStays /\ \A l \in Fds : l # k => sock'[l] = sock[l]
<1>1. EarlyStays
  BY DEF EarlyStays, Early, CloseFd, Closed, Gone, NetTypes, ClientType
<1>2. Shrinks /\ \A l \in Fds : l # k => sock'[l] = sock[l]
  BY DEF Shrinks, CloseFd, NetTypes
<1> QED
  BY <1>1, <1>2

LEMMA ArmedShrinks ==
  ASSUME NetTypes, NEW k, NEW ev, epoll' = Armed(k, ev), sock' = sock
  PROVE  Shrinks
BY DEF Shrinks, Armed, NetTypes

LEMMA ReadStays ==
  ASSUME NetTypes, NEW k, ReadOnceOk(k)
  PROVE  EarlyStays
BY DEF EarlyStays, Early, ReadOnceOk, NetTypes, ClientType

LEMMA ToldStays ==
  ASSUME NetTypes, NEW k, NEW outcome, client' = Told(k, outcome)
  PROVE  EarlyStays
BY DEF EarlyStays, Early, Told, NetTypes, ClientType

LEMMA ReArmShrinks ==
  ASSUME NetTypes, NEW k, NEW outcome \in Outcomes, epoll' = ReArm(k, outcome), sock' = sock
  PROVE  Shrinks
<1>1. CASE outcome = "error"
  BY <1>1 DEF ReArm, Shrinks
<1>2. CASE outcome # "error"
  <2>1. epoll' = Armed(k, "in") \/ epoll' = Armed(k, "out")
    BY <1>2 DEF ReArm, Outcomes
  <2> QED
    BY <2>1, ArmedShrinks
<1> QED
  BY <1>1, <1>2

(* A step that leaves the timers alone.                                    *)
LEMMA TimersFrame ==
  ASSUME TypeInv, TimersInv, Shrinks, EarlyStays,
         UNCHANGED <<timers, ttl, timerFd, userTimer, mpc, mfd, batch, status>>
  PROVE  TimersInv'
<1>1. ListInv' /\ status' # "dangling"
  BY DEF TimersInv, ListInv
<1>2. OwnerInv'
  BY DEF TimersInv, OwnerInv, Timed, Shrinks, EarlyStays
<1>3. BatchInv'
  BY DEF TimersInv, BatchInv, Timed, InBatch
<1> QED
  BY <1>1, <1>2, <1>3 DEF TimersInv

LEMMA WorkerTimers ==
  ASSUME TypeInv, TimersInv, NEW w \in Workers, WorkerStep(w)
  PROVE  TimersInv'
<1>0. NetTypes /\ UNCHANGED <<timers, ttl, timerFd, userTimer, mpc, mfd, batch, status>>
  BY DEF TypeInv, WorkerStep, mainVars, timerVars
<1>1. CASE Fetch(w) \/ SetTimerFlag(w) \/ DoRequest(w) \/ ProcessWrite(w) \/ ForgetFd(w)
           \/ CountDown(w)
  <2>1. UNCHANGED <<client, sock, epoll>>
    BY <1>1 DEF Fetch, SetTimerFlag, DoRequest, ProcessWrite, ForgetFd, CountDown, clientVars,
       kernelVars
  <2> QED
    BY <1>0, <2>1, TimersFrame DEF Shrinks, EarlyStays, Early
<1>2. CASE DoRead(w)
  <2>1. UNCHANGED <<sock, epoll>> /\ (client' = client \/ ReadOnceOk(worker[w].task))
    BY <1>2 DEF DoRead, kernelVars
  <2>2. EarlyStays
    BY <1>0, <2>1, ReadStays DEF EarlyStays, Early
  <2> QED
    BY <1>0, <2>1, <2>2, TimersFrame DEF Shrinks
<1>3. CASE DoWrite(w)
  <2>1. PICK outcome \in Outcomes : /\ epoll' = ReArm(worker[w].task, outcome)
                                    /\ client' = Told(worker[w].task, outcome)
    BY <1>3 DEF DoWrite
  <2>2. sock' = sock
    BY <1>3 DEF DoWrite
  <2> QED
    BY <1>0, <2>1, <2>2, ReArmShrinks, ToldStays, TimersFrame
<1>4. CASE NoRequest(w) \/ ArmOut(w)
  <2>1. /\ UNCHANGED <<client, sock>>
        /\ epoll' = Armed(worker[w].task, "in") \/ epoll' = Armed(worker[w].task, "out")
    BY <1>4 DEF NoRequest, ArmOut, clientVars
  <2>2. EarlyStays
    BY <2>1 DEF EarlyStays, Early
  <2> QED
    BY <1>0, <2>1, <2>2, ArmedShrinks, TimersFrame
<1>5. CASE RemoveFd(w)
  <2>1. CloseFd(worker[w].task) \/ UNCHANGED <<client, sock, epoll>>
    BY <1>5 DEF RemoveFd, kernelVars
  <2>2. Shrinks /\ EarlyStays
    BY <1>0, <2>1, CloseShrinks DEF Shrinks, EarlyStays, Early
  <2> QED
    BY <1>0, <2>2, TimersFrame
<1> QED
  BY <1>1, <1>2, <1>3, <1>4, <1>5 DEF WorkerStep

(* What removing and adjusting a timer do to the list.                     *)
LEMMA RemoveKeeps ==
  ASSUME TypeInv, TimersInv, NEW k \in Fds, Timed(k), RemoveTimer(k)
  PROVE  /\ ListInv' /\ OwnerInv' /\ status' = status
         /\ Running(timers)' = Running(timers) \ {userTimer[k]}
         /\ \A l \in Fds : l # k /\ Timed(l) => Timed(l)'
<1> DEFINE t == userTimer[k]
<1>1. t \in Running(timers) /\ t \in Clients /\ timerFd[t] = k
  BY ElementOfSeq DEF Timed, TimersInv, ListInv, OwnerInv, Running
<1>2. /\ timers' = Without(timers, t) /\ status' = status
      /\ ttl' = [c \in Clients |-> IF c = t THEN 0 ELSE ttl[c]]
      /\ timerFd' = [c \in Clients |-> IF c = t THEN None ELSE timerFd[c]]
      /\ userTimer' = userTimer /\ CloseFd(k)
  BY <1>1 DEF RemoveTimer, Dangling, Deleted, CloseUserFd, Timed
<1> HIDE DEF t
<1>3. /\ timers' \in Seq(Clients) /\ Distinct(timers)'
      /\ Running(timers)' = Running(timers) \ {t}
      /\ Sorted(timers', ttl)
  BY <1>1, <1>2, WithoutFacts DEF TimersInv, ListInv
<1>4. \A i \in 1..Len(timers') : timers'[i] \in Clients /\ timers'[i] # t
  BY <1>3, ElementOfSeq DEF Running
<1>5. Sorted(timers, ttl)'
  BY <1>2, <1>3, <1>4 DEF Sorted
<1>6. ListInv'
  BY <1>3, <1>5 DEF ListInv
<1>7. \A l \in Fds : l # k /\ Timed(l) => Timed(l)' /\ userTimer[l] # t
  BY <1>1, <1>2, <1>3 DEF Timed, TimersInv, OwnerInv
<1>8. Shrinks /\ EarlyStays /\ sock'[k] = None
  BY <1>2, CloseShrinks DEF TypeInv, CloseFd, NetTypes
<1>9. Running(timers)' \subseteq Clients
  BY <1>3, ElementOfSeq DEF Running
<1>10. OwnerInv'
  <2>1. \A c \in Running(timers)' : timerFd'[c] \in Fds /\ timerFd'[c] = timerFd[c]
    BY <1>2, <1>3, <1>9 DEF TimersInv, OwnerInv
  <2>2. \A l \in Fds : Timed(l)' => timerFd'[userTimer'[l]] = l
    BY <1>2, <1>3, <2>1 DEF TimersInv, OwnerInv, Timed
  <2>3. \A l \in Fds : sock'[l] # None => Timed(l)' /\ userTimer'[l] = sock'[l]
    BY <1>2, <1>7, <1>8 DEF TimersInv, OwnerInv, Shrinks
  <2>4. \A l \in Fds : epoll'[l] # "none" => sock'[l] # None
    BY <1>8 DEF TimersInv, OwnerInv, Shrinks
  <2>5. \A c \in Clients : Early(c)' => c \notin Running(timers)' /\ \A l \in Fds : userTimer'[l] # c
    BY <1>2, <1>3, <1>8 DEF TimersInv, OwnerInv, EarlyStays
  <2> QED
    BY <2>1, <2>2, <2>3, <2>4, <2>5 DEF OwnerInv
<1> QED
  BY <1>2, <1>3, <1>6, <1>7, <1>10 DEF t

LEMMA AdjustKeeps ==
  ASSUME TypeInv, TimersInv, NEW k \in Fds, Timed(k), AdjustTimer(k), Shrinks, EarlyStays
  PROVE  /\ ListInv' /\ OwnerInv' /\ status' = status
         /\ Running(timers)' = Running(timers)
<1> DEFINE t == userTimer[k]
           rest == Without(timers, t)
<1>1. t \in Running(timers) /\ t \in Clients
  BY ElementOfSeq DEF Timed, TimersInv, ListInv, Running
<1>2. /\ timers' = InsertBy(rest, ttl, t, Lifetime) /\ status' = status
      /\ ttl' = [ttl EXCEPT ![t] = Lifetime]
      /\ UNCHANGED <<timerFd, userTimer>>
  BY <1>1 DEF AdjustTimer, Dangling
<1> HIDE DEF t
<1>3. /\ rest \in Seq(Clients) /\ Distinct(rest) /\ Running(rest) = Running(timers) \ {t}
      /\ Sorted(rest, ttl)
  BY <1>1, WithoutFacts DEF TimersInv, ListInv
<1> HIDE DEF rest
<1>4. ttl \in [Clients -> Nat] /\ Lifetime \in Nat
  BY WebAssumption DEF TypeInv, TimerTypes
<1>5. t \notin Running(rest)
  BY <1>3
<1>6. /\ timers' \in Seq(Clients) /\ Distinct(timers')
      /\ Running(timers') = Running(rest) \union {t}
      /\ Sorted(timers', ttl')
  <2> DEFINE w == InsertBy(rest, ttl, t, Lifetime)
  <2>0. Expires(Clients, ttl) /\ Moved(Clients, ttl, ttl', t, Lifetime)
    BY <1>1, <1>2, <1>4 DEF Expires, Moved
  <2>1. /\ w \in Seq(Clients) /\ Distinct(w) /\ Running(w) = Running(rest) \union {t}
        /\ Sorted(w, ttl')
    BY <1>1, <1>3, <1>4, <1>5, <2>0, InsertFacts
  <2> HIDE DEF w
  <2>2. timers' = w
    BY <1>2 DEF w
  <2> QED
    BY <2>1, <2>2
<1>7. ListInv'
  BY <1>2, <1>6 DEF ListInv, Sorted, Distinct
<1>8. Running(timers)' = Running(timers)
  BY <1>1, <1>3, <1>6
<1>9. OwnerInv'
  BY <1>2, <1>8 DEF TimersInv, OwnerInv, Timed, Shrinks, EarlyStays
<1> QED
  BY <1>2, <1>7, <1>8, <1>9

(* The event the loop takes out of its batch is the only one for its       *)
(* descriptor.                                                             *)
LEMMA TakenBatch ==
  ASSUME TimersInv, NEW k \in Fds, NEW kind, Handling([fd |-> k, kind |-> kind])
  PROVE  /\ Timed(k) /\ mpc = "batch"
         /\ \A l \in Fds : InBatch(l)' => l # k /\ Timed(l)
         /\ \A d, e \in batch' : d.fd = e.fd /\ d.fd \in Fds => d = e
         /\ batch' \subseteq batch
<1> DEFINE e == [fd |-> k, kind |-> kind]
<1>1. e \in batch /\ batch' = batch \ {e} /\ e.fd = k /\ mpc = "batch"
  BY DEF Handling
<1>2. \A d \in batch : d.fd = k => d = e
  BY <1>1 DEF TimersInv, BatchInv
<1> HIDE DEF e
<1> QED
  BY <1>1, <1>2 DEF TimersInv, BatchInv, InBatch

LEMMA RemoveHandled ==
  ASSUME TypeInv, TimersInv, NEW k \in Fds, NEW kind, Handling([fd |-> k, kind |-> kind]),
         RemoveTimer(k), mpc' = mpc
  PROVE  TimersInv'
<1>1. /\ ListInv' /\ OwnerInv' /\ status' = status
      /\ \A l \in Fds : l # k /\ Timed(l) => Timed(l)'
  BY TakenBatch, RemoveKeeps
<1>2. BatchInv'
  BY <1>1, TakenBatch DEF BatchInv
<1> QED
  BY <1>1, <1>2 DEF TimersInv

LEMMA AdjustHandled ==
  ASSUME TypeInv, TimersInv, NEW k \in Fds, NEW kind, Handling([fd |-> k, kind |-> kind]),
         AdjustTimer(k), Shrinks, EarlyStays, mpc' = mpc \/ (mpc' = "spin" /\ mfd' = k)
  PROVE  TimersInv'
<1>1. ListInv' /\ OwnerInv' /\ status' = status /\ Running(timers)' = Running(timers)
  BY TakenBatch, AdjustKeeps
<1>2. \A l \in Fds : Timed(l)' <=> Timed(l)
  BY <1>1 DEF AdjustTimer, Timed
<1>3. ~ InBatch(k)'
  BY TakenBatch
<1>4. BatchInv'
  BY <1>2, <1>3, TakenBatch DEF BatchInv
<1> QED
  BY <1>1, <1>4 DEF TimersInv

(* A new connection's timer is one that was not running.                   *)
LEMMA AcceptTimers ==
  ASSUME TypeInv, TimersInv, Accept, batch' \subseteq batch, mpc' = "batch", status' = status
  PROVE  TimersInv'
<1>1. PICK c \in Clients : /\ Early(c)
                           /\ At(c, "talking") /\ CreateTimerForUser(c, Lowest(FreeFds))
  BY DEF Accept, Backlog, Early
<1>2. PICK k \in Fds : k = Lowest(FreeFds) /\ sock[k] = None
  BY LowestFree DEF Accept, FreeFds
<1>3. c \notin Running(timers) /\ c # None
  BY <1>1, WebAssumption DEF TimersInv, OwnerInv
<1>4. /\ timers' = InsertBy(timers, ttl, c, Lifetime)
      /\ ttl' = [ttl EXCEPT ![c] = Lifetime]
      /\ timerFd' = [timerFd EXCEPT ![c] = k]
      /\ userTimer' = [userTimer EXCEPT ![k] = c]
      /\ sock' = [sock EXCEPT ![k] = c]
      /\ epoll' = [epoll EXCEPT ![k] = "in"]
      /\ client' = [client EXCEPT ![c].at = "talking"]
  BY <1>1, <1>2 DEF CreateTimerForUser, At
<1>5. ttl \in [Clients -> Nat] /\ Lifetime \in Nat
  BY WebAssumption DEF TypeInv, TimerTypes
<1>6. /\ timers' \in Seq(Clients) /\ Distinct(timers')
      /\ Running(timers') = Running(timers) \union {c}
      /\ Sorted(timers', ttl')
  <2> DEFINE w == InsertBy(timers, ttl, c, Lifetime)
  <2>0. Expires(Clients, ttl) /\ Moved(Clients, ttl, ttl', c, Lifetime)
    BY <1>4, <1>5 DEF Expires, Moved
  <2>1. /\ w \in Seq(Clients) /\ Distinct(w) /\ Running(w) = Running(timers) \union {c}
        /\ Sorted(w, ttl')
    BY <1>3, <1>5, <2>0, InsertFacts DEF TimersInv, ListInv
  <2> HIDE DEF w
  <2>2. timers' = w
    BY <1>4 DEF w
  <2> QED
    BY <2>1, <2>2
<1>7. ListInv'
  BY <1>4, <1>6 DEF ListInv, Sorted, Distinct
<1>8. Running(timers)' = Running(timers) \union {c}
  BY <1>6
<1>9. Running(timers) \subseteq Clients
  BY ElementOfSeq DEF TimersInv, ListInv, Running
<1>10. \A l \in Fds : Timed(l) => Timed(l)'
  BY <1>4, <1>8 DEF Timed, TypeInv, TimerTypes
<1>11. OwnerInv'
  <2>1. \A t \in Running(timers)' : timerFd'[t] \in Fds
    BY <1>4, <1>8, <1>9 DEF TimersInv, OwnerInv, TypeInv, TimerTypes
  <2>2. \A l \in Fds : Timed(l)' => timerFd'[userTimer'[l]] = l
    <3> SUFFICES ASSUME NEW l \in Fds, Timed(l)' PROVE timerFd'[userTimer'[l]] = l
      OBVIOUS
    <3>1. CASE l = k
      BY <1>4, <3>1 DEF TypeInv, TimerTypes
    <3>2. CASE l # k
      <4>1. userTimer'[l] = userTimer[l] /\ userTimer[l] # c
        BY <1>1, <1>4, <3>2 DEF TimersInv, OwnerInv, TypeInv, TimerTypes
      <4>2. userTimer[l] \in Running(timers) /\ userTimer[l] \in Clients
        BY <1>8, <1>9, <4>1 DEF Timed
      <4> QED
        BY <1>4, <4>1, <4>2 DEF TimersInv, OwnerInv, Timed, TypeInv, TimerTypes
    <3> QED
      BY <3>1, <3>2
  <2>3. \A l \in Fds : sock'[l] # None => Timed(l)' /\ userTimer'[l] = sock'[l]
    <3> SUFFICES ASSUME NEW l \in Fds, sock'[l] # None
                 PROVE  Timed(l)' /\ userTimer'[l] = sock'[l]
      OBVIOUS
    <3>1. CASE l = k
      BY <1>4, <1>8, <3>1 DEF Timed, TypeInv, TimerTypes, NetTypes
    <3>2. CASE l # k
      BY <1>4, <1>10, <3>2 DEF TimersInv, OwnerInv, TypeInv, TimerTypes, NetTypes
    <3> QED
      BY <3>1, <3>2
  <2>4. \A l \in Fds : epoll'[l] # "none" => sock'[l] # None
    BY <1>3, <1>4 DEF TimersInv, OwnerInv, TypeInv, NetTypes
  <2>5. \A d \in Clients : Early(d)' => d # c /\ Early(d)
    BY <1>4 DEF Early, TypeInv, NetTypes, ClientType
  <2>6. \A d \in Clients : Early(d)' => d \notin Running(timers)' /\ \A l \in Fds : userTimer'[l] # d
    BY <1>4, <1>8, <2>5 DEF TimersInv, OwnerInv, TypeInv, TimerTypes
  <2> QED
    BY <2>1, <2>2, <2>3, <2>4, <2>6 DEF OwnerInv
<1>12. BatchInv'
  BY <1>10 DEF TimersInv, BatchInv, InBatch
<1> QED
  BY <1>7, <1>11, <1>12 DEF TimersInv

(* What epoll reports, and what it leaves of the registrations.            *)
LEMMA ReadyFacts ==
  ASSUME TypeInv
  PROVE  /\ \A e \in Ready : e.fd \in Fds => epoll[e.fd] \in {"in", "out"}
         /\ \A d, e \in Ready : d.fd = e.fd /\ d.fd \in Fds => d = e
<1>1. \A e \in {Listen, Signal} : e.fd = None /\ None \notin Fds
  BY WebAssumption DEF Listen, Signal
<1>2. \A e \in Ready : \/ e \in {Listen, Signal}
                       \/ /\ e.fd \in Fds /\ epoll[e.fd] \in {"in", "out"}
                          /\ e = [fd |-> e.fd,
                                  kind |-> IF client[sock[e.fd]].at = "gone" THEN "hup"
                                           ELSE epoll[e.fd]]
  BY DEF Ready
<1> QED
  BY <1>1, <1>2

LEMMA WaitTimers ==
  ASSUME TypeInv, TimersInv, EpollWait
  PROVE  TimersInv'
<1>1. /\ UNCHANGED <<sock, timers, ttl, timerFd, userTimer, status>>
      /\ batch' = Ready /\ client' = Reported /\ epoll' = OneShot(Ready) /\ mpc' = "batch"
  BY DEF EpollWait, timerVars
<1>2. Shrinks
  BY <1>1, ReadyFacts DEF Shrinks, OneShot
<1>3. EarlyStays
  BY <1>1 DEF EarlyStays, Early, Reported, Seen, TypeInv, NetTypes, ClientType
<1>4. OwnerInv'
  BY <1>1, <1>2, <1>3 DEF TimersInv, OwnerInv, Timed, Shrinks, EarlyStays
<1>5. \A k \in Fds : InBatch(k)' => Timed(k)'
  <2>1. \A k \in Fds : InBatch(k)' => epoll[k] # "none"
    BY <1>1, ReadyFacts DEF InBatch
  <2> QED
    BY <1>1, <2>1 DEF TimersInv, OwnerInv, Timed
<1>6. BatchInv'
  BY <1>1, <1>5, ReadyFacts DEF BatchInv
<1>7. ListInv' /\ status' # "dangling"
  BY <1>1 DEF TimersInv, ListInv
<1> QED
  BY <1>4, <1>6, <1>7 DEF TimersInv

(* tick(): the expired timers are the front of the list.                   *)
LEMMA HandlerTimers ==
  ASSUME TypeInv, TimersInv, EndBatch, TimerHandler
  PROVE  TimersInv'
<1>1. /\ Running(timers)' = Running(timers) \ Expired
      /\ timers' \in Seq(Clients) /\ Distinct(timers)' /\ Sorted(timers', ttl)
      /\ Expired \subseteq Clients /\ Running(timers) \subseteq Clients
  BY ExpiredFront, ElementOfSeq DEF TimersInv, ListInv, TimerHandler, Running
<1>2. /\ ttl' = [c \in Clients |-> IF c \in Expired THEN 0 ELSE ttl[c]]
      /\ timerFd' = [c \in Clients |-> IF c \in Expired THEN None ELSE timerFd[c]]
      /\ userTimer' = userTimer
  BY DEF TimerHandler, Deleted
<1>3. \A i \in 1..Len(timers') : timers'[i] \in Clients \ Expired
  BY <1>1, ElementOfSeq DEF Running
<1>4. ListInv'
  <2>1. \A i \in 1..Len(timers') : ttl'[timers'[i]] = ttl[timers'[i]]
    BY <1>2, <1>3
  <2> QED
    BY <1>1, <2>1 DEF ListInv, Sorted
<1> DEFINE closing == {timerFd[t] : t \in Expired}
           lost == {sock[k] : k \in closing} \ {None}
<1>5. /\ sock' = [k \in Fds |-> IF k \in closing THEN None ELSE sock[k]]
      /\ epoll' = [k \in Fds |-> IF k \in closing THEN "none" ELSE epoll[k]]
      /\ client' = [c \in Clients |-> IF c \in lost THEN Gone(client[c]) ELSE client[c]]
  BY DEF TimerHandler
<1>6. Shrinks
  BY <1>5 DEF Shrinks
<1>7. EarlyStays
  <2>1. \A c \in Clients : Gone(client[c]).at = "gone"
    BY DEF Gone, TypeInv, NetTypes, ClientType
  <2> HIDE DEF lost
  <2> QED
    BY <1>5, <2>1 DEF EarlyStays, Early
<1>8. \A k \in Fds : sock'[k] # None => k \notin closing /\ sock'[k] = sock[k]
  BY <1>5
<1>9. OwnerInv'
  <2>1. \A t \in Running(timers)' : timerFd'[t] \in Fds /\ timerFd'[t] = timerFd[t]
    BY <1>1, <1>2 DEF TimersInv, OwnerInv
  <2>2. \A l \in Fds : Timed(l)' => Timed(l) /\ timerFd'[userTimer'[l]] = l
    BY <1>1, <1>2, <2>1 DEF TimersInv, OwnerInv, Timed
  <2>3. \A l \in Fds : sock'[l] # None => Timed(l)' /\ userTimer'[l] = sock'[l]
    <3> SUFFICES ASSUME NEW l \in Fds, sock'[l] # None
                 PROVE  Timed(l)' /\ userTimer'[l] = sock'[l]
      OBVIOUS
    <3>1. userTimer[l] = sock[l] /\ userTimer[l] \in Running(timers) /\ timerFd[userTimer[l]] = l
      BY <1>8 DEF TimersInv, OwnerInv, Timed
    <3>2. userTimer[l] \notin Expired
      BY <1>8, <3>1
    <3> QED
      BY <1>1, <1>2, <1>8, <3>1, <3>2 DEF Timed
  <2>4. \A l \in Fds : epoll'[l] # "none" => sock'[l] # None
    BY <1>6 DEF TimersInv, OwnerInv, Shrinks
  <2>5. \A c \in Clients : Early(c)' => c \notin Running(timers)' /\ \A l \in Fds : userTimer'[l] # c
    BY <1>1, <1>2, <1>7 DEF TimersInv, OwnerInv, EarlyStays
  <2> QED
    BY <2>1, <2>2, <2>3, <2>4, <2>5 DEF OwnerInv
<1>10. BatchInv' /\ status' # "dangling"
  BY DEF EndBatch, BatchInv, InBatch, TimersInv
<1> QED
  BY <1>4, <1>9, <1>10 DEF TimersInv

LEMMA MainTimers ==
  ASSUME TypeInv, TimersInv, MainStep
  PROVE  TimersInv'
<1>0. NetTypes
  BY DEF TypeInv
<1>1. CASE EpollWait
  BY <1>1, WaitTimers
<1>2. CASE DealClientData
  <2>1. batch' \subseteq batch /\ status' = status
    BY <1>2 DEF DealClientData, Handling
  <2>2. CASE Accept /\ mpc' = "batch"
    BY <2>1, <2>2, AcceptTimers
  <2>3. CASE AcceptFails /\ mpc' \in {"accept", "batch"}
    <3>1. UNCHANGED <<sock, epoll, timers, ttl, timerFd, userTimer>>
      BY <2>3 DEF AcceptFails, kernelVars, timerVars
    <3>2. EarlyStays
      BY <1>0, <2>3 DEF AcceptFails, EarlyStays, Early, At, NetTypes, ClientType
    <3>3. ListInv' /\ OwnerInv'
      BY <3>1, <3>2 DEF TimersInv, ListInv, OwnerInv, EarlyStays, Timed
    <3>4. BatchInv'
      BY <2>1, <2>3, <3>1 DEF TimersInv, BatchInv, InBatch, Timed
    <3> QED
      BY <2>1, <3>3, <3>4 DEF TimersInv
  <2> QED
    BY <1>2, <2>2, <2>3 DEF DealClientData
<1>3. CASE DealSysSignal
  <2>1. /\ UNCHANGED <<client, sock, epoll, timers, ttl, timerFd, userTimer, mpc, mfd, status>>
        /\ batch' \subseteq batch
    BY <1>3 DEF DealSysSignal, Handling, clientVars, kernelVars, timerVars
  <2>2. ListInv' /\ OwnerInv'
    BY <2>1 DEF TimersInv, ListInv, OwnerInv, Timed, Early
  <2>3. BatchInv'
    BY <2>1 DEF TimersInv, BatchInv, InBatch, Timed
  <2> QED
    BY <2>1, <2>2, <2>3 DEF TimersInv
<1>4. ASSUME NEW k \in Fds, Hangup(k) PROVE TimersInv'
  BY <1>4, RemoveHandled DEF Hangup
<1>5. ASSUME NEW k \in Fds, NEW kind, NEW state, HandOver(k, kind, state) PROVE TimersInv'
  <2>1. Shrinks /\ EarlyStays
    BY <1>5 DEF HandOver, clientVars, kernelVars, Shrinks, EarlyStays, Early
  <2> QED
    BY <1>5, <2>1, AdjustHandled DEF HandOver
<1>6. ASSUME NEW k \in Fds, ReadHere(k) PROVE TimersInv'
  <2>1. CASE ReadOnceOk(k) /\ AdjustTimer(k) /\ UNCHANGED kernelVars
    <3>1. Shrinks /\ EarlyStays
      BY <1>0, <2>1, ReadStays DEF kernelVars, Shrinks
    <3> QED
      BY <1>6, <2>1, <3>1, AdjustHandled DEF ReadHere
  <2>2. CASE RemoveTimer(k)
    BY <1>6, <2>2, RemoveHandled DEF ReadHere
  <2> QED
    BY <1>6, <2>1, <2>2 DEF ReadHere
<1>7. ASSUME NEW k \in Fds, WriteHere(k) PROVE TimersInv'
  <2>1. PICK outcome \in Outcomes :
          \/ /\ AdjustTimer(k) /\ sock' = sock
             /\ epoll' = ReArm(k, outcome) /\ client' = Told(k, outcome)
          \/ RemoveTimer(k)
    BY <1>7 DEF WriteHere
  <2>2. CASE AdjustTimer(k) /\ sock' = sock /\ epoll' = ReArm(k, outcome)
             /\ client' = Told(k, outcome)
    <3>1. Shrinks /\ EarlyStays
      BY <1>0, <2>2, ReArmShrinks, ToldStays
    <3> QED
      BY <1>7, <2>2, <3>1, AdjustHandled DEF WriteHere
  <2>3. CASE RemoveTimer(k)
    BY <1>7, <2>3, RemoveHandled DEF WriteHere
  <2> QED
    BY <2>1, <2>2, <2>3
<1>8. CASE SeeImprov
  <2>1. /\ UNCHANGED <<client, sock, epoll, timers, ttl, timerFd, userTimer, mfd, batch, status>>
        /\ mpc = "spin" /\ mpc' = "seen"
    BY <1>8 DEF SeeImprov, clientVars, kernelVars, timerVars
  <2>2. ListInv' /\ OwnerInv'
    BY <2>1 DEF TimersInv, ListInv, OwnerInv, Timed, Early
  <2>3. BatchInv'
    BY <2>1 DEF TimersInv, BatchInv, InBatch, Timed
  <2> QED
    BY <2>1, <2>2, <2>3 DEF TimersInv
<1>9. CASE EndSpin
  <2>1. mfd \in Fds /\ Timed(mfd) /\ ~ InBatch(mfd) /\ batch' = batch /\ mpc' = "batch"
    BY <1>9 DEF EndSpin, TimersInv, BatchInv, TypeInv, LoopTypes
  <2>2. CASE RemoveTimer(mfd)
    <3>1. /\ ListInv' /\ OwnerInv' /\ status' = status
          /\ \A l \in Fds : l # mfd /\ Timed(l) => Timed(l)'
      BY <2>1, <2>2, RemoveKeeps
    <3>2. BatchInv'
      BY <2>1, <3>1 DEF TimersInv, BatchInv, InBatch
    <3> QED
      BY <3>1, <3>2 DEF TimersInv
  <2>3. CASE UNCHANGED <<client, kernelVars, userCount, timerVars, status>>
    <3>1. UNCHANGED <<client, sock, epoll, timers, ttl, timerFd, userTimer, status>>
      BY <2>3 DEF kernelVars, timerVars
    <3>2. ListInv' /\ OwnerInv'
      BY <3>1 DEF TimersInv, ListInv, OwnerInv, Timed, Early
    <3>3. BatchInv'
      BY <2>1, <3>1 DEF TimersInv, BatchInv, InBatch, Timed
    <3> QED
      BY <3>1, <3>2, <3>3 DEF TimersInv
  <2> QED
    BY <1>9, <2>2, <2>3 DEF EndSpin
<1>10. CASE EndBatch
  <2>1. CASE TimerHandler
    BY <1>10, <2>1, HandlerTimers
  <2>2. CASE UNCHANGED <<client, kernelVars, userCount, timerVars, alarm, timeout>>
    <3>1. /\ UNCHANGED <<client, sock, epoll, timers, ttl, timerFd, userTimer, batch>>
          /\ mpc' = "wait"
      BY <1>10, <2>2 DEF EndBatch, kernelVars, timerVars
    <3>2. ListInv' /\ OwnerInv'
      BY <3>1 DEF TimersInv, ListInv, OwnerInv, Timed, Early
    <3>3. BatchInv' /\ status' # "dangling"
      BY <1>10, <3>1 DEF EndBatch, TimersInv, BatchInv, InBatch, Timed
    <3> QED
      BY <3>2, <3>3 DEF TimersInv
  <2> QED
    BY <1>10, <2>1, <2>2 DEF EndBatch
<1> QED
  BY <1>1, <1>2, <1>3, <1>4, <1>5, <1>6, <1>7, <1>8, <1>9, <1>10 DEF MainStep

LEMMA ClockTimers ==
  ASSUME TypeInv, TimersInv, Clock
  PROVE  TimersInv'
<1>1. /\ ttl' = [c \in Clients |-> Aged(c)]
      /\ UNCHANGED <<client, sock, epoll, timers, timerFd, userTimer, mpc, mfd, batch, status>>
  BY DEF Clock, clientVars, kernelVars, mainVars
<1>2. \A c, d \in Clients : ttl[c] <= ttl[d] => ttl'[c] <= ttl'[d]
  BY <1>1, WebAssumption DEF Aged, TypeInv, TimerTypes
<1>3. \A i \in 1..Len(timers) : timers[i] \in Clients
  BY ElementOfSeq DEF TimersInv, ListInv
<1>4. ListInv'
  BY <1>1, <1>2, <1>3 DEF TimersInv, ListInv, Sorted
<1>5. OwnerInv' /\ BatchInv'
  BY <1>1 DEF TimersInv, OwnerInv, BatchInv, Timed, InBatch, Early
<1> QED
  BY <1>1, <1>4, <1>5 DEF TimersInv

LEMMA TimersInit == Init => TimersInv
<1> SUFFICES ASSUME Init PROVE TimersInv
  OBVIOUS
<1>1. timers = << >> /\ Running(timers) = {}
  BY DEF Init, Running
<1>2. ListInv
  BY <1>1 DEF ListInv, Distinct, Sorted
<1>3. OwnerInv
  BY <1>1, WebAssumption DEF Init, OwnerInv, Timed
<1>4. BatchInv /\ status # "dangling"
  BY DEF Init, BatchInv, InBatch
<1> QED
  BY <1>2, <1>3, <1>4 DEF TimersInv

LEMMA ClientSteps ==
  ASSUME TypeInv, ClientStep
  PROVE  EarlyStays
BY DEF TypeInv, ClientStep, EarlyStays, Early, Connect, Send, Leave, At, NetTypes, ClientType

(* The two invariants together.                                            *)
LEMMA TimersStep ==
  ASSUME TypeInv, TimersInv, [Next]_vars
  PROVE  TypeInv' /\ TimersInv'
<1>1. CASE MainStep
  BY <1>1, MainTypes, MainTimers DEF TimersInv
<1>2. ASSUME NEW w \in Workers, WorkerStep(w) PROVE TypeInv' /\ TimersInv'
  BY <1>2, WorkerTypes, WorkerTimers
<1>3. CASE ClientStep
  <2>1. /\ UNCHANGED <<timers, ttl, timerFd, userTimer, mpc, mfd, batch, status>>
        /\ UNCHANGED <<sock, epoll>>
    BY <1>3 DEF ClientStep, kernelVars, mainVars, timerVars
  <2> QED
    BY <1>3, <2>1, OtherTypes, ClientSteps, TimersFrame DEF Shrinks
<1>4. CASE Clock
  BY <1>4, OtherTypes, ClockTimers
<1>5. CASE Terminate \/ UNCHANGED vars
  <2>1. /\ UNCHANGED <<timers, ttl, timerFd, userTimer, mpc, mfd, batch, status>>
        /\ UNCHANGED <<client, sock, epoll>>
    BY <1>5 DEF Terminate, vars, clientVars, kernelVars, mainVars, timerVars
  <2>2. Shrinks /\ EarlyStays
    BY <2>1 DEF Shrinks, EarlyStays, Early
  <2> QED
    BY <1>5, <2>1, <2>2, OtherTypes, TimersFrame
<1> QED
  BY <1>1, <1>2, <1>3, <1>4, <1>5 DEF Next

LEMMA TimersAlways == Spec => [](TypeInv /\ TimersInv)
<1>1. Init => TypeInv /\ TimersInv
  BY TypesInit, TimersInit
<1>2. TypeInv /\ TimersInv /\ [Next]_vars => (TypeInv /\ TimersInv)'
  BY TimersStep
<1> QED
  BY <1>1, <1>2, PTL DEF Spec

(* Every open connection has a running timer of its own that users_timer   *)
(* finds, whatever workers and clients do in whatever order.               *)
THEOREM EveryConnectionTimed == Spec => []OpenHasTimer
<1>1. TypeInv /\ TimersInv => OpenHasTimer
  BY DEF TimersInv, ListInv, OwnerInv, OpenHasTimer, Distinct, Timed
<1> QED
  BY <1>1, TimersAlways, PTL

(* The event loop never adjusts or removes a timer that was deleted, not   *)
(* even for a descriptor a worker closed under it.                         *)
THEOREM TimersNeverDangle == Spec => []NoDanglingTimer
<1>1. TypeInv /\ TimersInv => NoDanglingTimer
  BY DEF TimersInv, NoDanglingTimer
<1> QED
  BY <1>1, TimersAlways, PTL

-----------------------------------------------------------------------------
(* As long as no worker closes a connection itself: descriptors and        *)
(* running timers in pairs, every open one registered, and all counted.    *)
Opens == {k \in Fds : sock[k] # None}

NoCloser == \A w \in Workers : worker[w].at \notin {"close", "closed", "count"}
Paired == \A t \in Running(timers) : sock[timerFd[t]] = t
Attached == \A k \in Fds : sock[k] # None => conn[k].live /\ epoll[k] # "none"
Counted == userCount = Cardinality(Opens)

MatchInv == ~setting.closes => NoCloser /\ Paired /\ Attached /\ Counted

(* No connection object dies and no registration ends.                     *)
LiveStays == \A k \in Fds : conn[k].live => conn'[k].live
NoneEnds == \A k \in Fds : epoll'[k] = "none" => epoll[k] = "none"

LEMMA OpensFinite == IsFiniteSet(Opens)
BY WebAssumption, FS_Subset DEF Opens

LEMMA ArmedStays ==
  ASSUME NetTypes, NEW k, NEW ev \in {"in", "out"}, epoll' = Armed(k, ev)
  PROVE  NoneEnds
BY DEF NoneEnds, Armed, NetTypes

LEMMA ReArmStays ==
  ASSUME NetTypes, NEW k, NEW outcome \in Outcomes, epoll' = ReArm(k, outcome)
  PROVE  NoneEnds
<1>1. \/ epoll' = epoll
      \/ epoll' = Armed(k, "in")
      \/ epoll' = Armed(k, "out")
  BY DEF ReArm, Outcomes
<1> QED
  BY <1>1, ArmedStays DEF NoneEnds

LEMMA ReadLives ==
  ASSUME NetTypes, ConnTypes, NEW k \in Fds, ReadOnceOk(k)
  PROVE  LiveStays
BY DEF LiveStays, ReadOnceOk, ConnTypes, ConnType

LEMMA WriteLives ==
  ASSUME ConnTypes, NEW k \in Fds, NEW outcome, WriteOnce(k, outcome)
  PROVE  LiveStays
<1>1. Reset(conn[k]).live = conn[k].live
  BY DEF Reset, ConnTypes, ConnType
<1>2. \/ conn' = [conn EXCEPT ![k] = Reset(conn[k])]
      \/ conn' = [conn EXCEPT ![k].resp = {}]
      \/ conn' = [conn EXCEPT ![k].partial = TRUE]
      \/ conn' = conn
  BY DEF WriteOnce
<1>3. CASE conn' = [conn EXCEPT ![k] = Reset(conn[k])]
  BY <1>1, <1>3 DEF LiveStays, ConnTypes
<1>4. CASE conn' = [conn EXCEPT ![k].resp = {}] \/ conn' = [conn EXCEPT ![k].partial = TRUE]
  BY <1>4 DEF LiveStays, ConnTypes, ConnType
<1> QED
  BY <1>2, <1>3, <1>4 DEF LiveStays

LEMMA MatchFrame ==
  ASSUME TypeInv, MatchInv, LiveStays, NoneEnds, ~setting.closes => NoCloser',
         UNCHANGED <<setting, sock, timers, timerFd, userCount>>
  PROVE  MatchInv'
<1>1. NoCloser => Opens' = Opens
  BY DEF Opens
<1>2. CASE ~ setting.closes
  <2>1. Paired' /\ Counted'
    BY <1>2 DEF MatchInv, Paired, Counted, Opens
  <2>2. Attached'
    BY <1>2 DEF MatchInv, Attached, LiveStays, NoneEnds
  <2> QED
    BY <1>2, <2>1, <2>2 DEF MatchInv
<1> QED
  BY <1>2 DEF MatchInv

LEMMA WorkerMatch ==
  ASSUME TypeInv, MatchInv, NEW w \in Workers, WorkerStep(w)
  PROVE  MatchInv'
<1>0. /\ NetTypes /\ ConnTypes /\ WorkTypes
      /\ UNCHANGED <<setting, timers, timerFd>>
      /\ worker[w].at # "idle" => worker[w].task \in Fds
  BY DEF TypeInv, WorkTypes, WorkerStep, timerVars
<1> SUFFICES ASSUME ~setting.closes, NoCloser PROVE MatchInv'
  BY <1>0 DEF MatchInv
<1>1. worker[w].at \notin {"close", "closed", "count"}
  BY DEF NoCloser
<1>2. ASSUME NEW l \in WorkerAts \ {"close", "closed", "count"}, Goto(w, l) PROVE NoCloser'
  BY <1>0, <1>2 DEF NoCloser, Goto, Idle, WorkTypes, WorkerType
<1>3. CASE Fetch(w)
  <2>1. UNCHANGED <<sock, epoll, conn, userCount>>
    BY <1>3 DEF Fetch, kernelVars, connVars
  <2>2. NoCloser'
    BY <1>0, <1>3 DEF NoCloser, Fetch, WorkTypes, WorkerType
  <2> QED
    BY <1>0, <2>1, <2>2, MatchFrame DEF LiveStays, NoneEnds
<1>4. CASE DoRead(w)
  <2>1. /\ UNCHANGED <<sock, epoll, userCount>> /\ \E l \in {"process", "flag", "idle"} : Goto(w, l)
        /\ conn' = conn \/ ReadOnceOk(worker[w].task)
    BY <1>4 DEF DoRead, ReportFailure, kernelVars
  <2>2. LiveStays
    BY <1>0, <1>4, <2>1, ReadLives DEF DoRead, LiveStays
  <2> QED
    BY <1>0, <1>2, <2>1, <2>2, MatchFrame DEF NoneEnds, WorkerAts
<1>5. CASE DoWrite(w)
  <2>1. PICK outcome \in Outcomes : /\ WriteOnce(worker[w].task, outcome)
                                    /\ epoll' = ReArm(worker[w].task, outcome)
    BY <1>5 DEF DoWrite
  <2>2. UNCHANGED <<sock, userCount>> /\ \E l \in {"flag", "idle"} : Goto(w, l)
    BY <1>5 DEF DoWrite, ReportFailure
  <2>3. worker[w].task \in Fds
    BY <1>0, <1>5 DEF DoWrite
  <2>4. LiveStays /\ NoneEnds
    BY <1>0, <2>1, <2>3, WriteLives, ReArmStays
  <2> QED
    BY <1>0, <1>2, <2>2, <2>4, MatchFrame DEF WorkerAts
<1>6. CASE SetTimerFlag(w) \/ NoRequest(w) \/ ArmOut(w)
  <2>1. UNCHANGED <<sock, conn, userCount>> /\ Goto(w, "idle")
    BY <1>6 DEF SetTimerFlag, NoRequest, ArmOut, kernelVars, connVars
  <2>2. NoneEnds
    BY <1>0, <1>6, ArmedStays DEF SetTimerFlag, NoRequest, ArmOut, kernelVars, NoneEnds
  <2> QED
    BY <1>0, <1>2, <2>1, <2>2, MatchFrame DEF LiveStays, WorkerAts
<1>7. CASE DoRequest(w)
  <2>1. UNCHANGED <<sock, epoll, conn, userCount>>
    BY <1>7 DEF DoRequest, kernelVars, connVars
  <2>2. NoCloser'
    BY <1>0, <1>7 DEF NoCloser, DoRequest, WorkTypes, WorkerType
  <2> QED
    BY <1>0, <2>1, <2>2, MatchFrame DEF LiveStays, NoneEnds
<1>8. CASE ProcessWrite(w)
  <2>1. UNCHANGED <<sock, epoll, userCount>> /\ Goto(w, "arm")
    BY <1>8 DEF ProcessWrite, kernelVars
  <2>2. LiveStays
    <3>1. CASE conn' = conn
      BY <3>1 DEF LiveStays
    <3>2. ASSUME NEW keep \in BOOLEAN,
                 conn' = [conn EXCEPT ![worker[w].task].buf = "part",
                                      ![worker[w].task].resp = @ \union worker[w].asked,
                                      ![worker[w].task].linger = @ \/ keep,
                                      ![worker[w].task].partial = FALSE]
          PROVE  LiveStays
      <4> DEFINE k == worker[w].task
                 written == [conn[k] EXCEPT !.buf = "part",
                               !.resp = @ \union worker[w].asked,
                               !.linger = @ \/ keep, !.partial = FALSE]
      <4>1. \A j \in Fds : conn[j] \in ConnType
        BY <1>0 DEF ConnTypes
      <4>2. written.live = conn[k].live \/ k \notin Fds
        BY <4>1 DEF ConnType
      <4>3. conn' = [conn EXCEPT ![k] = written]
        BY <3>2
      <4> HIDE DEF written
      <4>4. \A j \in Fds : conn'[j] = IF j = k THEN written ELSE conn[j]
        BY <1>0, <4>3 DEF ConnTypes
      <4> QED
        BY <4>2, <4>4 DEF LiveStays
    <3> QED
      BY <1>8, <3>1, <3>2 DEF ProcessWrite
  <2> QED
    BY <1>0, <1>2, <2>1, <2>2, MatchFrame DEF NoneEnds, WorkerAts
<1>9. CASE RemoveFd(w) \/ ForgetFd(w) \/ CountDown(w)
  BY <1>1, <1>9 DEF RemoveFd, ForgetFd, CountDown
<1> QED
  BY <1>3, <1>4, <1>5, <1>6, <1>7, <1>8, <1>9 DEF WorkerStep

(* A descriptor that has a running timer is open, and is that timer's.     *)
LEMMA TimedIsOpen ==
  ASSUME TimersInv, Paired, NEW k \in Fds, Timed(k)
  PROVE  sock[k] = userTimer[k] /\ sock[k] # None
<1>1. timerFd[userTimer[k]] = k /\ userTimer[k] \in Running(timers)
  BY DEF TimersInv, OwnerInv, Timed
<1>2. userTimer[k] \in Clients
  BY <1>1, ElementOfSeq DEF TimersInv, ListInv, Running
<1> QED
  BY <1>1, <1>2, WebAssumption DEF Paired

LEMMA RemoveMatch ==
  ASSUME TypeInv, TimersInv, MatchInv, NEW k \in Fds, Timed(k), RemoveTimer(k), LiveStays,
         UNCHANGED <<setting, worker>>
  PROVE  MatchInv'
<1> SUFFICES ASSUME ~setting.closes, NoCloser, Paired, Attached, Counted PROVE MatchInv'
  BY DEF MatchInv
<1>1. sock[k] = userTimer[k] /\ sock[k] # None
  BY TimedIsOpen
<1>2. Running(timers)' = Running(timers) \ {userTimer[k]}
  BY RemoveKeeps
<1>3. /\ sock' = [sock EXCEPT ![k] = None] /\ epoll' = [epoll EXCEPT ![k] = "none"]
      /\ timerFd' = [c \in Clients |-> IF c = userTimer[k] THEN None ELSE timerFd[c]]
      /\ userCount' = userCount - 1
  BY DEF RemoveTimer, CloseUserFd, CloseFd, Deleted
<1>4. Running(timers) \subseteq Clients
  BY ElementOfSeq DEF TimersInv, ListInv, Running
<1>5. Paired'
  <2> SUFFICES ASSUME NEW t \in Running(timers)' PROVE sock'[timerFd'[t]] = t
    BY DEF Paired
  <2>1. t \in Running(timers) /\ t # sock[k] /\ timerFd'[t] = timerFd[t] /\ sock[timerFd[t]] = t
    BY <1>1, <1>2, <1>3, <1>4 DEF Paired
  <2>2. timerFd[t] # k /\ timerFd[t] \in Fds
    BY <2>1 DEF TimersInv, OwnerInv
  <2> QED
    BY <1>3, <2>1, <2>2 DEF TypeInv, NetTypes
<1>6. Attached'
  BY <1>3 DEF Attached, LiveStays, TypeInv, NetTypes
<1>7. Counted'
  <2>1. Opens' = Opens \ {k} /\ k \in Opens
    BY <1>1, <1>3 DEF Opens, TypeInv, NetTypes
  <2>2. Cardinality(Opens \ {k}) = Cardinality(Opens) - 1
    BY <2>1, OpensFinite, FS_RemoveElement
  <2>3. Cardinality(Opens)' = Cardinality(Opens) - 1
    BY <2>1, <2>2
  <2> QED
    BY <1>3, <2>3 DEF Counted
<1>8. NoCloser'
  BY DEF NoCloser
<1> QED
  BY <1>5, <1>6, <1>7, <1>8 DEF MatchInv

LEMMA AdjustMatch ==
  ASSUME TypeInv, TimersInv, MatchInv, NEW k \in Fds, Timed(k), AdjustTimer(k), LiveStays,
         NoneEnds, Shrinks, EarlyStays, UNCHANGED <<setting, sock, worker, userCount>>
  PROVE  MatchInv'
<1> SUFFICES ASSUME ~setting.closes, NoCloser, Paired, Attached, Counted PROVE MatchInv'
  BY DEF MatchInv
<1>1. Running(timers)' = Running(timers) /\ timerFd' = timerFd
  BY AdjustKeeps DEF AdjustTimer
<1>2. Paired' /\ NoCloser' /\ Counted'
  BY <1>1 DEF Paired, NoCloser, Counted, Opens
<1>3. Attached'
  BY DEF Attached, LiveStays, NoneEnds
<1> QED
  BY <1>2, <1>3 DEF MatchInv

LEMMA AcceptMatch ==
  ASSUME TypeInv, TimersInv, MatchInv, Accept, UNCHANGED <<setting, worker>>
  PROVE  MatchInv'
<1> SUFFICES ASSUME ~setting.closes, NoCloser, Paired, Attached, Counted PROVE MatchInv'
  BY DEF MatchInv
<1>1. PICK c \in Clients : Early(c) /\ CreateTimerForUser(c, Lowest(FreeFds))
  BY DEF Accept, Backlog, Early
<1>2. PICK k \in Fds : k = Lowest(FreeFds) /\ sock[k] = None
  BY LowestFree DEF Accept, FreeFds
<1>3. /\ sock' = [sock EXCEPT ![k] = c] /\ epoll' = [epoll EXCEPT ![k] = "in"]
      /\ conn' = [conn EXCEPT ![k] = [Reset(conn[k]) EXCEPT !.live = TRUE]]
      /\ userCount' = userCount + 1
      /\ timerFd' = [timerFd EXCEPT ![c] = k]
  BY <1>1, <1>2 DEF CreateTimerForUser
<1>4. /\ c # None /\ c \notin Running(timers)
      /\ Running(timers) \subseteq Clients
  BY <1>1, WebAssumption, ElementOfSeq DEF TimersInv, ListInv, OwnerInv, Running
<1>5. Running(timers)' = Running(timers) \union {c}
  <2>1. timers' = InsertBy(timers, ttl, c, Lifetime) /\ ttl' = [ttl EXCEPT ![c] = Lifetime]
    BY <1>1 DEF CreateTimerForUser
  <2>2. Lifetime \in Nat /\ Expires(Clients, ttl) /\ Moved(Clients, ttl, ttl', c, Lifetime)
    BY <2>1, WebAssumption DEF Expires, Moved, TypeInv, TimerTypes
  <2> DEFINE w == InsertBy(timers, ttl, c, Lifetime)
  <2>3. Running(w) = Running(timers) \union {c}
    BY <1>4, <2>2, InsertFacts DEF TimersInv, ListInv
  <2> HIDE DEF w
  <2>4. timers' = w
    BY <2>1 DEF w
  <2> QED
    BY <2>3, <2>4
<1>6. Paired'
  <2> SUFFICES ASSUME NEW t \in Running(timers)' PROVE sock'[timerFd'[t]] = t
    BY DEF Paired
  <2>1. CASE t = c
    BY <1>3, <2>1 DEF TypeInv, NetTypes, TimerTypes
  <2>2. CASE t # c
    <3>1. t \in Running(timers) /\ t \in Clients /\ timerFd'[t] = timerFd[t] /\ sock[timerFd[t]] = t
      BY <1>3, <1>4, <1>5, <2>2 DEF Paired, TypeInv, TimerTypes
    <3>2. timerFd[t] # k /\ timerFd[t] \in Fds
      BY <1>2, <3>1, WebAssumption DEF TimersInv, OwnerInv
    <3> QED
      BY <1>3, <3>1, <3>2 DEF TypeInv, NetTypes
  <2> QED
    BY <2>1, <2>2
<1>7. Attached'
  <2>1. [Reset(conn[k]) EXCEPT !.live = TRUE].live
    BY DEF Reset, TypeInv, ConnTypes, ConnType
  <2> QED
    BY <1>3, <2>1 DEF Attached, TypeInv, NetTypes, ConnTypes
<1>8. Counted'
  <2>1. Opens' = Opens \union {k} /\ k \notin Opens
    BY <1>2, <1>3, <1>4 DEF Opens, TypeInv, NetTypes
  <2>2. Cardinality(Opens \union {k}) = Cardinality(Opens) + 1
    BY <2>1, OpensFinite, FS_AddElement
  <2>3. Cardinality(Opens)' = Cardinality(Opens) + 1
    BY <2>1, <2>2
  <2> QED
    BY <1>3, <2>3 DEF Counted
<1>9. NoCloser'
  BY DEF NoCloser
<1> QED
  BY <1>6, <1>7, <1>8, <1>9 DEF MatchInv

(* tick() closes one open descriptor for each expired timer.               *)
LEMMA HandlerMatch ==
  ASSUME TypeInv, TimersInv, MatchInv, TimerHandler, UNCHANGED <<setting, worker, conn>>
  PROVE  MatchInv'
<1> SUFFICES ASSUME ~setting.closes, NoCloser, Paired, Attached, Counted PROVE MatchInv'
  BY DEF MatchInv
<1> DEFINE closing == {timerFd[t] : t \in Expired}
<1>1. /\ Running(timers)' = Running(timers) \ Expired
      /\ IsFiniteSet(Expired) /\ Cardinality(Expired) \in Nat
      /\ Expired \subseteq Running(timers) /\ Running(timers) \subseteq Clients
  <2>1. Expired \subseteq Running(timers)
    BY DEF Expired
  <2>2. Running(timers)' = Running(timers) \ Expired
    BY ExpiredFront DEF TimersInv, TimerHandler
  <2>3. IsFiniteSet(Expired) /\ Cardinality(Expired) \in Nat
    BY ExpiredFront DEF TimersInv
  <2>4. Running(timers) \subseteq Clients
    BY ElementOfSeq DEF TimersInv, ListInv, Running
  <2> QED
    BY <2>1, <2>2, <2>3, <2>4
<1>2. /\ sock' = [k \in Fds |-> IF k \in closing THEN None ELSE sock[k]]
      /\ epoll' = [k \in Fds |-> IF k \in closing THEN "none" ELSE epoll[k]]
      /\ timerFd' = [c \in Clients |-> IF c \in Expired THEN None ELSE timerFd[c]]
      /\ userCount' = userCount - Cardinality(Expired)
  BY DEF TimerHandler, Deleted
<1>3. \A t \in Running(timers) : timerFd[t] \in Fds /\ sock[timerFd[t]] = t /\ t # None
  BY <1>1, WebAssumption DEF Paired, TimersInv, OwnerInv
<1>4. closing \subseteq Opens
  BY <1>1, <1>3 DEF Opens
<1>5. IsFiniteSet(closing) /\ Cardinality(closing) = Cardinality(Expired)
  <2> DEFINE f == [t \in Expired |-> timerFd[t]]
  <2>1. f \in [Expired -> closing] /\ \A k \in closing : \E t \in Expired : f[t] = k
    OBVIOUS
  <2>2. \A t, u \in Expired : f[t] = f[u] => t = u
    BY <1>1, <1>3
  <2> HIDE DEF closing, f
  <2>3. f \in Bijection(Expired, closing)
    BY <2>1, <2>2 DEF Bijection, Injection, Surjection, IsInjective
  <2>4. ExistsBijection(Expired, closing)
    BY <2>3 DEF ExistsBijection
  <2> QED
    BY <1>1, <2>4, FS_Bijection
<1>6. Paired'
  <2> SUFFICES ASSUME NEW t \in Running(timers)' PROVE sock'[timerFd'[t]] = t
    BY DEF Paired
  <2>1. t \in Running(timers) /\ t \notin Expired /\ timerFd'[t] = timerFd[t]
    BY <1>1, <1>2
  <2>2. timerFd[t] \notin closing
    BY <1>1, <1>3, <2>1
  <2> QED
    BY <1>2, <1>3, <2>1, <2>2
<1> HIDE DEF closing
<1>7. Attached'
  BY <1>2 DEF Attached
<1>8. Counted'
  <2>1. Opens' = Opens \ closing
    BY <1>2, <1>4 DEF Opens
  <2>2. IsFiniteSet(Opens \ closing) /\ Cardinality(Opens) \in Nat
    BY OpensFinite, FS_Subset, FS_CardinalityType
  <2>3. Opens = (Opens \ closing) \union closing /\ (Opens \ closing) \cap closing = {}
    BY <1>4
  <2>4. Cardinality(Opens) = Cardinality(Opens \ closing) + Cardinality(closing) - 0
    BY <1>5, <2>2, <2>3, FS_Union, FS_EmptySet
  <2>5. Cardinality(Opens \ closing) \in Nat
    BY <2>2, FS_CardinalityType
  <2>6. Cardinality(Opens)' = Cardinality(Opens) - Cardinality(Expired)
    BY <1>1, <1>5, <2>1, <2>2, <2>4, <2>5
  <2> QED
    BY <1>2, <2>6 DEF Counted
<1>9. NoCloser'
  BY DEF NoCloser
<1> QED
  BY <1>6, <1>7, <1>8, <1>9 DEF MatchInv

LEMMA MainMatch ==
  ASSUME TypeInv, TimersInv, MatchInv, MainStep
  PROVE  MatchInv'
<1>0. NetTypes /\ ConnTypes /\ UNCHANGED <<setting, worker>>
  BY DEF TypeInv, MainStep
<1> DEFINE Frame == UNCHANGED <<sock, timers, timerFd, userCount>> /\ LiveStays /\ NoneEnds
<1>1. ASSUME Frame PROVE MatchInv'
  <2>1. NoCloser => NoCloser'
    BY <1>0 DEF NoCloser
  <2> QED
    BY <1>0, <1>1, <2>1, MatchFrame DEF MatchInv
<1>2. CASE EpollWait
  <2>1. NoneEnds
    BY <1>2 DEF EpollWait, NoneEnds, OneShot
  <2> QED
    BY <1>1, <1>2, <2>1 DEF EpollWait, connVars, timerVars, LiveStays
<1>3. CASE DealClientData
  <2>1. CASE Accept
    BY <1>0, <2>1, AcceptMatch
  <2>2. CASE AcceptFails
    BY <1>1, <2>2 DEF AcceptFails, kernelVars, timerVars, LiveStays, NoneEnds
  <2> QED
    BY <1>3, <2>1, <2>2 DEF DealClientData
<1>4. CASE DealSysSignal
  BY <1>1, <1>4 DEF DealSysSignal, kernelVars, connVars, timerVars, LiveStays, NoneEnds
<1>5. ASSUME NEW k \in Fds, Hangup(k) PROVE MatchInv'
  BY <1>0, <1>5, TakenBatch, RemoveMatch DEF Hangup, connVars, LiveStays
<1>6. ASSUME NEW k \in Fds, NEW kind, NEW state \in {0, 1}, HandOver(k, kind, state)
      PROVE  MatchInv'
  <2>1. UNCHANGED <<client, sock, epoll, userCount>>
    BY <1>6 DEF HandOver, clientVars, kernelVars
  <2>2. Shrinks /\ EarlyStays /\ NoneEnds
    BY <2>1 DEF Shrinks, EarlyStays, Early, NoneEnds
  <2>3. LiveStays
    BY <1>0, <1>6 DEF HandOver, LiveStays, ConnTypes, ConnType
  <2>4. Timed(k) /\ AdjustTimer(k)
    BY <1>6, TakenBatch DEF HandOver
  <2> QED
    BY <1>0, <2>1, <2>2, <2>3, <2>4, AdjustMatch
<1>7. ASSUME NEW k \in Fds, ReadHere(k) PROVE MatchInv'
  <2>1. Timed(k)
    BY <1>7, TakenBatch DEF ReadHere
  <2>2. CASE ReadOnceOk(k) /\ AdjustTimer(k) /\ UNCHANGED <<kernelVars, userCount>>
    <3>1. UNCHANGED <<sock, epoll, userCount>> /\ EarlyStays /\ LiveStays
      BY <1>0, <2>2, ReadStays, ReadLives DEF kernelVars
    <3>2. Shrinks /\ NoneEnds
      BY <3>1 DEF Shrinks, NoneEnds
    <3> QED
      BY <1>0, <2>1, <2>2, <3>1, <3>2, AdjustMatch
  <2>3. CASE RemoveTimer(k) /\ UNCHANGED <<conn, queue>>
    BY <1>0, <2>1, <2>3, RemoveMatch DEF LiveStays
  <2> QED
    BY <1>7, <2>2, <2>3 DEF ReadHere
<1>8. ASSUME NEW k \in Fds, WriteHere(k) PROVE MatchInv'
  <2>1. PICK outcome \in Outcomes :
          /\ WriteOnce(k, outcome)
          /\ \/ /\ AdjustTimer(k) /\ UNCHANGED <<sock, userCount>>
                /\ epoll' = ReArm(k, outcome) /\ client' = Told(k, outcome)
             \/ RemoveTimer(k)
    BY <1>8 DEF WriteHere
  <2>2. Timed(k) /\ LiveStays
    BY <1>0, <1>8, <2>1, TakenBatch, WriteLives DEF WriteHere
  <2>3. CASE AdjustTimer(k) /\ UNCHANGED <<sock, userCount>>
             /\ epoll' = ReArm(k, outcome) /\ client' = Told(k, outcome)
    <3>1. Shrinks /\ EarlyStays /\ NoneEnds
      BY <1>0, <2>3, ReArmShrinks, ToldStays, ReArmStays
    <3> QED
      BY <1>0, <2>2, <2>3, <3>1, AdjustMatch
  <2>4. CASE RemoveTimer(k)
    BY <1>0, <2>2, <2>4, RemoveMatch
  <2> QED
    BY <2>1, <2>3, <2>4
<1>9. CASE SeeImprov
  BY <1>1, <1>9 DEF SeeImprov, kernelVars, connVars, timerVars, LiveStays, NoneEnds
<1>10. CASE EndSpin
  <2>1. mfd \in Fds /\ Timed(mfd) /\ LiveStays
    BY <1>10 DEF EndSpin, TypeInv, LoopTypes, TimersInv, BatchInv, LiveStays
  <2>2. CASE RemoveTimer(mfd)
    BY <1>0, <2>1, <2>2, RemoveMatch
  <2>3. CASE UNCHANGED <<client, kernelVars, userCount, timerVars, status>>
    BY <1>1, <2>1, <2>3 DEF kernelVars, timerVars, NoneEnds
  <2> QED
    BY <1>10, <2>2, <2>3 DEF EndSpin
<1>11. CASE EndBatch
  <2>1. conn' = conn
    BY <1>11 DEF EndBatch, connVars
  <2>2. CASE TimerHandler
    BY <1>0, <2>1, <2>2, HandlerMatch
  <2>3. CASE UNCHANGED <<client, kernelVars, userCount, timerVars, alarm, timeout>>
    BY <1>1, <2>1, <2>3 DEF kernelVars, timerVars, LiveStays, NoneEnds
  <2> QED
    BY <1>11, <2>2, <2>3 DEF EndBatch
<1> QED
  BY <1>2, <1>3, <1>4, <1>5, <1>6, <1>7, <1>8, <1>9, <1>10, <1>11 DEF MainStep

LEMMA MatchInit == Init => MatchInv
<1> SUFFICES ASSUME Init PROVE NoCloser /\ Paired /\ Attached /\ Counted
  BY DEF MatchInv
<1>1. NoCloser /\ Attached
  BY DEF Init, NoCloser, Attached, Idle
<1>2. Running(timers) = {} /\ Opens = {}
  BY DEF Init, Running, Opens
<1>3. Paired /\ Counted
  BY <1>2, FS_EmptySet DEF Paired, Counted, Init
<1> QED
  BY <1>1, <1>3

LEMMA MatchStep ==
  ASSUME TypeInv, TimersInv, MatchInv, [Next]_vars
  PROVE  MatchInv'
<1>1. CASE ClientStep \/ Clock \/ Terminate \/ UNCHANGED vars
  <2>1. UNCHANGED <<setting, sock, epoll, conn, userCount, worker, timers, timerFd>>
    BY <1>1 DEF ClientStep, Clock, Terminate, vars, kernelVars, connVars, timerVars
  <2> QED
    BY <2>1, MatchFrame DEF LiveStays, NoneEnds, NoCloser, MatchInv
<1> QED
  BY <1>1, WorkerMatch, MainMatch DEF Next

LEMMA MatchAlways == Spec => [](TypeInv /\ TimersInv /\ MatchInv)
<1>1. Init => TypeInv /\ TimersInv /\ MatchInv
  BY TypesInit, TimersInit, MatchInit
<1>2. TypeInv /\ TimersInv /\ MatchInv /\ [Next]_vars => (TypeInv /\ TimersInv /\ MatchInv)'
  BY TimersStep, MatchStep
<1> QED
  BY <1>1, <1>2, PTL DEF Spec

(* Unless a worker closes a connection itself, open connections and        *)
(* running timers correspond one to one.                                   *)
THEOREM TimersAndConnectionsPair == Spec => [](~setting.closes => TimersMatch)
<1>1. TypeInv /\ TimersInv /\ MatchInv => (~setting.closes => TimersMatch)
  BY DEF TimersInv, ListInv, OwnerInv, OpenHasTimer, Distinct, Timed, TimersMatch, MatchInv, Paired
<1> QED
  BY <1>1, MatchAlways, PTL

(* Unless a worker closes a connection itself, m_user_count is the number  *)
(* of open connections, however many end in one tick().                    *)
THEOREM UserCountIsConnections == Spec => [](~setting.closes => CountsConnections)
<1>1. TypeInv /\ TimersInv /\ MatchInv => (~setting.closes => CountsConnections)
  BY DEF MatchInv, Counted, Opens, CountsConnections
<1> QED
  BY <1>1, MatchAlways, PTL

-----------------------------------------------------------------------------
(* Calm settings.  A descriptor is busy while it is queued or a worker is  *)
(* at it.                                                                  *)
Busy(k) == k \in Queued \/ \E w \in Workers : worker[w].at # "idle" /\ worker[w].task = k

(* Workers do not halt between two flags, and only read and write for a    *)
(* reactor.                                                                *)
Steady == \A w \in Workers : /\ worker[w].at # "flag"
                             /\ setting.mode = "proactor" => worker[w].at \notin {"read", "write"}
(* A job is at one place.                                                  *)
Alone == /\ \A v, w \in Workers :
              worker[v].at # "idle" /\ worker[w].at # "idle" /\ worker[v].task = worker[w].task
                => v = w
         /\ \A w \in Workers : worker[w].at # "idle" => worker[w].task \notin Queued
         /\ Distinct(queue)
(* What is busy or about to be handled is disarmed and open, never both,   *)
(* and a busy connection's timer has all its slots left.  timer_flag is    *)
(* only up while the event loop spins on the descriptor.                   *)
Held == \A k \in Fds :
  /\ Busy(k) \/ InBatch(k) => epoll[k] = "off" /\ sock[k] # None
  /\ Busy(k) => ~InBatch(k) /\ ttl[sock[k]] = Lifetime
  /\ timerFlag[k] = 1 => Spinning(k) /\ ~Busy(k)
(* Nothing in an object, in a worker or at a client is of another client.  *)
ConnMine == \A k \in Fds : sock[k] # None => conn[k].from \union conn[k].resp \subseteq {sock[k]}
AskedMine == \A w \in Workers : worker[w].at = "reply" =>
               worker[w].asked \subseteq {sock[worker[w].task]}
GotMine == \A c \in Clients : got[c] \subseteq {c}

CalmInv == Calm => Steady /\ Alone /\ Held /\ ConnMine /\ AskedMine /\ GotMine

(* With room in the queue, what is disarmed is in somebody's hands.        *)
Room == setting.maxRequests >= Cardinality(Fds)
Found == \A k \in Fds : epoll[k] = "off" => InBatch(k) \/ Busy(k) \/ timerFlag[k] = 1
FoundInv == Calm /\ Room => Found

(* Everything at once.                                                     *)
AllInv == TypeInv /\ HandInv /\ TimersInv /\ MatchInv
CalmParts == Steady /\ Alone /\ Held /\ ConnMine /\ AskedMine /\ GotMine

(* Worker w moves on, staying at its job or ending it.                     *)
LEMMA MovesAlone ==
  ASSUME WorkTypes, Alone, NEW w \in Workers, worker[w].at # "idle",
         NEW k, worker[w].task = k,
         \A v \in Workers \ {w} : worker'[v] = worker[v],
         worker'[w].at # "idle" => worker'[w].task = k,
         queue' = queue
  PROVE  /\ Alone'
         /\ \A l : Busy(l)' => Busy(l)
         /\ \A l : Busy(l) /\ l # k => Busy(l)'
         /\ Busy(k)' <=> worker'[w].at # "idle"
<1>1. Alone' /\ \A l : (Busy(l)' => Busy(l)) /\ (Busy(l) /\ l # k => Busy(l)')
  BY DEF Alone, Busy, Queued, Distinct
<1>2. Busy(k)' <=> worker'[w].at # "idle"
  BY DEF Alone, Busy, Queued
<1> QED
  BY <1>1, <1>2

LEMMA FetchAlone ==
  ASSUME WorkTypes, Alone, NEW w \in Workers, Fetch(w)
  PROVE  /\ Alone' /\ \A l : Busy(l)' <=> Busy(l)
         /\ worker'[w].at # "reply"
<1> DEFINE n == Len(queue)
<1>1. /\ worker[w].at = "idle" /\ queue # << >> /\ queue \in Seq(Fds)
      /\ queue' = Tail(queue)
      /\ worker'[w].task = Head(queue) /\ worker'[w].at \in {"process", "read", "write"}
      /\ \A v \in Workers \ {w} : worker'[v] = worker[v]
  BY DEF Fetch, WorkTypes, WorkerType
<1>2. /\ n \in Nat \ {0} /\ Head(queue) = queue[1]
      /\ Len(queue') = n - 1
      /\ \A i \in 1..(n - 1) : queue'[i] = queue[i + 1]
  BY <1>1, HeadTailProperties, EmptySeq, LenProperties
<1> HIDE DEF n
<1>3. Queued = Queued' \union {Head(queue)}
  <2>1. \A i \in 1..n : i = 1 \/ (i - 1 \in 1..(n - 1) /\ queue[i] = queue'[i - 1])
    BY <1>2
  <2>2. \A i \in 1..(n - 1) : i + 1 \in 1..n /\ queue'[i] = queue[i + 1]
    BY <1>2
  <2>3. Queued = {queue[i] : i \in 1..n} /\ Queued' = {queue'[i] : i \in 1..(n - 1)} /\ 1 \in 1..n
    BY <1>2 DEF Queued, n
  <2>4. ASSUME NEW x \in Queued PROVE x \in Queued' \union {Head(queue)}
    <3>1. PICK i \in 1..n : x = queue[i]
      BY <2>3
    <3> QED
      BY <1>2, <2>1, <2>3, <3>1
  <2>5. Queued' \union {Head(queue)} \subseteq Queued
    BY <1>2, <2>2, <2>3
  <2> QED
    BY <2>4, <2>5
<1>4. Head(queue) \notin Queued' /\ Distinct(queue)'
  <2>1. \A i \in 1..(n - 1) : i + 1 \in 1..n /\ i + 1 # 1 /\ queue'[i] = queue[i + 1]
    BY <1>2
  <2>2. \A i, j \in 1..n : queue[i] = queue[j] => i = j
    BY DEF Alone, Distinct, n
  <2>3. 1 \in 1..n
    BY <1>2
  <2>4. Head(queue) \notin Queued'
    BY <1>2, <2>1, <2>2, <2>3 DEF Queued
  <2>5. Distinct(queue)'
    BY <1>2, <2>1, <2>2 DEF Distinct
  <2> QED
    BY <2>4, <2>5
<1>5. \A l : Busy(l)' <=> Busy(l)
  BY <1>1, <1>3 DEF Busy
<1>6. Alone'
  BY <1>1, <1>3, <1>4 DEF Alone
<1> QED
  BY <1>1, <1>5, <1>6

(* A worker's step on descriptor k, and what is busy.                      *)
LEMMA WorkerHeld ==
  ASSUME Held, NEW k \in Fds, Busy(k), \A l : Busy(l)' => Busy(l),
         UNCHANGED <<sock, batch, ttl, mpc, mfd>>,
         \A l \in Fds \ {k} : epoll'[l] = epoll[l],
         epoll'[k] = epoll[k] \/ ~Busy(k)',
         \A l \in Fds : timerFlag'[l] = 1 =>
           timerFlag[l] = 1 \/ (l = k /\ ~Busy(k)' /\ Spinning(k))
  PROVE  Held'
<1> SUFFICES ASSUME NEW l \in Fds
             PROVE  /\ (Busy(l) \/ InBatch(l) => epoll[l] = "off" /\ sock[l] # None)'
                    /\ (Busy(l) => ~InBatch(l) /\ ttl[sock[l]] = Lifetime)'
                    /\ (timerFlag[l] = 1 => Spinning(l) /\ ~Busy(l))'
  BY DEF Held
<1>1. /\ Busy(l) \/ InBatch(l) => epoll[l] = "off" /\ sock[l] # None
      /\ Busy(l) => ~InBatch(l) /\ ttl[sock[l]] = Lifetime
      /\ timerFlag[l] = 1 => Spinning(l) /\ ~Busy(l)
      /\ ~InBatch(k)
  BY DEF Held
<1>2. (InBatch(l)' <=> InBatch(l)) /\ (Spinning(l)' <=> Spinning(l))
  BY DEF InBatch, Spinning
<1> QED
  BY <1>1, <1>2

(* Any step, on descriptor k only, and what is found.                      *)
LEMMA FoundStays ==
  ASSUME Found, NEW k,
         \A l \in Fds \ {k} : /\ epoll'[l] = "off" => epoll[l] = "off"
                              /\ InBatch(l) => InBatch(l)'
                              /\ Busy(l) => Busy(l)'
                              /\ timerFlag[l] = 1 => timerFlag'[l] = 1,
         k \in Fds => epoll'[k] # "off" \/ Busy(k)' \/ timerFlag'[k] = 1
  PROVE  Found'
BY DEF Found

(* Reading and writing, and whose the data is.                             *)
LEMMA ReadMine ==
  ASSUME NetTypes, ConnTypes, ConnMine, NEW k \in Fds, ReadOnceOk(k), sock' = sock
  PROVE  ConnMine'
<1>1. /\ conn'[k].from = conn[k].from \union {sock[k]} /\ conn'[k].resp = conn[k].resp
      /\ \A l \in Fds \ {k} : conn'[l] = conn[l]
  BY DEF ReadOnceOk, ConnTypes, ConnType
<1> QED
  BY <1>1 DEF ConnMine

LEMMA WriteMine ==
  ASSUME NetTypes, ConnTypes, ConnMine, GotMine, NEW k \in Fds, NEW outcome,
         WriteOnce(k, outcome), \A l \in Fds : sock'[l] = sock[l] \/ sock'[l] = None
  PROVE  ConnMine' /\ GotMine'
<1>1. \A l \in Fds : /\ conn'[l].from \subseteq conn[l].from
                     /\ conn'[l].resp \subseteq conn[l].resp
  <2>1. Reset(conn[k]).from = {} /\ Reset(conn[k]).resp = {}
    BY DEF Reset, ConnTypes, ConnType
  <2>2. CASE conn' = [conn EXCEPT ![k] = Reset(conn[k])]
    BY <2>1, <2>2 DEF ConnTypes
  <2>3. CASE conn' = [conn EXCEPT ![k].resp = {}] \/ conn' = [conn EXCEPT ![k].partial = TRUE]
    BY <2>3 DEF ConnTypes, ConnType
  <2> QED
    BY <2>2, <2>3 DEF WriteOnce
<1>2. ConnMine'
  BY <1>1 DEF ConnMine
<1>3. got' = got \/ Sends(k)
  BY DEF WriteOnce
<1>4. GotMine'
  <2>1. CASE Sends(k)
    BY <2>1 DEF Sends, Writable, GotMine, ConnMine, NetTypes
  <2> QED
    BY <1>3, <2>1 DEF GotMine
<1> QED
  BY <1>2, <1>4

(* One worker's step, in a calm setting.                                   *)
LEMMA ReaderSpins ==
  ASSUME HandInv, NEW w \in Workers, Unrep(w), setting.mode = "reactor"
  PROVE  Spinning(worker[w].task)
BY DEF HandInv, OnePlace, InQueue, InImprov, Quiet, NoneUnrep, WithWorker, Unrep, Spinning

LEMMA ArmedOff ==
  ASSUME NetTypes, Attached, NEW k \in Fds, sock[k] # None, NEW ev \in {"in", "out"},
         epoll' = Armed(k, ev)
  PROVE  epoll'[k] # "off" /\ \A l \in Fds \ {k} : epoll'[l] = epoll[l]
BY DEF Attached, Armed, NetTypes

LEMMA ReArmOff ==
  ASSUME NetTypes, Attached, NEW k \in Fds, sock[k] # None, NEW outcome \in Outcomes,
         epoll' = ReArm(k, outcome)
  PROVE  /\ \A l \in Fds \ {k} : epoll'[l] = epoll[l]
         /\ Returns(outcome) => epoll'[k] # "off"
<1>1. CASE outcome = "error"
  BY <1>1 DEF ReArm, Returns
<1>2. CASE outcome # "error"
  <2>1. epoll' = Armed(k, "in") \/ epoll' = Armed(k, "out")
    BY <1>2 DEF ReArm, Outcomes
  <2> QED
    BY <2>1, ArmedOff
<1> QED
  BY <1>1, <1>2

(* The parts about places, for a worker that moves on.                     *)
LEMMA WorkerCalm ==
  ASSUME AllInv, Calm, CalmParts, NEW w \in Workers, worker[w].at # "idle",
         NEW k, k = worker[w].task, NEW l \in WorkerAts \ {"flag", "read", "write"},
         worker'[w].at = l, l # "idle" => worker'[w].task = k,
         \A v \in Workers \ {w} : worker'[v] = worker[v],
         UNCHANGED <<setting, queue, sock, batch, ttl, mpc, mfd>>,
         \A m \in Fds \ {k} : epoll'[m] = epoll[m] /\ timerFlag'[m] = timerFlag[m],
         epoll'[k] = epoll[k] \/ l = "idle",
         timerFlag'[k] = 1 => l = "idle" /\ Unrep(w)
  PROVE  /\ Steady' /\ Alone' /\ Held' /\ Calm'
         /\ Found /\ (epoll'[k] = "off" => timerFlag'[k] = 1 \/ l # "idle") => Found'
<1>1. WorkTypes /\ k \in Fds /\ Busy(k)
  BY DEF AllInv, TypeInv, WorkTypes, Busy
<1>2. /\ Alone' /\ \A m : Busy(m)' => Busy(m)
      /\ \A m : Busy(m) /\ m # k => Busy(m)'
      /\ Busy(k)' <=> l # "idle"
  BY <1>1, MovesAlone DEF CalmParts
<1>3. Unrep(w) => Spinning(k)
  <2>1. setting.mode \in {"reactor", "proactor"}
    BY WebAssumption DEF AllInv, TypeInv, LoopTypes
  <2> QED
    BY <2>1, ReaderSpins DEF AllInv, CalmParts, Steady, Unrep
<1>4. Held'
  BY <1>1, <1>2, <1>3, WorkerHeld DEF CalmParts
<1>5. Steady' /\ Calm'
  BY DEF CalmParts, Steady, Calm
<1>6. ASSUME Found, epoll'[k] = "off" => timerFlag'[k] = 1 \/ l # "idle" PROVE Found'
  BY <1>2, <1>6, FoundStays DEF InBatch
<1> QED
  BY <1>2, <1>4, <1>5, <1>6

LEMMA GotoFacts ==
  ASSUME WorkTypes, NEW w \in Workers, NEW l, Goto(w, l)
  PROVE  /\ \A v \in Workers \ {w} : worker'[v] = worker[v]
         /\ worker'[w].at = l
         /\ l # "idle" => worker'[w].task = worker[w].task
BY DEF Goto, WorkTypes, WorkerType, Idle

LEMMA WorkerSteps ==
  ASSUME AllInv, Calm, CalmParts, NEW w \in Workers, WorkerStep(w)
  PROVE  CalmParts' /\ (Found => Found') /\ \A m \in Fds : Busy(m) => sock'[m] = sock[m]
<1> DEFINE k == worker[w].task
<1>0. /\ NetTypes /\ ConnTypes /\ WorkTypes /\ Attached /\ ~setting.closes
      /\ UNCHANGED <<setting, batch, ttl, mpc, mfd>>
      /\ ~setting.torn
      /\ worker[w].at \notin {"close", "closed", "count"}
      /\ worker[w].at # "idle" => k \in Fds /\ Busy(k) /\ sock[k] # None /\ timerFlag[k] = 0
  <2>1. worker[w].at # "idle" => k \in Fds /\ Busy(k)
    BY DEF AllInv, TypeInv, WorkTypes, Busy
  <2>2. worker[w].at # "idle" => sock[k] # None /\ timerFlag[k] = 0
    BY <2>1 DEF CalmParts, Held, AllInv, TypeInv, ConnTypes
  <2> QED
    BY <2>1, <2>2 DEF AllInv, TypeInv, MatchInv, NoCloser, Calm, WorkerStep, mainVars, timerVars
<1> HIDE DEF k
<1>1. ASSUME NEW l \in WorkerAts, Goto(w, l)
      PROVE  /\ worker'[w].at = l
             /\ l # "idle" => worker'[w].task = k
             /\ \A v \in Workers \ {w} : worker'[v] = worker[v]
  BY <1>0, <1>1, GotoFacts DEF k
<1>2. CASE Fetch(w)
  <2>1. /\ Alone' /\ \A l : Busy(l)' <=> Busy(l)
        /\ UNCHANGED <<client, got, sock, epoll, conn, improv, timerFlag>>
    BY <1>0, <1>2, FetchAlone DEF CalmParts, Fetch, clientVars, kernelVars, connVars
  <2>2. worker'[w].at \in {"process", "read", "write"} /\ worker'[w].at # "idle"
        /\ (setting.mode = "proactor" => worker'[w].at = "process")
        /\ \A v \in Workers \ {w} : worker'[v] = worker[v]
    BY <1>0, <1>2 DEF Fetch, WorkTypes, WorkerType
  <2>3. Steady' /\ AskedMine'
    BY <1>0, <2>1, <2>2 DEF CalmParts, Steady, AskedMine
  <2>4. Held' /\ (Found => Found')
    BY <1>0, <2>1 DEF CalmParts, Held, Found, InBatch, Spinning
  <2>5. ConnMine' /\ GotMine'
    BY <2>1 DEF CalmParts, ConnMine, GotMine
  <2> QED
    BY <2>1, <2>3, <2>4, <2>5 DEF CalmParts
<1>3. CASE DoRead(w)
  <2>1. PICK l \in {"process", "idle"} : Goto(w, l)
    BY <1>0, <1>3 DEF DoRead, ReportFailure
  <2>2. /\ UNCHANGED <<got, sock, epoll, queue>> /\ k \in Fds /\ Unrep(w) /\ worker[w].at # "idle"
        /\ \A m \in Fds \ {k} : timerFlag'[m] = timerFlag[m]
        /\ timerFlag'[k] = 1 => l = "idle"
        /\ l = "idle" => timerFlag'[k] = 1
        /\ conn' = conn \/ ReadOnceOk(k)
    BY <1>0, <1>1, <1>3, <2>1 DEF DoRead, ReportFailure, kernelVars, Unrep, ConnTypes, k, WorkerAts
  <2>3. /\ Steady' /\ Alone' /\ Held' /\ (Found => Found')
    BY <1>0, <1>1, <2>1, <2>2, WorkerCalm DEF k, WorkerAts
  <2>4. ConnMine'
    BY <1>0, <2>2, ReadMine DEF CalmParts, ConnMine
  <2>5. AskedMine' /\ GotMine'
    BY <1>1, <2>1, <2>2 DEF CalmParts, AskedMine, GotMine, WorkerAts
  <2> QED
    BY <2>2, <2>3, <2>4, <2>5 DEF CalmParts
<1>4. CASE DoWrite(w)
  <2>1. PICK outcome \in Outcomes :
          /\ WriteOnce(k, outcome) /\ epoll' = ReArm(k, outcome)
          /\ \/ /\ Returns(outcome) /\ Goto(w, "idle")
                /\ timerFlag' = IF outcome = "init" THEN [timerFlag EXCEPT ![k] = 0] ELSE timerFlag
             \/ ~Returns(outcome) /\ ReportFailure(w)
    BY <1>4 DEF DoWrite, k
  <2>2. Goto(w, "idle") /\ worker[w].at # "idle" /\ Unrep(w) /\ UNCHANGED <<sock, queue>>
    BY <1>0, <1>4, <2>1 DEF ReportFailure, DoWrite, Unrep
  <2>3. /\ \A m \in Fds \ {k} : timerFlag'[m] = timerFlag[m]
        /\ ~Returns(outcome) => timerFlag'[k] = 1
    BY <1>0, <2>1, <2>2 DEF ReportFailure, ConnTypes, k
  <2>4. /\ \A m \in Fds \ {k} : epoll'[m] = epoll[m]
        /\ Returns(outcome) => epoll'[k] # "off"
    BY <1>0, <2>1, <2>2, ReArmOff
  <2>5. Steady' /\ Alone' /\ Held' /\ (Found => Found')
    BY <1>0, <1>1, <2>2, <2>3, <2>4, WorkerCalm DEF k, WorkerAts
  <2>6. ConnMine' /\ GotMine'
    BY <1>0, <2>1, <2>2, WriteMine DEF CalmParts
  <2>7. AskedMine'
    BY <1>1, <2>2 DEF CalmParts, AskedMine, WorkerAts
  <2> QED
    BY <2>2, <2>5, <2>6, <2>7 DEF CalmParts
<1>5. CASE SetTimerFlag(w)
  BY <1>5 DEF SetTimerFlag, CalmParts, Steady
<1>6. CASE NoRequest(w) \/ ArmOut(w)
  <2>1. /\ worker[w].at # "idle" /\ Goto(w, "idle")
        /\ UNCHANGED <<got, sock, conn, timerFlag, queue>>
    BY <1>6 DEF NoRequest, ArmOut, clientVars, connVars
  <2>2. epoll'[k] # "off" /\ \A m \in Fds \ {k} : epoll'[m] = epoll[m]
    BY <1>0, <1>6, <2>1, ArmedOff DEF NoRequest, ArmOut, k
  <2>3. Steady' /\ Alone' /\ Held' /\ (Found => Found')
    BY <1>0, <1>1, <2>1, <2>2, WorkerCalm DEF k, WorkerAts
  <2>4. ConnMine' /\ GotMine' /\ AskedMine'
    BY <1>1, <2>1 DEF CalmParts, ConnMine, GotMine, AskedMine, WorkerAts
  <2> QED
    BY <2>1, <2>3, <2>4 DEF CalmParts
<1>7. CASE DoRequest(w)
  <2>1. /\ worker[w].at # "idle" /\ UNCHANGED <<got, sock, epoll, conn, timerFlag, queue>>
        /\ worker'[w].at = "reply" /\ worker'[w].task = k /\ worker'[w].asked = conn[k].from
        /\ \A v \in Workers \ {w} : worker'[v] = worker[v]
    BY <1>0, <1>7 DEF DoRequest, clientVars, kernelVars, connVars, WorkTypes, WorkerType, k
  <2>2. Steady' /\ Alone' /\ Held' /\ (Found => Found')
    BY <1>0, <2>1, WorkerCalm DEF k, WorkerAts
  <2>3. ConnMine' /\ GotMine'
    BY <2>1 DEF CalmParts, ConnMine, GotMine
  <2>4. AskedMine'
    BY <1>0, <2>1 DEF CalmParts, ConnMine, AskedMine
  <2> QED
    BY <2>1, <2>2, <2>3, <2>4 DEF CalmParts
<1>8. CASE ProcessWrite(w)
  <2>1. /\ worker[w].at = "reply" /\ Goto(w, "arm")
        /\ UNCHANGED <<got, sock, epoll, timerFlag, queue>>
    BY <1>0, <1>8 DEF ProcessWrite, clientVars, kernelVars
  <2>2. PICK keep \in BOOLEAN :
          conn' = [conn EXCEPT ![k].buf = "part", ![k].resp = @ \union worker[w].asked,
                               ![k].linger = @ \/ keep, ![k].partial = FALSE]
    BY <1>0, <1>8 DEF ProcessWrite, k
  <2>3. Steady' /\ Alone' /\ Held' /\ (Found => Found')
    BY <1>0, <1>1, <2>1, WorkerCalm DEF k, WorkerAts
  <2>4. /\ conn'[k].from = conn[k].from /\ conn'[k].resp = conn[k].resp \union worker[w].asked
        /\ \A m \in Fds \ {k} : conn'[m] = conn[m]
    BY <1>0, <2>1, <2>2 DEF ConnTypes, ConnType
  <2>5. ConnMine'
    BY <2>1, <2>4 DEF CalmParts, ConnMine, AskedMine, k
  <2>6. GotMine' /\ AskedMine'
    BY <1>1, <2>1 DEF CalmParts, GotMine, AskedMine, WorkerAts
  <2> QED
    BY <2>1, <2>3, <2>5, <2>6 DEF CalmParts
<1>9. CASE RemoveFd(w) \/ ForgetFd(w) \/ CountDown(w)
  BY <1>0, <1>9 DEF RemoveFd, ForgetFd, CountDown
<1> QED
  BY <1>2, <1>3, <1>4, <1>5, <1>6, <1>7, <1>8, <1>9 DEF WorkerStep

(* The event loop's steps, in a calm setting: who is busy keeps its        *)
(* connection and its time.                                                *)
LEMMA SameBusy ==
  ASSUME UNCHANGED <<worker, queue>>
  PROVE  /\ \A l : Busy(l)' <=> Busy(l)
         /\ Alone => Alone'
         /\ setting' = setting => (Steady => Steady') /\ (Calm <=> Calm')
BY DEF Busy, Queued, Alone, Steady, Calm, Distinct

(* A step that leaves descriptors, timers and jobs alone.                  *)
LEMMA CalmFrame ==
  ASSUME CalmParts, UNCHANGED <<setting, worker, queue, sock, conn, got>>,
         \A k \in Fds : Busy(k) => epoll'[k] = epoll[k] /\ ttl'[sock[k]] = ttl[sock[k]],
         \A k \in Fds : InBatch(k)' => ~Busy(k) /\ epoll'[k] = "off" /\ sock[k] # None,
         \A k \in Fds : timerFlag'[k] = 1 => timerFlag[k] = 1 /\ Spinning(k)'
  PROVE  CalmParts'
<1>1. Steady' /\ Alone' /\ \A l : Busy(l)' <=> Busy(l)
  BY SameBusy DEF CalmParts
<1>2. Held'
  BY <1>1 DEF CalmParts, Held
<1>3. ConnMine' /\ AskedMine' /\ GotMine'
  BY DEF CalmParts, ConnMine, AskedMine, GotMine
<1> QED
  BY <1>1, <1>2, <1>3 DEF CalmParts

LEMMA RemoveCalm ==
  ASSUME TypeInv, TimersInv, CalmParts, NEW k \in Fds, Timed(k), RemoveTimer(k), ~Busy(k),
         UNCHANGED <<setting, worker, queue>>, ~InBatch(k)',
         \A l \in Fds \ {k} : (InBatch(l)' <=> InBatch(l)) /\ timerFlag[l] # 1,
         \A l \in Fds : timerFlag'[l] # 1
  PROVE  /\ Steady' /\ Alone' /\ Held' /\ AskedMine'
         /\ Found => Found'
         /\ \A m \in Fds : Busy(m) => sock'[m] = sock[m]
<1>1. /\ sock' = [sock EXCEPT ![k] = None] /\ epoll' = [epoll EXCEPT ![k] = "none"]
      /\ ttl' = [c \in Clients |-> IF c \in {userTimer[k]} THEN 0 ELSE ttl[c]]
  BY DEF RemoveTimer, CloseUserFd, CloseFd, Deleted
<1>2. Steady' /\ Alone' /\ \A l : Busy(l)' <=> Busy(l)
  BY SameBusy DEF CalmParts
<1>3. \A l \in Fds \ {k} : sock'[l] = sock[l] /\ epoll'[l] = epoll[l]
  BY <1>1 DEF TypeInv, NetTypes
<1>4. \A l \in Fds \ {k} : sock[l] # None => ttl'[sock[l]] = ttl[sock[l]]
  <2> SUFFICES ASSUME NEW l \in Fds \ {k}, sock[l] # None PROVE ttl'[sock[l]] = ttl[sock[l]]
    OBVIOUS
  <2>1. sock[l] = userTimer[l] /\ timerFd[sock[l]] = l /\ timerFd[userTimer[k]] = k
    BY DEF TimersInv, OwnerInv
  <2>2. sock[l] # userTimer[k] /\ sock[l] \in Clients
    BY <2>1 DEF TypeInv, NetTypes
  <2> QED
    BY <1>1, <2>2
<1>5. Held'
  BY <1>2, <1>3, <1>4 DEF CalmParts, Held
<1>6. \A m \in Fds : Busy(m) => sock'[m] = sock[m]
  BY <1>3
<1>7. AskedMine'
  <2>1. \A w \in Workers : worker[w].at = "reply" => Busy(worker[w].task) /\ worker[w].task \in Fds
    BY DEF Busy, TypeInv, WorkTypes
  <2> QED
    BY <1>6, <2>1 DEF CalmParts, AskedMine
<1>8. Found => Found'
  <2>1. epoll'[k] # "off"
    BY <1>1 DEF TypeInv, NetTypes
  <2> QED
    BY <1>2, <1>3, <2>1, FoundStays
<1> QED
  BY <1>2, <1>5, <1>6, <1>7, <1>8

(* A descriptor the loop has handled and adjusted the timer of: it may     *)
(* have become busy, if it was left disarmed.                              *)
LEMMA AdjustCalm ==
  ASSUME TypeInv, TimersInv, CalmParts, NEW k \in Fds, Timed(k), AdjustTimer(k),
         ~Busy(k), epoll[k] = "off", sock[k] # None,
         UNCHANGED <<setting, sock>>, ~InBatch(k)',
         \A l \in Fds \ {k} : /\ InBatch(l)' <=> InBatch(l)
                              /\ timerFlag[l] # 1 /\ epoll'[l] = epoll[l]
                              /\ Busy(l)' <=> Busy(l),
         Busy(k)' => epoll'[k] = "off",
         \A l \in Fds : timerFlag'[l] # 1
  PROVE  Held' /\ (Found /\ (Busy(k)' \/ epoll'[k] # "off") => Found')
<1>1. sock[k] = userTimer[k] /\ sock[k] \in Clients
  BY DEF TimersInv, OwnerInv, TypeInv, NetTypes
<1>2. ttl' = [ttl EXCEPT ![sock[k]] = Lifetime] /\ ttl \in [Clients -> 0..Lifetime]
  BY <1>1 DEF AdjustTimer, TypeInv, TimerTypes
<1>3. ttl'[sock[k]] = Lifetime
  BY <1>1, <1>2
<1>4. \A l \in Fds : sock[l] # None /\ ttl[sock[l]] = Lifetime => ttl'[sock[l]] = Lifetime
  BY <1>1, <1>2 DEF TypeInv, NetTypes
<1>5. Held'
  <2> SUFFICES ASSUME NEW l \in Fds
               PROVE  /\ (Busy(l) \/ InBatch(l) => epoll[l] = "off" /\ sock[l] # None)'
                      /\ (Busy(l) => ~InBatch(l) /\ ttl[sock[l]] = Lifetime)'
                      /\ (timerFlag[l] = 1 => Spinning(l) /\ ~Busy(l))'
    BY DEF Held
  <2>1. CASE l = k
    BY <1>3, <2>1
  <2>2. CASE l # k
    BY <1>4, <2>2 DEF CalmParts, Held
  <2> QED
    BY <2>1, <2>2
<1>6. Found /\ (Busy(k)' \/ epoll'[k] # "off") => Found'
  BY FoundStays
<1> QED
  BY <1>5, <1>6

(* append() on a queue that does not hold k.                               *)
LEMMA AppendAlone ==
  ASSUME WorkTypes, Alone, NEW k \in Fds, ~Busy(k), AppendJob(k), worker' = worker
  PROVE  /\ Alone'
         /\ \A l : l # k => (Busy(l)' <=> Busy(l))
         /\ ~QueueFull => Busy(k)'
<1>1. CASE QueueFull
  BY <1>1, SameBusy DEF AppendJob
<1>2. CASE ~QueueFull
  <2> DEFINE n == Len(queue)
  <2>1. /\ queue' \in Seq(Fds) /\ n \in Nat /\ Len(queue') = n + 1
        /\ \A i \in 1..n : queue'[i] = queue[i]
        /\ queue'[n + 1] = k
    BY <1>2, AppendProperties, LenProperties DEF AppendJob, WorkTypes
  <2> HIDE DEF n
  <2>2. \A i \in 1..(n + 1) : i = n + 1 \/ i \in 1..n
    BY <2>1
  <2>3. Queued' = Queued \union {k}
    <3>1. Queued = {queue[i] : i \in 1..n} /\ Queued' = {queue'[i] : i \in 1..(n + 1)}
      BY <2>1 DEF Queued, n
    <3>2. ASSUME NEW x \in Queued' PROVE x \in Queued \union {k}
      BY <2>1, <2>2, <3>1
    <3>3. ASSUME NEW x \in Queued \union {k} PROVE x \in Queued'
      <4>1. n + 1 \in 1..(n + 1) /\ \A i \in 1..n : i \in 1..(n + 1)
        BY <2>1
      <4> QED
        BY <2>1, <3>1, <4>1
    <3> QED
      BY <3>2, <3>3
  <2>4. Distinct(queue)'
    <3>1. \A i \in 1..n : queue[i] # k
      BY DEF Busy, Queued, n
    <3>2. \A i, j \in 1..n : queue[i] = queue[j] => i = j
      BY DEF Alone, Distinct, n
    <3> QED
      BY <2>1, <2>2, <3>1, <3>2 DEF Distinct
  <2>5. Alone'
    BY <2>3, <2>4 DEF Alone, Busy
  <2>6. \A l : Busy(l)' <=> Busy(l) \/ l = k
    BY <2>3 DEF Busy
  <2> QED
    BY <2>5, <2>6
<1> QED
  BY <1>1, <1>2

(* A queue with room for every descriptor takes one it does not hold.      *)
LEMMA RoomForOne ==
  ASSUME TypeInv, Alone, Room, NEW k \in Fds, ~Busy(k)
  PROVE  ~QueueFull
<1> DEFINE n == Len(queue)
           f == [i \in 1..n |-> queue[i]]
           rest == Fds \ {k}
<1>1. n \in Nat /\ \A i \in 1..n : queue[i] \in rest
  BY ElementOfSeq, LenProperties DEF TypeInv, WorkTypes, Busy, Queued
<1>2. \A i, j \in 1..n : queue[i] = queue[j] => i = j
  BY DEF Alone, Distinct
<1>3. IsFiniteSet(Fds) /\ IsFiniteSet(rest) /\ Cardinality(rest) = Cardinality(Fds) - 1
  BY WebAssumption, FS_RemoveElement
<1> HIDE DEF n, rest
<1>4. f \in Injection(1..n, rest)
  BY <1>1, <1>2 DEF Injection, IsInjective
<1> HIDE DEF f
<1>5. Cardinality(1..n) <= Cardinality(rest)
  BY <1>3, <1>4, FS_Injection
<1>6. Cardinality(1..n) = n
  BY <1>1, FS_Interval
<1>7. Cardinality(Fds) \in Nat /\ setting.maxRequests \in Nat
  BY <1>3, FS_CardinalityType, WebAssumption DEF TypeInv, LoopTypes
<1>8. n < setting.maxRequests
  BY <1>1, <1>3, <1>5, <1>6, <1>7 DEF Room
<1> QED
  BY <1>1, <1>7, <1>8 DEF QueueFull, n

(* The descriptor of an event the loop takes.                              *)
LEMMA TakenCalm ==
  ASSUME TypeInv, TimersInv, CalmParts, NEW k \in Fds, NEW kind,
         Handling([fd |-> k, kind |-> kind])
  PROVE  /\ Timed(k) /\ ~Busy(k) /\ epoll[k] = "off" /\ sock[k] # None /\ mpc = "batch"
         /\ ~InBatch(k)' /\ \A l \in Fds \ {k} : InBatch(l)' <=> InBatch(l)
         /\ \A l \in Fds : timerFlag[l] # 1
<1>1. InBatch(k) /\ mpc = "batch"
  BY DEF Handling, InBatch
<1>2. ~InBatch(k)' /\ Timed(k)
  BY TakenBatch
<1>3. \A l \in Fds \ {k} : InBatch(l)' <=> InBatch(l)
  BY DEF Handling, InBatch
<1> QED
  BY <1>1, <1>2, <1>3 DEF CalmParts, Held, Spinning

LEMMA AcceptCalm ==
  ASSUME TypeInv, TimersInv, CalmParts, Accept, mpc \notin {"spin", "seen"},
         UNCHANGED <<setting, worker, queue, got>>,
         \A l \in Fds : InBatch(l)' <=> InBatch(l)
  PROVE  CalmParts' /\ (Found => Found') /\ \A m \in Fds : Busy(m) => sock'[m] = sock[m]
<1>1. PICK c \in Clients : Early(c) /\ CreateTimerForUser(c, Lowest(FreeFds))
  BY DEF Accept, Backlog, Early
<1>2. PICK k \in Fds : k = Lowest(FreeFds) /\ sock[k] = None
  BY LowestFree DEF Accept, FreeFds
<1>3. /\ sock' = [sock EXCEPT ![k] = c] /\ epoll' = [epoll EXCEPT ![k] = "in"]
      /\ conn' = [conn EXCEPT ![k] = [Reset(conn[k]) EXCEPT !.live = TRUE]]
      /\ timerFlag' = [timerFlag EXCEPT ![k] = 0] /\ ttl' = [ttl EXCEPT ![c] = Lifetime]
  BY <1>1, <1>2 DEF CreateTimerForUser
<1>4. ~Busy(k) /\ ~InBatch(k)
  BY <1>2 DEF CalmParts, Held
<1>5. /\ \A l \in Fds \ {k} : /\ sock'[l] = sock[l] /\ epoll'[l] = epoll[l]
                              /\ conn'[l] = conn[l]
      /\ epoll'[k] = "in"
      /\ \A l \in Fds : timerFlag[l] # 1 /\ timerFlag'[l] # 1
  BY <1>3 DEF CalmParts, Held, Spinning, TypeInv, NetTypes, ConnTypes
<1>6. \A l \in Fds \ {k} : sock[l] # None => ttl'[sock[l]] = ttl[sock[l]]
  <2> SUFFICES ASSUME NEW l \in Fds, sock[l] # None PROVE ttl'[sock[l]] = ttl[sock[l]]
    OBVIOUS
  <2>1. sock[l] \in Clients /\ sock[l] # c
    BY <1>1 DEF TimersInv, OwnerInv, Timed, TypeInv, NetTypes
  <2> QED
    BY <1>3, <2>1 DEF TypeInv, TimerTypes
<1>7. Steady' /\ Alone' /\ \A l : Busy(l)' <=> Busy(l)
  BY SameBusy DEF CalmParts
<1>8. Held'
  BY <1>4, <1>5, <1>6, <1>7 DEF CalmParts, Held
<1>9. \A m \in Fds : Busy(m) => sock'[m] = sock[m]
  BY <1>4, <1>5
<1>10. ConnMine'
  <2>1. conn'[k].from = {} /\ conn'[k].resp = {}
    BY <1>3 DEF Reset, TypeInv, ConnTypes, ConnType
  <2> QED
    BY <1>5, <2>1 DEF CalmParts, ConnMine
<1>11. AskedMine' /\ GotMine'
  <2>1. \A w \in Workers : worker[w].at = "reply" => Busy(worker[w].task) /\ worker[w].task \in Fds
    BY DEF Busy, TypeInv, WorkTypes
  <2> QED
    BY <1>9, <2>1 DEF CalmParts, AskedMine, GotMine
<1>12. Found => Found'
  BY <1>5, <1>7 DEF Found
<1> QED
  BY <1>7, <1>8, <1>9, <1>10, <1>11, <1>12 DEF CalmParts

LEMMA HandlerCalm ==
  ASSUME TypeInv, TimersInv, Paired, CalmParts, TimerHandler, batch = {}, batch' = batch,
         mpc \notin {"spin", "seen"},
         UNCHANGED <<setting, worker, queue, conn, got, timerFlag>>
  PROVE  CalmParts' /\ (Found => Found') /\ \A m \in Fds : Busy(m) => sock'[m] = sock[m]
<1> DEFINE closing == {timerFd[t] : t \in Expired}
<1>1. /\ sock' = [k \in Fds |-> IF k \in closing THEN None ELSE sock[k]]
      /\ epoll' = [k \in Fds |-> IF k \in closing THEN "none" ELSE epoll[k]]
      /\ ttl' = [c \in Clients |-> IF c \in Expired THEN 0 ELSE ttl[c]]
  BY DEF TimerHandler, Deleted
<1>2. Steady' /\ Alone' /\ \A l : Busy(l)' <=> Busy(l)
  BY SameBusy DEF CalmParts
<1>3. \A k \in Fds : timerFlag[k] # 1 /\ ~InBatch(k) /\ ~InBatch(k)'
  BY DEF CalmParts, Held, Spinning, InBatch
<1>4. \A m \in Fds : Busy(m) => /\ sock[m] \notin Expired /\ sock[m] \in Clients
                                /\ m \notin closing
  <2> SUFFICES ASSUME NEW m \in Fds, Busy(m)
               PROVE  sock[m] \notin Expired /\ sock[m] \in Clients /\ m \notin closing
    OBVIOUS
  <2>1. sock[m] # None /\ ttl[sock[m]] = Lifetime /\ Lifetime # 0
    BY WebAssumption DEF CalmParts, Held
  <2>2. \A t \in Expired : ttl[t] = 0 /\ sock[timerFd[t]] = t
    BY DEF Expired, Paired
  <2> QED
    BY <2>1, <2>2 DEF TypeInv, NetTypes
<1> HIDE DEF closing
<1>5. \A m \in Fds : Busy(m) => sock'[m] = sock[m] /\ epoll'[m] = epoll[m]
                                /\ ttl'[sock[m]] = ttl[sock[m]]
  BY <1>1, <1>4
<1>6. Held'
  BY <1>2, <1>3, <1>5 DEF CalmParts, Held
<1>7. ConnMine' /\ GotMine'
  BY <1>1 DEF CalmParts, ConnMine, GotMine
<1>8. AskedMine'
  <2>1. \A w \in Workers : worker[w].at = "reply" => Busy(worker[w].task) /\ worker[w].task \in Fds
    BY DEF Busy, TypeInv, WorkTypes
  <2> QED
    BY <1>5, <2>1 DEF CalmParts, AskedMine
<1>9. Found => Found'
  BY <1>1, <1>2, <1>3 DEF Found
<1> QED
  BY <1>2, <1>5, <1>6, <1>7, <1>8, <1>9 DEF CalmParts

LEMMA WaitCalm ==
  ASSUME TypeInv, TimersInv, CalmParts, EpollWait, UNCHANGED <<setting, worker>>
  PROVE  CalmParts' /\ (Found => Found')
<1>1. /\ UNCHANGED <<sock, conn, got, queue, timerFlag, ttl>>
      /\ batch' = Ready /\ epoll' = OneShot(Ready) /\ mpc = "wait"
  BY DEF EpollWait, connVars, timerVars
<1>2. \A k \in Fds : timerFlag[k] # 1
  BY <1>1 DEF CalmParts, Held, Spinning
<1>3. \A k \in Fds : /\ InBatch(k)' => epoll[k] \in {"in", "out"} /\ epoll'[k] = "off"
                     /\ ~InBatch(k)' => epoll'[k] = epoll[k]
  BY <1>1, ReadyFacts DEF OneShot, InBatch
<1>4. \A k \in Fds : InBatch(k)' => ~Busy(k) /\ sock[k] # None
  BY <1>3 DEF CalmParts, Held, TimersInv, OwnerInv
<1>5. CalmParts'
  BY <1>1, <1>2, <1>3, <1>4, CalmFrame
<1>6. Found => Found'
  <2>1. \A k \in Fds : ~InBatch(k)
    BY <1>1 DEF TimersInv, BatchInv, InBatch
  <2> QED
    BY <1>1, <1>2, <1>3, <2>1, SameBusy DEF Found
<1> QED
  BY <1>5, <1>6

LEMMA MainCalm ==
  ASSUME AllInv, Calm, CalmParts, MainStep
  PROVE  CalmParts' /\ (Room /\ Found => Found') /\ \A m \in Fds : Busy(m) => sock'[m] = sock[m]
<1> DEFINE Goal == /\ CalmParts' /\ (Room /\ Found => Found')
                   /\ \A m \in Fds : Busy(m) => sock'[m] = sock[m]
<1>0. /\ TypeInv /\ TimersInv /\ NetTypes /\ ConnTypes /\ WorkTypes /\ Attached /\ Paired
      /\ UNCHANGED <<setting, worker>>
  BY DEF AllInv, TypeInv, MatchInv, Calm, MainStep
<1>1. CASE EpollWait
  BY <1>0, <1>1, WaitCalm DEF EpollWait
<1>2. CASE DealClientData
  <2>1. /\ UNCHANGED <<got, queue>> /\ mpc \notin {"spin", "seen"}
        /\ \A l \in Fds : InBatch(l)' <=> InBatch(l)
    <3>1. UNCHANGED <<got, queue>> /\ mpc \notin {"spin", "seen"}
      BY <1>2 DEF DealClientData, Handling
    <3>2. batch' = batch \/ batch' = batch \ {Listen}
      BY <1>2 DEF DealClientData, Handling
    <3>3. Listen.fd \notin Fds
      BY WebAssumption DEF Listen
    <3> QED
      BY <3>1, <3>2, <3>3 DEF InBatch
  <2>2. CASE Accept
    BY <1>0, <2>1, <2>2, AcceptCalm
  <2>3. CASE AcceptFails
    <3>1. UNCHANGED <<sock, epoll, conn, ttl, timerFlag>>
      BY <2>3 DEF AcceptFails, kernelVars, timerVars
    <3>2. CalmParts'
      BY <1>0, <2>1, <3>1, CalmFrame DEF CalmParts, Held, Spinning
    <3>3. Found => Found'
      BY <1>0, <2>1, <3>1, SameBusy DEF Found
    <3> QED
      BY <3>1, <3>2, <3>3
  <2> QED
    BY <1>2, <2>2, <2>3 DEF DealClientData
<1>3. CASE DealSysSignal
  <2>1. UNCHANGED <<got, queue, sock, epoll, conn, ttl, timerFlag, mpc, mfd>> /\ batch' = batch \ {Signal}
    BY <1>3 DEF DealSysSignal, Handling, clientVars, kernelVars, connVars, timerVars
  <2>2. Signal.fd \notin Fds
    BY WebAssumption DEF Signal
  <2>3. \A l \in Fds : InBatch(l)' <=> InBatch(l)
    BY <2>1, <2>2 DEF InBatch
  <2>4. CalmParts'
    BY <1>0, <2>1, <2>3, CalmFrame DEF CalmParts, Held, Spinning
  <2>5. Found => Found'
    BY <1>0, <2>1, <2>3, SameBusy DEF Found
  <2> QED
    BY <2>1, <2>4, <2>5
<1>4. ASSUME NEW k \in Fds, NEW kind, Handling([fd |-> k, kind |-> kind]), RemoveTimer(k),
             queue' = queue, timerFlag' = timerFlag, ConnMine', GotMine'
      PROVE  Goal
  <2>1. /\ Timed(k) /\ ~Busy(k) /\ ~InBatch(k)'
        /\ \A l \in Fds \ {k} : InBatch(l)' <=> InBatch(l)
        /\ \A l \in Fds : timerFlag[l] # 1
    BY <1>0, <1>4, TakenCalm
  <2> QED
    BY <1>0, <1>4, <2>1, RemoveCalm DEF CalmParts
<1>5. ASSUME NEW k \in Fds, Hangup(k) PROVE Goal
  <2>1. UNCHANGED <<got, conn, queue, timerFlag>>
    BY <1>5 DEF Hangup, connVars
  <2>2. \A l \in Fds : sock'[l] = sock[l] \/ sock'[l] = None
    BY <1>0, <1>5 DEF Hangup, RemoveTimer, CloseUserFd, CloseFd, NetTypes
  <2>3. ConnMine' /\ GotMine'
    BY <2>1, <2>2 DEF CalmParts, ConnMine, GotMine
  <2> QED
    BY <1>4, <1>5, <2>1, <2>3 DEF Hangup
<1>6. ASSUME NEW k \in Fds, NEW kind, Handling([fd |-> k, kind |-> kind]), AdjustTimer(k),
             sock' = sock, timerFlag' = timerFlag, ConnMine', GotMine',
             \A l \in Fds \ {k} : epoll'[l] = epoll[l],
             \/ AppendJob(k) /\ epoll' = epoll /\ (Room => ~QueueFull)
             \/ queue' = queue /\ epoll'[k] # "off"
      PROVE  Goal
  <2>1. /\ Timed(k) /\ ~Busy(k) /\ ~InBatch(k)' /\ epoll[k] = "off" /\ sock[k] # None
        /\ \A l \in Fds \ {k} : InBatch(l)' <=> InBatch(l)
        /\ \A l \in Fds : timerFlag[l] # 1
    BY <1>0, <1>6, TakenCalm
  <2>2. /\ Alone' /\ \A l : l # k => (Busy(l)' <=> Busy(l))
        /\ Busy(k)' => epoll'[k] = "off"
        /\ Room => Busy(k)' \/ epoll'[k] # "off"
    <3>1. CASE AppendJob(k) /\ epoll' = epoll /\ (Room => ~QueueFull)
      BY <1>0, <2>1, <3>1, AppendAlone DEF CalmParts
    <3>2. CASE queue' = queue /\ epoll'[k] # "off"
      BY <1>0, <2>1, <3>2, SameBusy DEF CalmParts
    <3> QED
      BY <1>6, <3>1, <3>2
  <2>3. Held' /\ (Found /\ (Busy(k)' \/ epoll'[k] # "off") => Found')
    BY <1>0, <1>6, <2>1, <2>2, AdjustCalm
  <2>4. Steady' /\ AskedMine'
    BY <1>0, <1>6 DEF CalmParts, Steady, AskedMine
  <2> QED
    BY <1>6, <2>2, <2>3, <2>4 DEF CalmParts
<1>7. ASSUME NEW k \in Fds, NEW kind, NEW state \in {0, 1}, HandOver(k, kind, state) PROVE Goal
  <2>1. /\ UNCHANGED <<got, sock, epoll, timerFlag>> /\ AppendJob(k) /\ mpc = "batch"
        /\ setting.mode = "reactor"
    BY <1>7 DEF HandOver, Handling, clientVars, kernelVars
  <2>2. queue = << >> /\ setting.maxRequests \in Nat \ {0}
    BY <2>1, WebAssumption DEF AllInv, HandInv, Shapes, OnePlace, Quiet
  <2>3. ~QueueFull
    BY <2>2 DEF QueueFull
  <2>4. ConnMine' /\ GotMine'
    <3>1. \A l \in Fds : conn'[l].from = conn[l].from /\ conn'[l].resp = conn[l].resp
      BY <1>0, <1>7 DEF HandOver, ConnTypes, ConnType
    <3> QED
      BY <2>1, <3>1 DEF CalmParts, ConnMine, GotMine
  <2> QED
    BY <1>6, <1>7, <2>1, <2>3, <2>4 DEF HandOver
<1>8. ASSUME NEW k \in Fds, ReadHere(k) PROVE Goal
  <2>1. UNCHANGED <<got, timerFlag>> /\ Handling([fd |-> k, kind |-> "in"])
    BY <1>8 DEF ReadHere
  <2>2. CASE ReadOnceOk(k) /\ AppendJob(k) /\ AdjustTimer(k) /\ UNCHANGED <<kernelVars, userCount>>
    <3>1. ConnMine' /\ GotMine' /\ UNCHANGED <<sock, epoll>>
      BY <1>0, <2>1, <2>2, ReadMine DEF CalmParts, GotMine, kernelVars
    <3>2. ~Busy(k)
      BY <1>0, <2>1, TakenCalm
    <3>3. Room => ~QueueFull
      BY <1>0, <3>2, RoomForOne DEF CalmParts
    <3> QED
      BY <1>6, <2>1, <2>2, <3>1, <3>3
  <2>3. CASE RemoveTimer(k) /\ UNCHANGED <<conn, queue>>
    <3>1. \A l \in Fds : sock'[l] = sock[l] \/ sock'[l] = None
      BY <1>0, <2>3 DEF RemoveTimer, CloseUserFd, CloseFd, NetTypes
    <3>2. ConnMine' /\ GotMine'
      BY <2>1, <2>3, <3>1 DEF CalmParts, ConnMine, GotMine
    <3> QED
      BY <1>4, <2>1, <2>3, <3>2
  <2> QED
    BY <1>8, <2>2, <2>3 DEF ReadHere
<1>9. ASSUME NEW k \in Fds, WriteHere(k) PROVE Goal
  <2>1. UNCHANGED <<queue, timerFlag>> /\ Handling([fd |-> k, kind |-> "out"])
    BY <1>9 DEF WriteHere
  <2>2. PICK outcome \in Outcomes :
          /\ WriteOnce(k, outcome)
          /\ \/ /\ Returns(outcome) /\ AdjustTimer(k) /\ sock' = sock
                /\ epoll' = ReArm(k, outcome)
             \/ RemoveTimer(k)
    BY <1>9 DEF WriteHere
  <2>3. \A l \in Fds : sock'[l] = sock[l] \/ sock'[l] = None
    BY <1>0, <2>2 DEF RemoveTimer, CloseUserFd, CloseFd, NetTypes
  <2>4. ConnMine' /\ GotMine'
    BY <1>0, <2>2, <2>3, WriteMine DEF CalmParts
  <2>5. CASE Returns(outcome) /\ AdjustTimer(k) /\ sock' = sock /\ epoll' = ReArm(k, outcome)
    <3>1. sock[k] # None
      BY <1>0, <2>1, TakenCalm
    <3>2. epoll'[k] # "off" /\ \A l \in Fds \ {k} : epoll'[l] = epoll[l]
      BY <1>0, <2>5, <3>1, ReArmOff
    <3> QED
      BY <1>6, <2>1, <2>4, <2>5, <3>2
  <2>6. CASE RemoveTimer(k)
    BY <1>4, <2>1, <2>4, <2>6
  <2> QED
    BY <2>2, <2>5, <2>6
<1>10. CASE SeeImprov
  <2>1. /\ UNCHANGED <<got, queue, sock, epoll, conn, ttl, timerFlag, mfd, batch>>
        /\ mpc = "spin" /\ mpc' = "seen"
    BY <1>10 DEF SeeImprov, clientVars, kernelVars, connVars, timerVars
  <2>2. CalmParts'
    BY <1>0, <2>1, CalmFrame DEF CalmParts, Held, Spinning, InBatch
  <2>3. Found => Found'
    BY <1>0, <2>1, SameBusy DEF Found, InBatch
  <2> QED
    BY <2>1, <2>2, <2>3
<1>11. CASE EndSpin
  <2>1. /\ UNCHANGED <<got, conn, queue, batch>> /\ mfd \in Fds /\ mpc = "seen"
        /\ timerFlag' = [timerFlag EXCEPT ![mfd] = 0]
        /\ Timed(mfd) /\ ~InBatch(mfd)
    BY <1>0, <1>11 DEF EndSpin, TypeInv, LoopTypes, TimersInv, BatchInv
  <2>2. /\ \A l \in Fds \ {mfd} : timerFlag[l] # 1
        /\ \A l \in Fds : timerFlag'[l] # 1
    BY <1>0, <2>1 DEF CalmParts, Held, Spinning, ConnTypes
  <2>3. CASE timerFlag[mfd] = 1 /\ RemoveTimer(mfd)
    <3>1. PICK k \in Fds : k = mfd
      BY <2>1
    <3>2. RemoveTimer(k) /\ Timed(k) /\ ~InBatch(k)' /\ ~Busy(k)
          /\ \A l \in Fds \ {k} : (InBatch(l)' <=> InBatch(l)) /\ timerFlag[l] # 1
      BY <2>1, <2>2, <2>3, <3>1 DEF CalmParts, Held, InBatch
    <3>3. /\ Steady' /\ Alone' /\ Held' /\ AskedMine' /\ (Found => Found')
          /\ \A m \in Fds : Busy(m) => sock'[m] = sock[m]
      BY <1>0, <2>1, <2>2, <3>2, RemoveCalm
    <3>4. \A l \in Fds : sock'[l] = sock[l] \/ sock'[l] = None
      BY <1>0, <3>2 DEF RemoveTimer, CloseUserFd, CloseFd, NetTypes
    <3>5. ConnMine' /\ GotMine'
      BY <2>1, <3>4 DEF CalmParts, ConnMine, GotMine
    <3> QED
      BY <3>3, <3>5 DEF CalmParts
  <2>4. CASE timerFlag[mfd] = 0 /\ UNCHANGED <<client, kernelVars, userCount, timerVars, status>>
    <3>1. UNCHANGED <<sock, epoll, ttl>>
      BY <2>4 DEF kernelVars, timerVars
    <3>2. CalmParts'
      BY <1>0, <2>1, <2>2, <3>1, CalmFrame DEF CalmParts, Held, InBatch
    <3>3. Found => Found'
      BY <1>0, <2>1, <2>2, <2>4, <3>1, SameBusy DEF Found, InBatch
    <3> QED
      BY <3>1, <3>2, <3>3
  <2> QED
    BY <1>11, <2>3, <2>4 DEF EndSpin
<1>12. CASE EndBatch
  <2>1. /\ UNCHANGED <<got, conn, queue, timerFlag, batch>> /\ batch = {} /\ mpc = "batch"
        /\ mpc \notin {"spin", "seen"} /\ mpc' = "wait"
    BY <1>12 DEF EndBatch, connVars
  <2>2. CASE TimerHandler
    BY <1>0, <2>1, <2>2, HandlerCalm
  <2>3. CASE UNCHANGED <<client, kernelVars, userCount, timerVars, alarm, timeout>>
    <3>1. UNCHANGED <<sock, epoll, ttl>>
      BY <2>3 DEF kernelVars, timerVars
    <3>2. CalmParts'
      BY <1>0, <2>1, <3>1, CalmFrame DEF CalmParts, Held, Spinning, InBatch
    <3>3. Found => Found'
      BY <1>0, <2>1, <3>1, SameBusy DEF Found, InBatch
    <3> QED
      BY <3>1, <3>2, <3>3
  <2> QED
    BY <1>12, <2>2, <2>3 DEF EndBatch
<1> QED
  BY <1>1, <1>2, <1>3, <1>5, <1>7, <1>8, <1>9, <1>10, <1>11, <1>12 DEF MainStep

LEMMA OtherCalm ==
  ASSUME AllInv, Calm, CalmParts, ClientStep \/ Clock \/ Terminate \/ UNCHANGED vars
  PROVE  CalmParts' /\ (Found => Found') /\ \A m \in Fds : Busy(m) => sock'[m] = sock[m]
<1>1. UNCHANGED <<setting, worker, queue, sock, epoll, conn, got, batch, timerFlag, mpc, mfd>>
  <2>1. CASE ClientStep
    BY <2>1 DEF ClientStep, Connect, Send, Leave, kernelVars, connVars, mainVars
  <2>2. CASE Clock \/ Terminate \/ UNCHANGED vars
    BY <2>2 DEF Clock, Terminate, vars, clientVars, kernelVars, connVars, mainVars
  <2> QED
    BY <2>1, <2>2
<1>2. \A m \in Fds : Busy(m) => ttl'[sock[m]] = ttl[sock[m]]
  <2>1. CASE Clock
    <3>1. AllIdle
      BY <2>1 DEF Clock, Calm
    <3>2. \A m : ~Busy(m)
      BY <3>1 DEF AllIdle, Busy, Queued
    <3> QED
      BY <3>2
  <2>2. CASE ClientStep \/ Terminate \/ UNCHANGED vars
    BY <2>2 DEF ClientStep, Terminate, vars, timerVars
  <2> QED
    BY <2>1, <2>2
<1>3. CalmParts'
  BY <1>1, <1>2, CalmFrame DEF CalmParts, Held, Spinning, InBatch
<1>4. Found => Found'
  BY <1>1, SameBusy DEF Found, InBatch
<1> QED
  BY <1>1, <1>3, <1>4

LEMMA CalmInit == Init => CalmInv /\ FoundInv
<1> SUFFICES ASSUME Init PROVE CalmParts /\ Found
  BY DEF CalmInv, FoundInv, CalmParts
<1>1. \A k : ~Busy(k)
  BY DEF Init, Busy, Queued, Idle
<1>2. Steady /\ Alone /\ AskedMine
  BY DEF Init, Steady, Alone, AskedMine, Idle, Distinct
<1>3. Held /\ ConnMine /\ GotMine /\ Found
  BY <1>1 DEF Init, Held, ConnMine, GotMine, Found, InBatch
<1> QED
  BY <1>2, <1>3 DEF CalmParts

LEMMA CalmStep ==
  ASSUME AllInv, Calm, CalmParts, [Next]_vars
  PROVE  CalmParts' /\ (Room /\ Found => Found') /\ \A m \in Fds : Busy(m) => sock'[m] = sock[m]
BY WorkerSteps, MainCalm, OtherCalm DEF Next

LEMMA SettingStays == [Next]_vars => setting' = setting
BY DEF Next, ClientStep, MainStep, WorkerStep, Clock, Terminate, vars

LEMMA CalmAlways == Spec => [](AllInv /\ CalmInv /\ FoundInv)
<1>1. Init => AllInv /\ CalmInv /\ FoundInv
  BY TypesInit, HandInit, TimersInit, MatchInit, CalmInit DEF AllInv
<1>2. AllInv /\ CalmInv /\ FoundInv /\ [Next]_vars => (AllInv /\ CalmInv /\ FoundInv)'
  <2> SUFFICES ASSUME AllInv, CalmInv, FoundInv, [Next]_vars
               PROVE  (AllInv /\ CalmInv /\ FoundInv)'
    OBVIOUS
  <2>1. AllInv'
    BY TimersStep, MatchStep, WorkerKeeps, MainKeeps, OthersKeep DEF AllInv, Next
  <2>2. (Calm' <=> Calm) /\ (Room' <=> Room)
    BY SettingStays DEF Calm, Room
  <2>3. CalmInv' /\ FoundInv'
    BY <2>2, CalmStep DEF CalmInv, FoundInv, CalmParts
  <2> QED
    BY <2>1, <2>3
<1> QED
  BY <1>1, <1>2, PTL DEF Spec

(* In a calm setting at most one worker is at a connection object.         *)
THEOREM OneWorkerAtATime == Spec => []OneWorker
<1>1. AllInv /\ CalmInv => OneWorker
  <2> SUFFICES ASSUME CalmParts, NEW k \in Fds PROVE Cardinality(Working(k)) <= 1
    BY DEF CalmInv, CalmParts, OneWorker
  <2>1. \A v, w \in Working(k) : v = w
    BY DEF CalmParts, Alone, Working
  <2>2. CASE Working(k) = {}
    BY <2>2, FS_EmptySet
  <2>3. CASE Working(k) # {}
    <3>1. PICK w : Working(k) = {w}
      BY <2>1, <2>3
    <3> QED
      BY <3>1, FS_Singleton
  <2> QED
    BY <2>2, <2>3
<1> QED
  BY <1>1, CalmAlways, PTL

(* In a calm setting a client is only sent answers to what it asked        *)
(* itself, however often its descriptor was used before.                   *)
THEOREM AnswersAreOwn == Spec => []OwnAnswers
<1>1. AllInv /\ CalmInv => OwnAnswers
  BY DEF CalmInv, CalmParts, GotMine, OwnAnswers
<1> QED
  BY <1>1, CalmAlways, PTL

(* In a calm setting, with a queue that has room for every descriptor, a   *)
(* connection that epoll will not report is in somebody's hands.           *)
THEOREM NothingForgotten == Spec => []NobodyForgotten
<1>1. AllInv /\ CalmInv /\ FoundInv => NobodyForgotten
  <2> SUFFICES ASSUME AllInv, CalmParts, Found, NEW k \in Fds, epoll[k] = "off"
               PROVE  \/ \E e \in batch : e.fd = k
                      \/ k \in Queued
                      \/ Working(k) # {}
                      \/ Spinning(k)
    BY DEF CalmInv, CalmParts, FoundInv, Room, NobodyForgotten
  <2> QED
    BY DEF Found, InBatch, Busy, Working, CalmParts, Held
<1> QED
  BY <1>1, CalmAlways, PTL

(* In a calm setting nothing closes or reuses a descriptor while a worker  *)
(* is at it.                                                               *)
THEOREM WorkersKeepTheirDescriptor == Spec => NotUnderWorker
<1>1. AllInv /\ CalmInv /\ [Next]_vars =>
        [\A w \in Workers :
           (Calm /\ worker[w].at \in {"read", "write", "process", "reply", "arm"}) =>
             sock'[worker[w].task] = sock[worker[w].task]]_vars
  <2> SUFFICES ASSUME AllInv, CalmParts, Calm, [Next]_vars, NEW w \in Workers,
                      worker[w].at \in {"read", "write", "process", "reply", "arm"}
               PROVE  sock'[worker[w].task] = sock[worker[w].task]
    BY DEF CalmInv, CalmParts
  <2>1. Busy(worker[w].task) /\ worker[w].task \in Fds
    BY DEF Busy, AllInv, TypeInv, WorkTypes
  <2> QED
    BY <2>1, CalmStep
<1> QED
  BY <1>1, CalmAlways, PTL DEF Spec, NotUnderWorker
=============================================================================
