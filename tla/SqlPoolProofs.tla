--------------------------- MODULE SqlPoolProofs ---------------------------
(***************************************************************************)
(* Proofs about SqlPool, for every number of workers and connections, with *)
(* waits interrupted or not.                                               *)
(*                                                                         *)
(* The mutex alone keeps connections apart and accounted for: Inv.  With   *)
(* at least as many connections as workers, the test for an empty list can *)
(* then not succeed: the asking worker holds none, so the others hold too  *)
(* few to empty the list.                                                  *)
(***************************************************************************)
EXTENDS SqlPool, FiniteSetTheorems, TLAPS

LockHeld == \A w \in Workers :
  pc[w] \in {"front", "pop", "unlock", "push", "reunlock"} => holder = w

PopOK == \A w \in Workers : pc[w] = "pop" =>
           connList # << >> /\ con[w] = Head(connList)

HandOK == \A w \in Workers : pc[w] \in {"unlock", "relock", "push"} => con[w] # Null

Shared == Len(connList) + Cardinality(Out) = Cardinality(Conns)

Inv == TypeOK /\ LockHeld /\ PopOK /\ HandOK /\ ExclusiveHold /\ Accounted /\ Shared

-----------------------------------------------------------------------------
LEMMA TailFacts ==
  ASSUME NEW S, NEW q \in Seq(S), q # << >>
  PROVE  /\ Tail(q) \in Seq(S)
         /\ Head(q) \in S
         /\ Head(q) = q[1] /\ 1 \in 1..Len(q)
         /\ Len(q) \in Nat /\ Len(q) > 0
         /\ Len(Tail(q)) = Len(q) - 1
         /\ \A i \in 1..Len(Tail(q)) : Tail(q)[i] = q[i + 1] /\ i + 1 \in 1..Len(q)
         /\ \A k \in 1..Len(q) : k = 1 \/ (k - 1 \in 1..Len(Tail(q)) /\ q[k] = Tail(q)[k - 1])
  OBVIOUS

LEMMA AppendFacts ==
  ASSUME NEW S, NEW q \in Seq(S), NEW x \in S
  PROVE  /\ Append(q, x) \in Seq(S)
         /\ Len(q) \in Nat
         /\ Len(Append(q, x)) = Len(q) + 1
         /\ Append(q, x)[Len(q) + 1] = x
         /\ \A i \in 1..Len(q) : Append(q, x)[i] = q[i]
  OBVIOUS

LEMMA OutFinite ==
  TypeOK => /\ IsFiniteSet(Out) /\ Cardinality(Out) \in Nat
            /\ Cardinality(Workers) \in Nat /\ Cardinality(Conns) \in Nat
BY SqlAssumption, FS_Subset, FS_CardinalityType DEF Out

LEMMA InvInit == Init => Inv
<1> SUFFICES ASSUME Init PROVE Inv
  OBVIOUS
<1> USE SqlAssumption DEF Init
<1> DEFINE n == Cardinality(Conns)
<1>1. n \in Nat
  BY FS_CardinalityType
<1>2. /\ connList \in [1..n -> Conns]
      /\ \A i, k \in 1..n : connList[i] = connList[k] => i = k
  BY DEF SetToSeqs
<1> HIDE DEF n
<1>3. connList \in Seq(Conns) /\ Len(connList) = n
  BY <1>1, <1>2
<1>4. Out = {} /\ Cardinality(Out) = 0
  BY FS_EmptySet DEF Out
<1>5. Listed = Conns
  <2>1. connList \in Injection(1..n, Conns)
    BY <1>2 DEF Injection, IsInjective
  <2>2. Cardinality(1..n) = n
    BY <1>1, FS_Interval
  <2>3. connList \in Surjection(1..n, Conns)
    BY <2>1, <2>2, FS_Injection DEF n
  <2> QED
    BY <1>2, <1>3, <2>3 DEF Surjection, Listed
<1>6. TypeOK
  BY <1>1, <1>3 DEF TypeOK, PCs, n
<1>7. ExclusiveHold
  BY <1>2, <1>3, <1>4 DEF ExclusiveHold
<1>8. Accounted /\ Shared
  BY <1>1, <1>3, <1>4, <1>5 DEF Accounted, Shared, n
<1>9. LockHeld /\ PopOK /\ HandOK
  BY DEF LockHeld, PopOK, HandOK
<1> QED
  BY <1>6, <1>7, <1>8, <1>9 DEF Inv

(* Steps that touch neither the list nor who has which connection.         *)
LEMMA QuietStep ==
  ASSUME Inv, TypeOK', UNCHANGED <<connList, counters>>, Out' = Out,
         \A w \in Out : con'[w] = con[w]
  PROVE  ExclusiveHold' /\ Accounted' /\ Shared'
<1>1. {con'[w] : w \in Out} = {con[w] : w \in Out}
  OBVIOUS
<1> QED
  BY <1>1 DEF Inv, ExclusiveHold, Accounted, Shared, Listed, counters

LEMMA InvStep == Inv /\ [Next]_vars => Inv'
<1> SUFFICES ASSUME Inv, [Next]_vars PROVE Inv'
  OBVIOUS
<1> USE SqlAssumption DEF Inv
<1>1. CASE UNCHANGED vars
  BY <1>1 DEF vars, counters, TypeOK, LockHeld, PopOK, HandOK, ExclusiveHold,
              Accounted, Shared, Out, Listed
<1>2. ASSUME NEW w \in Workers, Step(w) PROVE Inv'
  <2> USE DEF Goto, Locked
  <2>1. CASE PopFront(w)
    <3> USE DEF PopFront
    <3>1. /\ connList # << >> /\ con[w] = connList[1] /\ con[w] \in Conns
          /\ connList \in Seq(Conns) /\ con[w] # Null /\ holder = w
      BY <2>1, TailFacts DEF PopOK, TypeOK, LockHeld
    <3>2. w \notin Out /\ Out' = Out \union {w}
      BY <2>1, <3>1 DEF Out, TypeOK
    <3>3. Cardinality(Out') = Cardinality(Out) + 1
      BY <3>2, OutFinite, FS_AddElement
    <3>4. TypeOK' /\ Shared'
      BY <2>1, <3>1, <3>3, TailFacts, OutFinite DEF TypeOK, PCs, Shared, counters
    <3>5. LockHeld' /\ PopOK' /\ HandOK'
      BY <2>1, <3>1 DEF LockHeld, PopOK, HandOK, TypeOK, PCs
    <3>6. /\ \A i \in 1..Len(connList') : /\ connList'[i] = connList[i + 1]
                                          /\ i + 1 \in 1..Len(connList) /\ i + 1 # 1
          /\ \A k \in 1..Len(connList) :
               k = 1 \/ (k - 1 \in 1..Len(connList') /\ connList[k] = connList'[k - 1])
          /\ 1 \in 1..Len(connList)
      BY <2>1, <3>1, TailFacts
    <3>7. con[w] \notin Listed' /\ Listed' \union {con[w]} = Listed
      BY <3>1, <3>6 DEF ExclusiveHold, Listed
    <3>8. \A i, k \in 1..Len(connList') : connList'[i] = connList'[k] => i = k
      BY <3>6 DEF ExclusiveHold
    <3>9. con' = con /\ \A v \in Out : con[v] # con[w] /\ con[v] \notin Listed'
      BY <2>1, <3>1, <3>6, <3>7 DEF ExclusiveHold, Listed
    <3>10. ExclusiveHold'
      BY <3>2, <3>7, <3>8, <3>9 DEF ExclusiveHold
    <3>11. Accounted'
      <4>1. {con'[v] : v \in Out'} = {con[v] : v \in Out} \union {con[w]}
        BY <3>2, <3>9
      <4>2. /\ freeConn' = Len(connList') /\ curConn' = Cardinality(Out')
        BY <2>1, <3>1, <3>3, TailFacts, OutFinite DEF Accounted
      <4> QED
        BY <3>7, <4>1, <4>2 DEF Accounted
    <3> QED
      BY <3>4, <3>5, <3>10, <3>11
  <2>2. CASE PushBack(w)
    <3> USE DEF PushBack
    <3>1. /\ con[w] \in Conns /\ w \in Out /\ connList \in Seq(Conns)
          /\ holder = w
      BY <2>2 DEF HandOK, TypeOK, Out, LockHeld
    <3>2. Out' = Out \ {w} /\ \A v \in Out \ {w} : con'[v] = con[v]
      BY <2>2 DEF Out, TypeOK
    <3>3. Cardinality(Out') = Cardinality(Out) - 1
      BY <3>1, <3>2, OutFinite, FS_RemoveElement
    <3>4. TypeOK' /\ Shared'
      BY <2>2, <3>1, <3>3, AppendFacts, OutFinite DEF TypeOK, PCs, Shared, counters
    <3>5. LockHeld' /\ PopOK' /\ HandOK'
      BY <2>2, <3>1 DEF LockHeld, PopOK, HandOK, TypeOK, PCs
    <3>6. /\ Len(connList) \in Nat /\ Len(connList') = Len(connList) + 1
          /\ connList'[Len(connList')] = con[w]
          /\ \A i \in 1..Len(connList) : connList'[i] = connList[i]
      BY <2>2, <3>1, AppendFacts
    <3>7. Listed' = Listed \union {con[w]} /\ con[w] \notin Listed
      BY <3>1, <3>6 DEF Listed, ExclusiveHold
    <3>8. ExclusiveHold'
      <4>1. \A i, k \in 1..Len(connList') : connList'[i] = connList'[k] => i = k
        BY <3>6, <3>7 DEF ExclusiveHold, Listed
      <4>2. \A v \in Out' : con'[v] \notin Listed'
        BY <3>1, <3>2, <3>7 DEF ExclusiveHold
      <4> QED
        BY <3>2, <4>1, <4>2 DEF ExclusiveHold
    <3>9. Accounted'
      <4>1. {con[v] : v \in Out} = {con'[v] : v \in Out'} \union {con[w]}
        BY <3>1, <3>2
      <4>2. freeConn' = Len(connList') /\ curConn' = Cardinality(Out')
        BY <2>2, <3>3, <3>6, OutFinite DEF Accounted
      <4> QED
        BY <3>7, <4>1, <4>2 DEF Accounted
    <3> QED
      BY <3>4, <3>5, <3>8, <3>9
  <2>3. CASE GetConnection(w)
    <3>1. TypeOK' /\ LockHeld' /\ PopOK' /\ HandOK'
      BY <2>3 DEF GetConnection, counters, TypeOK, PCs, LockHeld, PopOK, HandOK
    <3>2. Out' = Out /\ w \notin Out
      BY <2>3 DEF GetConnection, Out, TypeOK
    <3> QED
      BY <2>3, <3>1, <3>2, QuietStep DEF GetConnection, Out, TypeOK
  <2>4. CASE ReadFront(w)
    <3>1. TypeOK' /\ LockHeld' /\ HandOK'
      BY <2>4, TailFacts DEF ReadFront, counters, TypeOK, PCs, LockHeld, HandOK
    <3>2. PopOK'
      BY <2>4 DEF ReadFront, PopOK, TypeOK
    <3>3. Out' = Out /\ w \notin Out
      BY <2>4 DEF ReadFront, Out, TypeOK
    <3> QED
      BY <2>4, <3>1, <3>2, <3>3, QuietStep DEF ReadFront, Out, TypeOK
  <2>5. CASE ReserveWait(w) \/ WaitInterrupted(w) \/ GetLock(w) \/ FrontOfEmpty(w)
               \/ GetUnlock(w) \/ ReleaseConnection(w) \/ ReleaseLock(w)
               \/ ReleaseUnlock(w) \/ ReservePost(w)
    <3> USE DEF ReserveWait, WaitInterrupted, GetLock, FrontOfEmpty, GetUnlock,
                ReleaseConnection, ReleaseLock, ReleaseUnlock, ReservePost
    <3>1. TypeOK'
      BY <2>5 DEF counters, TypeOK, PCs
    <3>2. LockHeld' /\ PopOK' /\ HandOK'
      BY <2>5 DEF LockHeld, PopOK, HandOK, TypeOK, PCs
    <3>3. Out' = Out /\ con' = con
      BY <2>5 DEF Out, TypeOK, PCs
    <3>4. UNCHANGED <<connList, counters>>
      BY <2>5
    <3> QED
      BY <3>1, <3>2, <3>3, <3>4, QuietStep
  <2> QED
    BY <1>2, <2>1, <2>2, <2>3, <2>4, <2>5 DEF Step, Get, Release
<1> QED
  BY <1>1, <1>2 DEF Next

LEMMA InvAlways == Spec => []Inv
BY InvInit, InvStep, PTL DEF Spec

(* Every variable keeps its type.                                          *)
THEOREM TypeCorrect == Spec => []TypeOK
<1>1. Inv => TypeOK
  BY DEF Inv
<1> QED
  BY InvAlways, <1>1, PTL

(* No connection is with two workers, or with a worker and in the list,    *)
(* whether or not waits are interrupted.                                   *)
THEOREM HeldExclusively == Spec => []ExclusiveHold
<1>1. Inv => ExclusiveHold
  BY DEF Inv
<1> QED
  BY InvAlways, <1>1, PTL

(* No connection is lost and the counters are right.                       *)
THEOREM NoneLost == Spec => []Accounted
<1>1. Inv => Accounted
  BY DEF Inv
<1> QED
  BY InvAlways, <1>1, PTL

-----------------------------------------------------------------------------
(* With as many connections as workers the list is not empty for a worker  *)
(* that holds none.                                                        *)
LEMMA ListNotEmpty ==
  ASSUME Cardinality(Conns) >= Cardinality(Workers), Inv,
         NEW w \in Workers, w \notin Out
  PROVE  connList # << >>
<1> USE SqlAssumption
<1>1. Out \subseteq Workers \ {w}
  BY DEF Out
<1>2. /\ IsFiniteSet(Workers \ {w})
      /\ Cardinality(Workers \ {w}) = Cardinality(Workers) - 1
  BY FS_RemoveElement
<1>3. Cardinality(Out) <= Cardinality(Workers) - 1
  BY <1>1, <1>2, FS_Subset
<1>4. Len(connList) # 0
  BY <1>3, OutFinite DEF Inv, Shared, TypeOK
<1> QED
  BY <1>4 DEF Inv, TypeOK

(* With at least as many connections as workers no worker is ever answered *)
(* with a null pointer, although the test for an empty list is not under   *)
(* the mutex.                                                              *)
THEOREM NeverNull ==
  ASSUME Cardinality(Conns) >= Cardinality(Workers)
  PROVE  Spec => []AlwaysConnected
<1>1. Init => AlwaysConnected
  BY DEF Init, AlwaysConnected
<1>2. Inv /\ AlwaysConnected /\ [Next]_vars => AlwaysConnected'
  <2> SUFFICES ASSUME Inv, AlwaysConnected, [Next]_vars PROVE AlwaysConnected'
    OBVIOUS
  <2> USE DEF AlwaysConnected
  <2>1. CASE UNCHANGED vars
    BY <2>1 DEF vars
  <2>2. ASSUME NEW w \in Workers, Step(w) PROVE AlwaysConnected'
    <3> USE DEF Goto, Locked, Inv, TypeOK, PCs
    <3>1. CASE GetConnection(w)
      <4>1. connList # << >>
        BY <3>1, ListNotEmpty DEF GetConnection, Out
      <4> QED
        BY <3>1, <4>1 DEF GetConnection
    <3>2. CASE Get(w)
      BY <3>2 DEF Get, ReserveWait, WaitInterrupted, GetLock, ReadFront,
         FrontOfEmpty, PopFront, GetUnlock, HandOK
    <3>3. CASE Release(w)
      BY <3>3 DEF Release, ReleaseConnection, ReleaseLock, PushBack,
         ReleaseUnlock, ReservePost
    <3> QED
      BY <2>2, <3>1, <3>2, <3>3 DEF Step
  <2> QED
    BY <2>1, <2>2 DEF Next
<1> QED
  BY InvAlways, <1>1, <1>2, PTL DEF Spec

-----------------------------------------------------------------------------
(* Where a token of the semaphore is while it is not in the semaphore: with *)
(* a worker that has not taken its connection yet, or with one that has     *)
(* given its connection back but not posted yet.                            *)
Claims == {w \in Workers : pc[w] \in {"lock", "front", "pop"}}
Owed == {w \in Workers : pc[w] \in {"reunlock", "post"}}

(* The list is as long as the tokens say: the value of the semaphore alone  *)
(* does not say it, since neither the wait and the pop nor the push and the *)
(* post are one step.                                                       *)
Tokens == interrupts = 0 =>
  Len(connList) = reserve + Cardinality(Claims) + Cardinality(Owed)

LEMMA TokenSets ==
  /\ IsFiniteSet(Claims) /\ Cardinality(Claims) \in Nat
  /\ IsFiniteSet(Owed) /\ Cardinality(Owed) \in Nat
BY SqlAssumption, FS_Subset, FS_CardinalityType DEF Claims, Owed

LEMMA TokensInit == Init => Tokens
<1> SUFFICES ASSUME Init PROVE Tokens
  OBVIOUS
<1>1. Claims = {} /\ Owed = {}
  BY DEF Init, Claims, Owed
<1>2. Cardinality({}) = 0
  BY FS_EmptySet
<1>3. Shared /\ Out = {}
  BY InvInit DEF Inv, Init, Out
<1>4. Len(connList) = Cardinality(Conns)
  BY InvInit, <1>2, <1>3, OutFinite DEF Inv, Shared, TypeOK
<1>5. Cardinality(Conns) \in Nat
  BY SqlAssumption, FS_CardinalityType
<1> QED
  BY <1>1, <1>2, <1>4, <1>5 DEF Tokens, Init

LEMMA TokensStep == Inv /\ Inv' /\ Tokens /\ [Next]_vars => Tokens'
<1> SUFFICES ASSUME Inv, Inv', Tokens, [Next]_vars, interrupts' = 0
             PROVE  Len(connList') = reserve' + Cardinality(Claims') + Cardinality(Owed')
  BY DEF Tokens
<1>1. CASE UNCHANGED vars
  <2>1. Claims' = Claims /\ Owed' = Owed
    BY <1>1 DEF vars, Claims, Owed
  <2> QED
    BY <1>1, <2>1 DEF vars, Tokens
<1>2. ASSUME NEW w \in Workers, Step(w)
      PROVE  Len(connList') = reserve' + Cardinality(Claims') + Cardinality(Owed')
  <2> USE DEF Goto, Locked, counters
  <2>1. pc \in [Workers -> PCs] /\ reserve \in Nat /\ connList \in Seq(Conns)
    BY DEF Inv, TypeOK
  <2>2. Len(connList) \in Nat
    BY <2>1
  <2>3. CASE ReserveWait(w)
    <3>1. /\ w \notin Claims /\ Claims' = Claims \union {w} /\ Owed' = Owed
      BY <2>1, <2>3 DEF ReserveWait, Claims, Owed
    <3>2. Cardinality(Claims') = Cardinality(Claims) + 1
      BY <3>1, TokenSets, FS_AddElement
    <3>3. Len(connList) = reserve + Cardinality(Claims) + Cardinality(Owed)
      BY <2>3 DEF ReserveWait, Tokens
    <3> QED
      BY <2>1, <2>3, <3>1, <3>2, <3>3, TokenSets DEF ReserveWait
  <2>4. CASE WaitInterrupted(w)
    BY <2>4 DEF WaitInterrupted, Inv, TypeOK
  <2>5. CASE PopFront(w)
    <3>1. /\ w \in Claims /\ Claims' = Claims \ {w} /\ Owed' = Owed
      BY <2>1, <2>5 DEF PopFront, Claims, Owed
    <3>2. Cardinality(Claims') = Cardinality(Claims) - 1
      BY <3>1, TokenSets, FS_RemoveElement
    <3>3. Len(connList) = reserve + Cardinality(Claims) + Cardinality(Owed)
      BY <2>5 DEF PopFront, Tokens
    <3>4. Len(connList') = Len(connList) - 1
      BY <2>1, <2>5, TailFacts DEF PopFront, Inv, PopOK
    <3> QED
      BY <2>1, <2>2, <2>5, <3>1, <3>2, <3>3, <3>4, TokenSets DEF PopFront
  <2>6. CASE PushBack(w)
    <3>1. /\ w \notin Owed /\ Owed' = Owed \union {w} /\ Claims' = Claims
      BY <2>1, <2>6 DEF PushBack, Claims, Owed
    <3>2. Cardinality(Owed') = Cardinality(Owed) + 1
      BY <3>1, TokenSets, FS_AddElement
    <3>3. Len(connList) = reserve + Cardinality(Claims) + Cardinality(Owed)
      BY <2>6 DEF PushBack, Tokens
    <3>4. con[w] \in Conns
      BY <2>6 DEF PushBack, Inv, HandOK, TypeOK
    <3>5. Len(connList') = Len(connList) + 1
      BY <2>1, <2>6, <3>4, AppendFacts DEF PushBack
    <3> QED
      BY <2>1, <2>2, <2>6, <3>1, <3>2, <3>3, <3>5, TokenSets DEF PushBack
  <2>7. CASE ReservePost(w)
    <3>1. /\ w \in Owed /\ Owed' = Owed \ {w} /\ Claims' = Claims
      BY <2>1, <2>7 DEF ReservePost, Claims, Owed
    <3>2. Cardinality(Owed') = Cardinality(Owed) - 1
      BY <3>1, TokenSets, FS_RemoveElement
    <3>3. Len(connList) = reserve + Cardinality(Claims) + Cardinality(Owed)
      BY <2>7 DEF ReservePost, Tokens
    <3> QED
      BY <2>1, <2>7, <3>1, <3>2, <3>3, TokenSets DEF ReservePost
  <2>8. CASE GetConnection(w) \/ GetLock(w) \/ ReadFront(w) \/ FrontOfEmpty(w)
               \/ GetUnlock(w) \/ ReleaseConnection(w) \/ ReleaseLock(w)
               \/ ReleaseUnlock(w)
    <3> USE DEF GetConnection, GetLock, ReadFront, FrontOfEmpty, GetUnlock,
                ReleaseConnection, ReleaseLock, ReleaseUnlock
    <3>1. Claims' = Claims /\ Owed' = Owed
      BY <2>1, <2>8 DEF Claims, Owed
    <3>2. UNCHANGED <<connList, reserve, interrupts>>
      BY <2>8
    <3> QED
      BY <3>1, <3>2 DEF Tokens
  <2> QED
    BY <1>2, <2>3, <2>4, <2>5, <2>6, <2>7, <2>8 DEF Step, Get, Release
<1> QED
  BY <1>1, <1>2 DEF Next

(* As long as no wait was interrupted, a worker that got past the wait     *)
(* finds a connection in the list: pop_front never runs on an empty list,  *)
(* although the wait is not made under the mutex.                          *)
THEOREM TokensAreConnections == Spec => []TokenIsConnection
<1>1. Inv /\ Tokens => TokenIsConnection
  <2> SUFFICES ASSUME Inv, Tokens, interrupts = 0,
                      NEW w \in Workers, pc[w] = "front"
               PROVE  connList # << >>
    BY DEF TokenIsConnection
  <2>1. w \in Claims
    BY DEF Claims
  <2>2. Cardinality(Claims) # 0
    BY <2>1, TokenSets, FS_EmptySet
  <2>3. Len(connList) # 0
    BY <2>2, TokenSets DEF Tokens, Inv, TypeOK
  <2> QED
    BY <2>3
<1>2. Spec => []Tokens
  BY InvAlways, TokensInit, TokensStep, PTL DEF Spec
<1> QED
  BY InvAlways, <1>1, <1>2, PTL
=============================================================================
