-------------------------- MODULE ThreadPoolProofs --------------------------
(***************************************************************************)
(* Proofs about ThreadPool, for every number of workers, jobs, queue limit *)
(* and interrupted waits.                                                  *)
(*                                                                         *)
(* JobsApart is the strengthening of AtMostOnce that is inductive: it      *)
(* follows each job through append, the list, and a worker's hands.        *)
(* LockDiscipline is what no interrupted wait adds: whoever is at the list *)
(* holds the mutex.                                                        *)
(***************************************************************************)
EXTENDS ThreadPool, FiniteSetTheorems, TLAPS

(* Where each job is: the places a job can be in have no job in common.    *)
InAppend == mpc \in {"lock", "push"}

HandsOK == /\ mpc # "idle" => mjob \in Jobs
           /\ \A w \in Workers : wpc[w] \in {"pop", "unlock", "run"} =>
                                   wtask[w] \in Jobs

PopOK == \A w \in Workers : wpc[w] = "pop" =>
           workQueue # << >> /\ wtask[w] = Head(workQueue)

QueueOK == \A i, k \in 1..Len(workQueue) : workQueue[i] = workQueue[k] => i = k

Fresh(j) == /\ j \notin offered
            /\ j \notin rejected
            /\ runs[j] = 0

JobsApart ==
  /\ QueueOK
  /\ \A i \in 1..Len(workQueue) : Fresh(workQueue[i])
  /\ \A j \in offered \union rejected : runs[j] = 0
  /\ offered \intersect rejected = {}
  /\ InAppend => /\ Fresh(mjob)
                 /\ \A i \in 1..Len(workQueue) : workQueue[i] # mjob
                 /\ \A w \in InHand : wtask[w] # mjob
  /\ \A w \in InHand : /\ Fresh(wtask[w])
                       /\ \A i \in 1..Len(workQueue) : workQueue[i] # wtask[w]
  /\ \A v, w \in InHand : wtask[v] = wtask[w] => v = w
  /\ \A j \in Jobs : runs[j] <= 1

Inv == /\ TypeOK
       /\ HandsOK
       /\ status # "corrupted" => PopOK /\ JobsApart
       /\ QueueBound

-----------------------------------------------------------------------------
LEMMA TailFacts ==
  ASSUME NEW S, NEW q \in Seq(S), q # << >>
  PROVE  /\ Tail(q) \in Seq(S)
         /\ Head(q) \in S
         /\ Head(q) = q[1]
         /\ Len(q) \in Nat /\ Len(q) > 0
         /\ Len(Tail(q)) = Len(q) - 1
         /\ \A i \in 1..Len(Tail(q)) : Tail(q)[i] = q[i + 1] /\ i + 1 \in 1..Len(q)
  OBVIOUS

LEMMA AppendFacts ==
  ASSUME NEW S, NEW q \in Seq(S), NEW x \in S
  PROVE  /\ Append(q, x) \in Seq(S)
         /\ Len(q) \in Nat
         /\ Len(Append(q, x)) = Len(q) + 1
         /\ Append(q, x)[Len(q) + 1] = x
         /\ \A i \in 1..Len(q) : Append(q, x)[i] = q[i]
  OBVIOUS

LEMMA InvInit == Init => Inv
<1> SUFFICES ASSUME Init PROVE Inv
  OBVIOUS
<1> USE PoolAssumption DEF Init
<1>1. TypeOK
  BY DEF TypeOK, WorkerPCs, MainPCs
<1>2. HandsOK /\ PopOK
  BY DEF HandsOK, PopOK
<1>3. JobsApart
  BY DEF JobsApart, QueueOK, Fresh, InAppend, InHand
<1>4. QueueBound
  BY DEF QueueBound
<1> QED
  BY <1>1, <1>2, <1>3, <1>4 DEF Inv

(* Each variable keeps its type; PopOK is there because Tail says nothing  *)
(* of an empty list.                                                       *)
LEMMA TypeStep == TypeOK /\ HandsOK /\ (status # "corrupted" => PopOK)
                    /\ [Next]_vars => TypeOK' /\ HandsOK'
<1> SUFFICES ASSUME TypeOK, HandsOK, status # "corrupted" => PopOK, [Next]_vars
             PROVE  TypeOK' /\ HandsOK'
  OBVIOUS
<1> USE PoolAssumption DEF TypeOK, HandsOK, WorkerPCs, MainPCs
<1>1. CASE UNCHANGED vars
  BY <1>1 DEF vars, mainVars, workerVars
<1>2. ASSUME status = "running", MainStep PROVE TypeOK' /\ HandsOK'
  <2> USE DEF workerVars, Touch, Unlock
  <2>1. ASSUME NEW j \in Jobs, AppendCall(j) PROVE TypeOK' /\ HandsOK'
    BY <2>1 DEF AppendCall
  <2>2. CASE AppendLock
    BY <2>2 DEF AppendLock
  <2>3. CASE AppendRefuse
    BY <2>3 DEF AppendRefuse
  <2>4. CASE AppendPush
    BY <2>4, AppendFacts DEF AppendPush
  <2>5. CASE AppendUnlock
    BY <2>5 DEF AppendUnlock
  <2>6. CASE AppendPost
    BY <2>6 DEF AppendPost
  <2> QED
    BY <1>2, <2>1, <2>2, <2>3, <2>4, <2>5, <2>6 DEF MainStep
<1>3. ASSUME status = "running", NEW w \in Workers, WorkerStep(w)
      PROVE  TypeOK' /\ HandsOK'
  <2> USE DEF mainVars, Touch, Unlock, Goto
  <2>1. CASE Wait(w)
    BY <2>1 DEF Wait
  <2>2. CASE WaitInterrupted(w)
    BY <2>2 DEF WaitInterrupted
  <2>3. CASE TryLock(w)
    BY <2>3 DEF TryLock
  <2>4. CASE Lock(w)
    BY <2>4 DEF Lock
  <2>5. CASE CheckEmpty(w)
    BY <2>5 DEF CheckEmpty
  <2>6. CASE Front(w)
    BY <2>6, TailFacts DEF Front
  <2>7. CASE FrontOfEmpty(w)
    BY <2>7 DEF FrontOfEmpty, workerVars
  <2>8. CASE PopFront(w)
    BY <2>8, <1>3, TailFacts DEF PopFront, PopOK
  <2>9. CASE UnlockQueue(w)
    BY <2>9 DEF UnlockQueue
  <2>10. CASE DoSchedule(w)
    BY <2>10 DEF DoSchedule
  <2> QED
    BY <1>3, <2>1, <2>2, <2>3, <2>4, <2>5, <2>6, <2>7, <2>8, <2>9, <2>10
       DEF WorkerStep
<1> QED
  BY <1>1, <1>2, <1>3 DEF Next

-----------------------------------------------------------------------------
(* A list access next to another one corrupts, so a worker between front() *)
(* and pop_front() sees no change of the list while the process is sound.  *)
LEMMA PopStep == Inv /\ [Next]_vars /\ status' # "corrupted" => PopOK'
<1> SUFFICES ASSUME Inv, [Next]_vars, status' # "corrupted" PROVE PopOK'
  OBVIOUS
<1> USE PoolAssumption DEF Inv, TypeOK, PopOK, WorkerPCs, MainPCs
<1>1. CASE UNCHANGED vars
  BY <1>1 DEF vars, workerVars
<1>2. ASSUME status = "running", MainStep PROVE PopOK'
  <2> USE DEF workerVars
  <2>1. CASE AppendPush
    <3>1. \A w \in Workers : wpc[w] # "pop"
      BY <2>1 DEF AppendPush, Touch, AtList
    <3> QED
      BY <2>1, <3>1 DEF AppendPush
  <2>2. CASE ~AppendPush
    BY <1>2, <2>2 DEF MainStep, AppendCall, AppendLock, AppendRefuse,
                      AppendUnlock, AppendPost
  <2> QED
    BY <2>1, <2>2
<1>3. ASSUME status = "running", NEW w \in Workers, WorkerStep(w) PROVE PopOK'
  <2> USE DEF Goto, mainVars
  <2>1. CASE Front(w)
    BY <2>1, <1>3 DEF Front
  <2>2. CASE PopFront(w)
    <3>1. \A v \in Workers \ {w} : wpc[v] # "pop"
      BY <2>2 DEF PopFront, Touch, AtList
    <3> QED
      BY <2>2, <3>1 DEF PopFront
  <2>3. CASE DoSchedule(w)
    BY <2>3, <1>3 DEF DoSchedule
  <2>4. CASE FrontOfEmpty(w)
    BY <2>4, <1>3 DEF FrontOfEmpty, workerVars
  <2>5. CASE Wait(w) \/ WaitInterrupted(w) \/ TryLock(w) \/ Lock(w)
               \/ CheckEmpty(w) \/ UnlockQueue(w)
    BY <2>5, <1>3 DEF Wait, WaitInterrupted, TryLock, Lock, CheckEmpty,
                      UnlockQueue
  <2> QED
    BY <1>3, <2>1, <2>2, <2>3, <2>4, <2>5 DEF WorkerStep
<1> QED
  BY <1>1, <1>2, <1>3 DEF Next

(* A step that moves no job and puts none in a worker's hands.             *)
LEMMA ApartFrame ==
  ASSUME JobsApart, UNCHANGED <<workQueue, wtask, runs, mainVars>>,
         InHand' \subseteq InHand
  PROVE  JobsApart'
<1> DEFINE same == UNCHANGED <<workQueue, wtask, runs, mpc, mjob, offered, rejected>>
<1>1. same
  BY DEF mainVars
<1>2. QueueOK' /\ InAppend' = InAppend
  BY <1>1 DEF JobsApart, QueueOK, InAppend
<1>3. \A j : Fresh(j)' = Fresh(j)
  BY <1>1 DEF Fresh
<1> QED
  BY <1>1, <1>2, <1>3 DEF JobsApart

LEMMA ApartStep == Inv /\ [Next]_vars /\ status' # "corrupted" => JobsApart'
<1> SUFFICES ASSUME Inv, [Next]_vars, status' # "corrupted" PROVE JobsApart'
  OBVIOUS
<1> USE PoolAssumption DEF Inv, TypeOK, WorkerPCs, MainPCs
<1>1. CASE UNCHANGED vars
  BY <1>1 DEF vars, workerVars, mainVars, JobsApart, QueueOK, Fresh, InAppend,
              InHand
<1>2. ASSUME status = "running", MainStep PROVE JobsApart'
  <2> USE <1>2 DEF workerVars, JobsApart, QueueOK, Fresh, InAppend, InHand,
                   HandsOK
  <2>1. ASSUME NEW j \in Jobs, AppendCall(j) PROVE JobsApart'
    BY <2>1 DEF AppendCall
  <2>2. CASE AppendRefuse
    BY <2>2 DEF AppendRefuse
  <2>3. CASE AppendPush
    BY <2>3, AppendFacts DEF AppendPush
  <2>4. CASE AppendLock \/ AppendUnlock \/ AppendPost
    BY <2>4 DEF AppendLock, AppendUnlock, AppendPost
  <2> QED
    BY <2>1, <2>2, <2>3, <2>4 DEF MainStep
<1>3. ASSUME status = "running", NEW w \in Workers, WorkerStep(w)
      PROVE  JobsApart'
  <2> USE <1>3 DEF Goto, mainVars, JobsApart, QueueOK, Fresh, InAppend, InHand
  <2>1. CASE PopFront(w)
    <3>1. /\ workQueue # << >>
          /\ wtask[w] = workQueue[1]
      BY <2>1, TailFacts DEF PopFront, PopOK
    <3>2. \A i \in 1..Len(workQueue') : /\ workQueue'[i] = workQueue[i + 1]
                                        /\ i + 1 \in 1..Len(workQueue)
                                        /\ i + 1 # 1
      BY <2>1, <3>1, TailFacts DEF PopFront
    <3>3. 1 \in 1..Len(workQueue)
      BY <3>1, TailFacts
    <3>4. QueueOK'
      BY <3>2, TailFacts, <3>1, <2>1 DEF PopFront
    <3> QED
      BY <2>1, <3>1, <3>2, <3>3, <3>4 DEF PopFront
  <2>2. CASE DoSchedule(w)
    BY <2>2, TailFacts DEF DoSchedule, HandsOK
  <2>3. CASE FrontOfEmpty(w)
    BY <2>3 DEF FrontOfEmpty, workerVars
  <2>4. CASE Front(w)
    BY <2>4 DEF Front
  <2>5. CASE Wait(w) \/ WaitInterrupted(w) \/ TryLock(w) \/ Lock(w)
               \/ CheckEmpty(w) \/ UnlockQueue(w)
    <3>1. UNCHANGED <<workQueue, wtask, runs, mainVars>> /\ wpc \in [Workers -> WorkerPCs]
      BY <2>5 DEF Wait, WaitInterrupted, TryLock, Lock, CheckEmpty, UnlockQueue
    <3>2. ASSUME NEW l \in {"try", "front", "lock", "check", "wait"},
                 wpc' = [wpc EXCEPT ![w] = l]
          PROVE  InHand' \subseteq InHand
      BY <3>1, <3>2
    <3>3. UnlockQueue(w) => InHand' \subseteq InHand
      BY <3>1 DEF UnlockQueue
    <3>4. InHand' \subseteq InHand
      BY <2>5, <3>2, <3>3 DEF Wait, WaitInterrupted, TryLock, Lock, CheckEmpty
    <3>5. JobsApart
      BY <1>3
    <3> QED
      BY <3>1, <3>4, <3>5, ApartFrame
  <2> QED
    BY <1>3, <2>1, <2>2, <2>3, <2>4, <2>5 DEF WorkerStep
<1> QED
  BY <1>1, <1>2, <1>3 DEF Next

LEMMA BoundStep == Inv /\ [Next]_vars => QueueBound'
<1> SUFFICES ASSUME Inv, [Next]_vars PROVE QueueBound'
  OBVIOUS
<1> USE PoolAssumption DEF Inv, TypeOK, QueueBound
<1>1. CASE UNCHANGED vars
  BY <1>1 DEF vars
<1>2. CASE status = "running" /\ MainStep
  BY <1>2, AppendFacts DEF MainStep, AppendCall, AppendLock, AppendRefuse,
     AppendPush, AppendUnlock, AppendPost, QueueFull, HandsOK, MainPCs
<1>3. ASSUME status = "running", NEW w \in Workers, WorkerStep(w)
      PROVE  QueueBound'
  BY <1>3, TailFacts DEF WorkerStep, Wait, WaitInterrupted, TryLock, Lock,
     CheckEmpty, Front, FrontOfEmpty, PopFront, UnlockQueue, DoSchedule, PopOK
<1> QED
  BY <1>1, <1>2, <1>3 DEF Next

LEMMA InvStep == Inv /\ [Next]_vars => Inv'
BY TypeStep, PopStep, ApartStep, BoundStep DEF Inv

LEMMA InvAlways == Spec => []Inv
BY InvInit, InvStep, PTL DEF Spec

(* Every variable keeps its type, interrupted waits included.              *)
THEOREM TypeCorrect == Spec => []TypeOK
<1>1. Inv => TypeOK
  BY DEF Inv
<1> QED
  BY InvAlways, <1>1, PTL

(* However often the waits are interrupted, a sound process runs no job    *)
(* twice and no job that is queued, refused or not appended.               *)
THEOREM RunAtMostOnce == Spec => []AtMostOnce
<1>1. Inv => AtMostOnce
  BY DEF Inv, AtMostOnce, JobsApart, Fresh, InHand, Queued
<1> QED
  BY InvAlways, <1>1, PTL

(* The list never outgrows the limit of the constructor.                   *)
THEOREM QueueStaysBounded == Spec => []QueueBound
<1>1. Inv => QueueBound
  BY DEF Inv
<1> QED
  BY InvAlways, <1>1, PTL

-----------------------------------------------------------------------------
(* The set of woken workers is finite, and one thread enters or leaves it. *)
LEMMA WokenFinite == TypeOK => IsFiniteSet(Woken) /\ Cardinality(Woken) \in Nat
BY PoolAssumption, FS_Subset, FS_CardinalityType DEF Woken

LEMMA WokenJoins ==
  ASSUME TypeOK, NEW w \in Workers, w \notin Woken, Woken' = Woken \union {w}
  PROVE  Cardinality(Woken)' = Cardinality(Woken) + 1
BY WokenFinite, FS_AddElement

LEMMA WokenLeaves ==
  ASSUME TypeOK, NEW w \in Workers, w \in Woken, Woken' = Woken \ {w}
  PROVE  Cardinality(Woken)' = Cardinality(Woken) - 1
BY WokenFinite, FS_RemoveElement

LEMMA WokenNotEmpty ==
  ASSUME TypeOK, NEW w \in Workers, w \in Woken
  PROVE  Cardinality(Woken) >= 1
BY WokenFinite, FS_EmptySet

(* What a step does to the two sides of the token law.                     *)
LEMMA MainTokens ==
  ASSUME TypeOK, TypeOK', HandsOK, status = "running", MainStep
  PROVE  /\ Tokens \in Nat /\ Tokens' \in Nat
         /\ Len(workQueue) \in Nat /\ Len(workQueue') \in Nat
         /\ Len(workQueue') - Len(workQueue) = Tokens' - Tokens
<1> USE PoolAssumption DEF TypeOK, MainPCs, Unposted, Tokens
<1>1. Woken' = Woken
  BY DEF MainStep, AppendCall, AppendLock, AppendRefuse, AppendPush,
         AppendUnlock, AppendPost, Woken, workerVars
<1>2. Cardinality(Woken) \in Nat
  BY WokenFinite
<1>3. CASE AppendPush
  <2>1. /\ Len(workQueue) \in Nat
        /\ Len(workQueue') = Len(workQueue) + 1
    BY <1>3, AppendFacts DEF AppendPush, HandsOK
  <2> QED
    BY <1>1, <1>2, <1>3, <2>1 DEF AppendPush
<1>4. CASE AppendUnlock
  BY <1>1, <1>2, <1>4 DEF AppendUnlock
<1>5. CASE AppendPost
  BY <1>1, <1>2, <1>5 DEF AppendPost
<1>6. CASE AppendLock \/ AppendRefuse \/ \E j \in Jobs : AppendCall(j)
  <2>1. UNCHANGED <<workQueue, queuestat>> /\ Unposted' = Unposted
    BY <1>6 DEF AppendLock, AppendRefuse, AppendCall
  <2> QED
    BY <1>1, <1>2, <2>1
<1> QED
  BY <1>3, <1>4, <1>5, <1>6 DEF MainStep

LEMMA WorkerTokens ==
  ASSUME TypeOK, TypeOK', HandsOK, status = "running", PopOK,
         NEW w \in Workers, WorkerStep(w)
  PROVE  /\ Tokens \in Nat /\ Tokens' \in Nat
         /\ Len(workQueue) \in Nat /\ Len(workQueue') \in Nat
         /\ \/ Len(workQueue') - Len(workQueue) = Tokens' - Tokens
            \/ WaitInterrupted(w) /\ Tokens' = Tokens + 1 /\ UNCHANGED workQueue
            \/ CheckEmpty(w) /\ workQueue = << >> /\ UNCHANGED workQueue
<1> USE PoolAssumption DEF TypeOK, WorkerPCs, mainVars, Goto
<1>1. /\ Cardinality(Woken) \in Nat
      /\ Cardinality(Woken') \in Nat
  <2>1. IsFiniteSet(Woken')
    BY FS_Subset DEF Woken
  <2> QED
    BY <2>1, WokenFinite, FS_CardinalityType
<1>2. /\ Len(workQueue) \in Nat /\ Len(workQueue') \in Nat
      /\ Unposted' = Unposted /\ Unposted \in Nat
      /\ Tokens \in Nat /\ Tokens' \in Nat
  <2>1. UNCHANGED mpc
    BY DEF WorkerStep, Wait, WaitInterrupted, TryLock, Lock, CheckEmpty, Front,
           FrontOfEmpty, PopFront, UnlockQueue, DoSchedule
  <2>2. Unposted' = Unposted /\ Unposted \in 0..1
    BY <2>1 DEF Unposted
  <2>3. Len(workQueue) \in Nat /\ Len(workQueue') \in Nat
    OBVIOUS
  <2>4. queuestat \in Nat /\ queuestat' \in Nat
    OBVIOUS
  <2>5. Tokens' = queuestat' + Cardinality(Woken') + Unposted'
    BY DEF Tokens
  <2>6. Tokens \in Nat /\ Tokens' \in Nat
    BY <1>1, <2>2, <2>4, <2>5 DEF Tokens
  <2> QED
    BY <2>2, <2>3, <2>6
<1>3. CASE Wait(w)
  <2>1. w \notin Woken /\ Woken' = Woken \union {w}
    BY <1>3 DEF Wait, Woken
  <2>2. Cardinality(Woken)' = Cardinality(Woken) + 1
    BY <2>1, WokenJoins
  <2> QED
    BY <1>1, <1>2, <1>3, <2>2 DEF Wait, Tokens
<1>4. CASE WaitInterrupted(w)
  <2>1. w \notin Woken /\ Woken' = Woken \union {w}
    BY <1>4 DEF WaitInterrupted, Woken
  <2>2. Cardinality(Woken)' = Cardinality(Woken) + 1
    BY <2>1, WokenJoins
  <2> QED
    BY <1>1, <1>2, <1>4, <2>2 DEF WaitInterrupted, Tokens
<1>5. CASE PopFront(w)
  <2>1. w \in Woken /\ Woken' = Woken \ {w}
    BY <1>5 DEF PopFront, Woken
  <2>2. Cardinality(Woken)' = Cardinality(Woken) - 1
    BY <2>1, WokenLeaves
  <2> QED
    BY <1>1, <1>2, <1>5, <2>2, TailFacts DEF PopFront, PopOK, Tokens
<1>6. CASE CheckEmpty(w) /\ workQueue = << >>
  BY <1>1, <1>2, <1>6 DEF CheckEmpty
<1>7. CASE CheckEmpty(w) /\ workQueue # << >>
  <2>1. Woken' = Woken
    BY <1>7 DEF CheckEmpty, Woken
  <2> QED
    BY <1>1, <1>2, <1>7, <2>1 DEF CheckEmpty, Tokens
<1>8. CASE FrontOfEmpty(w)
  BY <1>1, <1>2, <1>8 DEF FrontOfEmpty, Woken, workerVars, Tokens
<1>9. CASE TryLock(w) \/ Lock(w) \/ Front(w) \/ UnlockQueue(w) \/ DoSchedule(w)
  <2>1. Woken' = Woken
    BY <1>9 DEF TryLock, Lock, Front, UnlockQueue, DoSchedule, Woken
  <2>2. UNCHANGED <<workQueue, queuestat>>
    BY <1>9 DEF TryLock, Lock, Front, UnlockQueue, DoSchedule
  <2> QED
    BY <1>1, <1>2, <2>1, <2>2 DEF Tokens
<1> QED
  BY <1>3, <1>4, <1>5, <1>6, <1>7, <1>8, <1>9 DEF WorkerStep

(* No wake-up is lost, even when waits are interrupted: each queued job    *)
(* keeps a token, a worker on its way, or a post still to come.            *)
THEOREM NoWakeupLost == Spec => []NoStrandedJob
<1>1. Init => NoStrandedJob
  <2> SUFFICES ASSUME Init PROVE NoStrandedJob
    OBVIOUS
  <2>1. Woken = {}
    BY DEF Init, Woken
  <2> QED
    BY <2>1, FS_EmptySet DEF Init, NoStrandedJob, Unposted, Tokens
<1>2. Inv /\ NoStrandedJob /\ [Next]_vars => NoStrandedJob'
  <2> SUFFICES ASSUME Inv, NoStrandedJob, [Next]_vars PROVE NoStrandedJob'
    OBVIOUS
  <2>1. TypeOK /\ TypeOK' /\ HandsOK /\ (status = "running" => PopOK)
    BY InvStep DEF Inv, TypeOK
  <2>2. CASE UNCHANGED vars
    BY <2>2 DEF vars, workerVars, mainVars, NoStrandedJob, Woken, Unposted, Tokens
  <2>3. CASE status = "running" /\ MainStep
    BY <2>1, <2>3, MainTokens DEF NoStrandedJob, Tokens
  <2>4. ASSUME status = "running", NEW w \in Workers, WorkerStep(w)
        PROVE  NoStrandedJob'
    <3>1. CASE CheckEmpty(w) /\ workQueue = << >> /\ UNCHANGED workQueue
      BY <2>1, <2>4, <3>1, WorkerTokens DEF NoStrandedJob, Tokens
    <3>2. CASE ~(CheckEmpty(w) /\ workQueue = << >> /\ UNCHANGED workQueue)
      BY <2>1, <2>4, <3>2, WorkerTokens DEF NoStrandedJob, Tokens
    <3> QED
      BY <3>1, <3>2
  <2> QED
    BY <2>2, <2>3, <2>4 DEF Next
<1> QED
  BY InvAlways, <1>1, <1>2, PTL DEF Spec

-----------------------------------------------------------------------------
(* Without interrupted waits whoever is at the list holds the mutex, and   *)
(* the process is never corrupted or aborted.                              *)
LockDiscipline ==
  /\ status \in {"running", "exited"}
  /\ mpc \in {"push", "unlock"} => holder = Main
  /\ \A w \in Workers : wpc[w] \in {"check", "front", "pop", "unlock"} =>
                           holder = w

Calm == LockDiscipline /\ Len(workQueue) = Tokens

Disciplined == Inv /\ (interrupts = 0 => Calm)

Uninterrupted == Inv /\ Calm

LEMMA WokenHasJob ==
  ASSUME Uninterrupted, NEW w \in Workers, w \in Woken
  PROVE  workQueue # << >>
<1>1. Len(workQueue) >= 1
  BY WokenNotEmpty, WokenFinite
     DEF Uninterrupted, Calm, Tokens, Inv, TypeOK, Unposted
<1> QED
  BY <1>1 DEF Uninterrupted, Inv, TypeOK

LEMMA Exclusive == Uninterrupted => MutualExclusion
BY PoolAssumption
   DEF Uninterrupted, Calm, LockDiscipline, MutualExclusion, AtList

LEMMA NobodyElse ==
  ASSUME Uninterrupted, NEW t \in AtList, Touch(t) PROVE status' = "running"
BY Exclusive DEF MutualExclusion, Touch

LEMMA DisciplinedInit == Init => Disciplined
<1> SUFFICES ASSUME Init PROVE Disciplined
  OBVIOUS
<1>1. Woken = {}
  BY DEF Init, Woken
<1>2. Len(workQueue) = Tokens
  BY <1>1, FS_EmptySet DEF Init, Tokens, Unposted
<1> QED
  BY <1>2, InvInit DEF Init, Disciplined, Calm, LockDiscipline

LEMMA CalmStep ==
  ASSUME Uninterrupted, [Next]_vars, interrupts' = 0
  PROVE  Calm'
<1> USE PoolAssumption
<1>1. /\ Inv' /\ TypeOK /\ TypeOK' /\ HandsOK
      /\ status = "running" => PopOK
  BY InvStep DEF Uninterrupted, Inv
<1>2. CASE UNCHANGED vars
  BY <1>1, <1>2 DEF vars, mainVars, workerVars, Uninterrupted, Calm,
                    LockDiscipline, Tokens, Woken, Unposted
<1>3. ASSUME status = "running", MainStep
      PROVE  LockDiscipline' /\ (Len(workQueue) = Tokens)'
  <2>1. (Len(workQueue) = Tokens)'
    BY <1>1, <1>3, MainTokens DEF Calm, Uninterrupted
  <2>2. status' = "running"
    BY <1>3, NobodyElse DEF MainStep, AppendCall, AppendLock, AppendRefuse,
       AppendPush, AppendUnlock, AppendPost, AtList
  <2>3. LockDiscipline'
    BY <1>1, <1>3, <2>2 DEF MainStep, AppendCall, AppendLock, AppendRefuse,
       AppendPush, AppendUnlock, AppendPost, workerVars, Unlock,
       Uninterrupted, Calm, LockDiscipline, TypeOK, MainPCs, WorkerPCs
  <2> QED
    BY <2>1, <2>3
<1>4. ASSUME status = "running", NEW w \in Workers, WorkerStep(w)
      PROVE  LockDiscipline' /\ (Len(workQueue) = Tokens)'
  <2>1. ~WaitInterrupted(w)
    BY <1>1 DEF WaitInterrupted, TypeOK
  <2>2. (w \in Woken => workQueue # << >>) /\ LockDiscipline
    BY WokenHasJob DEF Uninterrupted, Calm
  <2>3. (Len(workQueue) = Tokens)'
    <3>1. CheckEmpty(w) => workQueue # << >>
      BY <2>2 DEF CheckEmpty, Woken
    <3> QED
      BY <1>1, <1>4, <2>1, <3>1, WorkerTokens DEF Calm, Uninterrupted
  <2>4. LockDiscipline'
    <3> USE DEF LockDiscipline, TypeOK, WorkerPCs, MainPCs, mainVars, Goto,
                Unlock
    <3>1. CASE CheckEmpty(w) \/ Front(w) \/ PopFront(w)
      <4>1. status' = "running"
        BY <3>1, NobodyElse DEF CheckEmpty, Front, PopFront, AtList
      <4> QED
        BY <1>1, <2>2, <3>1, <4>1 DEF CheckEmpty, Front, PopFront, Woken
    <3>2. CASE FrontOfEmpty(w)
      BY <2>2, <3>2 DEF FrontOfEmpty, Woken
    <3>3. CASE Wait(w) \/ TryLock(w) \/ Lock(w)
      BY <1>1, <1>4, <2>2, <3>3 DEF Wait, TryLock, Lock
    <3>4. CASE UnlockQueue(w) \/ DoSchedule(w)
      BY <1>1, <1>4, <2>2, <3>4 DEF UnlockQueue, DoSchedule
    <3> QED
      BY <1>4, <2>1, <3>1, <3>2, <3>3, <3>4 DEF WorkerStep
  <2> QED
    BY <2>3, <2>4
<1> QED
  BY <1>2, <1>3, <1>4 DEF Next, Calm

LEMMA DisciplinedAlways == Spec => []Disciplined
<1>1. Disciplined /\ [Next]_vars => Disciplined'
  <2> SUFFICES ASSUME Disciplined, [Next]_vars PROVE Disciplined'
    OBVIOUS
  <2>1. Inv'
    BY InvStep DEF Disciplined
  <2>2. ASSUME interrupts' = 0 PROVE Calm'
    <3>1. interrupts = 0
      BY <2>2 DEF Disciplined, Inv, TypeOK, Next, vars, MainStep, AppendCall,
         AppendLock, AppendRefuse, AppendPush, AppendUnlock, AppendPost,
         WorkerStep, Wait, WaitInterrupted, TryLock, Lock, CheckEmpty, Front,
         FrontOfEmpty, PopFront, UnlockQueue, DoSchedule
    <3> QED
      BY <2>2, <3>1, CalmStep DEF Disciplined, Uninterrupted
  <2> QED
    BY <2>1, <2>2 DEF Disciplined
<1> QED
  BY <1>1, DisciplinedInit, PTL DEF Spec

(* As long as no wait is interrupted, queue_mutex excludes: trylock, lock  *)
(* and the skipped test for an empty list let one thread at a time to the  *)
(* list.                                                                   *)
THEOREM ListIsExclusive == Spec => []ListGuarded
<1>1. Disciplined => ListGuarded
  BY Exclusive DEF Disciplined, Uninterrupted, ListGuarded
<1> QED
  BY DisciplinedAlways, <1>1, PTL

(* As long as no wait is interrupted, the semaphore counts the list        *)
(* exactly.                                                                *)
THEOREM SemaphoreCounts == Spec => []TokenLaw
<1>1. Disciplined => TokenLaw
  BY DEF Disciplined, Calm, TokenLaw
<1> QED
  BY DisciplinedAlways, <1>1, PTL

(* As long as no wait is interrupted, front() and pop_front() find the     *)
(* same job, though run() did not look whether there is one.               *)
THEOREM PopIsSafe == Spec => []PopsWhatItRead
<1>1. Disciplined => PopsWhatItRead
  <2> SUFFICES ASSUME Disciplined, interrupts = 0
               PROVE  \A w \in Workers : wpc[w] \in {"front", "pop"} =>
                        /\ workQueue # << >>
                        /\ wpc[w] = "pop" => wtask[w] = Head(workQueue)
    BY DEF PopsWhatItRead
  <2>1. Uninterrupted
    BY DEF Disciplined, Uninterrupted
  <2> QED
    BY <2>1, WokenHasJob DEF Uninterrupted, Calm, LockDiscipline, Inv, PopOK,
                             Woken
<1> QED
  BY DisciplinedAlways, <1>1, PTL

-----------------------------------------------------------------------------
(* The refinement mapping, one name for each variable of TaskQueue.        *)
AbsOffered == offered \union (IF mpc \in {"lock", "push"} THEN {mjob} ELSE {})
AbsTaken == {wtask[w] : w \in InHand}
AbsDone == {j \in Jobs : runs[j] > 0}

LEMMA InitMaps == Init => Abstract!Init
BY DEF Init, Abstract!Init, InHand

LEMMA StepMaps ==
  ASSUME Inv, Inv', [Next]_vars
  PROVE  [Abstract!Next]_(Abstract!avars)
<1> USE PoolAssumption
<1> USE DEF Inv, TypeOK, WorkerPCs, MainPCs
<1>1. ASSUME UNCHANGED <<AbsOffered, workQueue, AbsTaken, AbsDone, rejected>>
      PROVE  UNCHANGED Abstract!avars
  BY <1>1 DEF Abstract!avars, AbsOffered, AbsTaken, AbsDone
<1>2. CASE UNCHANGED vars
  BY <1>1, <1>2 DEF vars, mainVars, workerVars, AbsOffered, AbsTaken, AbsDone,
                    InHand
<1>3. ASSUME status = "running", MainStep
      PROVE  [Abstract!Next]_(Abstract!avars)
  <2>0. JobsApart /\ HandsOK /\ PopOK
    BY <1>3
  <2>1. AbsTaken' = AbsTaken /\ AbsDone' = AbsDone
    BY <1>3 DEF MainStep, AppendCall, AppendLock, AppendRefuse, AppendPush,
       AppendUnlock, AppendPost, workerVars, AbsTaken, AbsDone, InHand
  <2>2. CASE AppendRefuse
    <3>1. mjob \in AbsOffered /\ AbsOffered' = AbsOffered \ {mjob}
      BY <2>0, <2>2 DEF AppendRefuse, AbsOffered, JobsApart, Fresh, InAppend
    <3>2. mjob \in Jobs /\ Abstract!Refuse(mjob)
      BY <2>0, <2>1, <2>2, <3>1
         DEF AppendRefuse, HandsOK, QueueFull, Abstract!Refuse, AbsOffered,
             AbsTaken, AbsDone
    <3> QED
      BY <3>2 DEF Abstract!Next
  <2>3. CASE AppendPush
    <3>1. mjob \in AbsOffered /\ AbsOffered' = AbsOffered \ {mjob}
      BY <2>0, <2>3 DEF AppendPush, AbsOffered, JobsApart, Fresh, InAppend
    <3>2. /\ mjob \in Jobs /\ Len(workQueue) < MaxRequests
          /\ workQueue' = Append(workQueue, mjob) /\ UNCHANGED rejected
      BY <2>0, <2>3 DEF AppendPush, HandsOK, QueueFull
    <3>3. Abstract!Accept(mjob)
      BY <2>1, <3>1, <3>2 DEF Abstract!Accept, AbsOffered, AbsTaken, AbsDone
    <3> QED
      BY <3>2, <3>3 DEF Abstract!Next
  <2>4. CASE AppendLock \/ AppendUnlock \/ AppendPost
               \/ \E j \in Jobs : AppendCall(j)
    <3>1. UNCHANGED <<workQueue, rejected>> /\ AbsOffered' = AbsOffered
      BY <2>4 DEF AppendLock, AppendUnlock, AppendPost, AppendCall, AbsOffered
    <3> QED
      BY <1>1, <2>1, <3>1
  <2> QED
    BY <1>3, <2>2, <2>3, <2>4 DEF MainStep
<1>4. ASSUME status = "running", NEW w \in Workers, WorkerStep(w)
      PROVE  [Abstract!Next]_(Abstract!avars)
  <2>0. JobsApart /\ HandsOK /\ PopOK
    BY <1>4
  <2>1. UNCHANGED <<AbsOffered, rejected>>
    BY <1>4 DEF WorkerStep, Wait, WaitInterrupted, TryLock, Lock, CheckEmpty,
       Front, FrontOfEmpty, PopFront, UnlockQueue, DoSchedule, mainVars,
       AbsOffered
  <2>2. CASE PopFront(w)
    <3>1. /\ workQueue # << >> /\ Head(workQueue) = wtask[w]
          /\ wtask[w] = workQueue[1] /\ 1 \in 1..Len(workQueue)
      BY <2>0, <1>4, <2>2, TailFacts DEF PopFront, PopOK
    <3>2. wtask[w] \notin AbsTaken \union AbsDone
      <4>1. runs[wtask[w]] = 0 /\ \A v \in InHand : wtask[v] # wtask[w]
        BY <2>0, <3>1 DEF JobsApart, Fresh
      <4> QED
        BY <4>1 DEF AbsTaken, AbsDone
    <3>3. AbsTaken' = AbsTaken \union {wtask[w]} /\ AbsDone' = AbsDone
      BY <2>2 DEF PopFront, AbsTaken, AbsDone, InHand, Goto
    <3>4. Abstract!Take
      BY <2>1, <2>2, <3>1, <3>2, <3>3
         DEF Abstract!Take, PopFront, AbsOffered, AbsTaken, AbsDone
    <3> QED
      BY <3>4 DEF Abstract!Next
  <2>3. CASE DoSchedule(w)
    <3>1. w \in InHand /\ wtask[w] \in Jobs /\ wtask[w] \in AbsTaken
      BY <2>0, <2>3 DEF DoSchedule, HandsOK, AbsTaken, InHand
    <3>2. InHand' = InHand \ {w}
          /\ \A v \in InHand \ {w} : wtask'[v] = wtask[v] /\ wtask[v] # wtask[w]
      BY <2>0, <2>3, <3>1 DEF DoSchedule, InHand, Goto, JobsApart
    <3>3. PICK j \in Jobs : j = wtask[w]
      BY <3>1
    <3>4. AbsTaken' = AbsTaken \ {j}
      <4>1. \A x : x \in AbsTaken' <=> \E v \in InHand \ {w} : x = wtask[v]
        BY <3>2 DEF AbsTaken
      <4>2. \A x : x \in AbsTaken <=> \E v \in InHand : x = wtask[v]
        BY DEF AbsTaken
      <4> QED
        BY <3>1, <3>2, <3>3, <4>1, <4>2
    <3>5. AbsDone' = AbsDone \union {j}
      BY <2>3, <3>1, <3>3 DEF DoSchedule, AbsDone
    <3>6. Abstract!Finish(j)
      BY <2>1, <2>3, <3>1, <3>3, <3>4, <3>5
         DEF Abstract!Finish, DoSchedule, AbsOffered, AbsTaken, AbsDone
    <3> QED
      BY <3>6 DEF Abstract!Next
  <2>4. CASE Front(w)
    <3>1. InHand' = InHand /\ w \notin InHand
      BY <2>4 DEF Front, InHand, Goto
    <3>2. AbsTaken' = AbsTaken
      BY <2>4, <3>1 DEF Front, AbsTaken, InHand
    <3> QED
      BY <1>1, <2>1, <2>4, <3>2 DEF Front, AbsDone
  <2>5. CASE ~(PopFront(w) \/ DoSchedule(w) \/ Front(w))
    <3>1. UNCHANGED <<workQueue, wtask, runs>> /\ InHand' = InHand
      BY <1>4, <2>5 DEF WorkerStep, Wait, WaitInterrupted, TryLock, Lock,
         CheckEmpty, FrontOfEmpty, UnlockQueue, workerVars, InHand, Goto
    <3> QED
      BY <1>1, <2>1, <3>1 DEF AbsTaken, AbsDone
  <2> QED
    BY <2>2, <2>3, <2>4, <2>5
<1> QED
  BY <1>1, <1>2, <1>3, <1>4 DEF Next

(* The mutex, the semaphore and the list together are the bounded          *)
(* first-in first-out queue of TaskQueue: even with interrupted waits no   *)
(* job is taken out of order or twice while the process is sound.          *)
THEOREM PoolImplementsTaskQueue == Spec => ImplementsTaskQueue
BY InitMaps, StepMaps, InvAlways, PTL
   DEF Spec, ImplementsTaskQueue, Abstract!Spec
=============================================================================
