----------------------------- MODULE ThreadPool -----------------------------
(***************************************************************************)
(* The worker pool, bin/threadpool/pool/threadpool_impl.h: a list of jobs  *)
(* (m_workQueue) guarded by a mutex (queue_mutex) and counted by a         *)
(* semaphore (m_queuestat).  The event loop, the one thread that appends,  *)
(* is Main; each worker repeats run().                                     *)
(*                                                                         *)
(* A job stands for one call of append: the connection object it points to *)
(* may be appended again later, as another job.                            *)
(***************************************************************************)
EXTENDS Naturals, Sequences, FiniteSets

CONSTANTS Workers,        \* the threads the constructor creates
          Jobs,           \* the calls of append
          Failing,        \* jobs whose scheduler call throws
          MaxRequests,    \* m_max_requests
          MaxInterrupts,  \* bound: signals that interrupt a sem_wait
          Main, None

ASSUME PoolAssumption ==
         /\ IsFiniteSet(Workers)
         /\ Failing \subseteq Jobs
         /\ MaxRequests \in Nat \ {0}     \* the constructor throws otherwise
         /\ MaxInterrupts \in Nat
         /\ Main \notin Workers
         /\ None \notin Workers \union {Main}
         /\ None \notin Jobs

VARIABLES workQueue,   \* m_workQueue
          holder,      \* who locked queue_mutex last, None when it is free
          queuestat,   \* the value of m_queuestat
          mpc, mjob,   \* where Main is in append, and with which job
          wpc, wtask,  \* where each worker is in run(), and its local "task"
          offered,     \* jobs append was not called for yet
          rejected,    \* jobs append returned false for
          runs,        \* how often the scheduler was called for a job
          interrupts,  \* signals delivered to a waiting worker so far
          status       \* of the process: running, exited, aborted, corrupted

mainVars == <<mpc, mjob, offered, rejected>>
workerVars == <<wpc, wtask, runs>>
vars == <<workQueue, holder, queuestat, mainVars, workerVars, interrupts,
          status>>

Init == /\ workQueue = << >>
        /\ holder = None
        /\ queuestat = 0
        /\ mpc = "idle"
        /\ mjob = None
        /\ wpc = [w \in Workers |-> "wait"]
        /\ wtask = [w \in Workers |-> None]
        /\ offered = Jobs
        /\ rejected = {}
        /\ runs = [j \in Jobs |-> 0]
        /\ interrupts = 0
        /\ status = "running"

-----------------------------------------------------------------------------
(***************************************************************************)
(* The mutex is a normal one: unlocking never looks at who locked it.      *)
(***************************************************************************)
Unlock == holder' = None

(***************************************************************************)
(* Threads that are between two accesses of the list.                      *)
(***************************************************************************)
AtList == {w \in Workers : wpc[w] \in {"check", "front", "pop"}}
             \union (IF mpc = "push" THEN {Main} ELSE {})

(***************************************************************************)
(* std::list gives no meaning to an access that runs next to another one:  *)
(* from there on nothing is known of the process.                          *)
(***************************************************************************)
Touch(t) == status' = IF AtList \ {t} = {} THEN "running" ELSE "corrupted"

-----------------------------------------------------------------------------
(***************************************************************************)
(* append(task [, state]), called by the event loop.                       *)
(***************************************************************************)
AppendCall(j) ==
  /\ mpc = "idle" /\ j \in offered
  /\ mpc' = "lock" /\ mjob' = j /\ offered' = offered \ {j}
  /\ UNCHANGED <<workQueue, holder, queuestat, rejected, workerVars,
                 interrupts, status>>

AppendLock ==
  /\ mpc = "lock" /\ holder = None
  /\ mpc' = "push" /\ holder' = Main
  /\ UNCHANGED <<workQueue, queuestat, mjob, offered, rejected, workerVars,
                 interrupts, status>>

FaultyQueueFull == Len(workQueue) > MaxRequests           \* one too many
QueueFull == Len(workQueue) >= MaxRequests

AppendRefuse ==
  /\ mpc = "push" /\ QueueFull
  /\ mpc' = "idle" /\ mjob' = None /\ rejected' = rejected \union {mjob}
  /\ Unlock
  /\ Touch(Main)
  /\ UNCHANGED <<workQueue, queuestat, offered, workerVars, interrupts>>

AppendPush ==
  /\ mpc = "push" /\ ~QueueFull
  /\ mpc' = "unlock"
  /\ workQueue' = Append(workQueue, mjob)
  /\ Touch(Main)
  /\ UNCHANGED <<holder, queuestat, mjob, offered, rejected, workerVars,
                 interrupts>>

AppendUnlock ==
  /\ mpc = "unlock"
  /\ mpc' = "post"
  /\ Unlock
  /\ UNCHANGED <<workQueue, queuestat, mjob, offered, rejected, workerVars,
                 interrupts, status>>

FaultyAppendPost ==                                        \* no post()
  /\ mpc = "post"
  /\ mpc' = "idle" /\ mjob' = None
  /\ UNCHANGED <<workQueue, holder, queuestat, offered, rejected, workerVars,
                 interrupts, status>>

AppendPost ==
  /\ mpc = "post"
  /\ mpc' = "idle" /\ mjob' = None
  /\ queuestat' = queuestat + 1
  /\ UNCHANGED <<workQueue, holder, offered, rejected, workerVars,
                 interrupts, status>>

-----------------------------------------------------------------------------
(***************************************************************************)
(* run().  Its guard reads                                                 *)
(*   wait() && !trylock() && lock() && empty()                             *)
(* so a trylock that succeeds skips the test for an empty list, and a wait *)
(* that fails (EINTR: the handlers are installed without SA_RESTART) skips *)
(* the mutex too.                                                          *)
(***************************************************************************)
Goto(w, pc) == wpc' = [wpc EXCEPT ![w] = pc]

Wait(w) ==
  /\ wpc[w] = "wait" /\ queuestat > 0
  /\ queuestat' = queuestat - 1
  /\ Goto(w, "try")
  /\ UNCHANGED <<workQueue, holder, mainVars, wtask, runs, interrupts, status>>

WaitInterrupted(w) ==
  /\ wpc[w] = "wait" /\ interrupts < MaxInterrupts
  /\ interrupts' = interrupts + 1
  /\ Goto(w, "front")
  /\ UNCHANGED <<workQueue, holder, queuestat, mainVars, wtask, runs, status>>

FaultyTryLock(w) ==                                        \* result ignored
  /\ wpc[w] = "try"
  /\ Goto(w, "front")
  /\ UNCHANGED <<workQueue, holder, queuestat, mainVars, wtask, runs, interrupts,
                 status>>

TryLock(w) ==
  /\ wpc[w] = "try"
  /\ \/ holder = None /\ holder' = w /\ Goto(w, "front")
     \/ holder # None /\ Goto(w, "lock") /\ UNCHANGED holder
  /\ UNCHANGED <<workQueue, queuestat, mainVars, wtask, runs, interrupts,
                 status>>

Lock(w) ==
  /\ wpc[w] = "lock" /\ holder = None
  /\ holder' = w
  /\ Goto(w, "check")
  /\ UNCHANGED <<workQueue, queuestat, mainVars, wtask, runs, interrupts,
                 status>>

CheckEmpty(w) ==
  /\ wpc[w] = "check"
  /\ \/ workQueue = << >> /\ Goto(w, "wait") /\ Unlock
     \/ workQueue # << >> /\ Goto(w, "front") /\ UNCHANGED holder
  /\ Touch(w)
  /\ UNCHANGED <<workQueue, queuestat, mainVars, wtask, runs, interrupts>>

Front(w) ==
  /\ wpc[w] = "front" /\ workQueue # << >>
  /\ wtask' = [wtask EXCEPT ![w] = Head(workQueue)]
  /\ Goto(w, "pop")
  /\ Touch(w)
  /\ UNCHANGED <<workQueue, holder, queuestat, mainVars, runs, interrupts>>

(* front() of an empty list reads its sentinel and pop_front() frees it:   *)
(* the allocator aborts.                                                   *)
FrontOfEmpty(w) ==
  /\ wpc[w] = "front" /\ workQueue = << >>
  /\ status' = "aborted"
  /\ UNCHANGED <<workQueue, holder, queuestat, mainVars, workerVars,
                 interrupts>>

PopFront(w) ==
  /\ wpc[w] = "pop"
  /\ workQueue' = Tail(workQueue)
  /\ Goto(w, "unlock")
  /\ Touch(w)
  /\ UNCHANGED <<holder, queuestat, mainVars, wtask, runs, interrupts>>

UnlockQueue(w) ==
  /\ wpc[w] = "unlock"
  /\ Unlock
  /\ Goto(w, "run")
  /\ UNCHANGED <<workQueue, queuestat, mainVars, wtask, runs, interrupts,
                 status>>

(* doSchedule: an exception of the scheduler ends the whole process.       *)
DoSchedule(w) ==
  /\ wpc[w] = "run"
  /\ runs' = [runs EXCEPT ![wtask[w]] = @ + 1]
  /\ status' = IF wtask[w] \in Failing THEN "exited" ELSE "running"
  /\ Goto(w, "wait")
  /\ wtask' = [wtask EXCEPT ![w] = None]
  /\ UNCHANGED <<workQueue, holder, queuestat, mainVars, interrupts>>

-----------------------------------------------------------------------------
MainStep == \/ \E j \in Jobs : AppendCall(j)
            \/ AppendLock
            \/ AppendRefuse
            \/ AppendPush
            \/ AppendUnlock
            \/ AppendPost

WorkerStep(w) == \/ Wait(w)
                 \/ WaitInterrupted(w)
                 \/ TryLock(w)
                 \/ Lock(w)
                 \/ CheckEmpty(w)
                 \/ Front(w)
                 \/ FrontOfEmpty(w)
                 \/ PopFront(w)
                 \/ UnlockQueue(w)
                 \/ DoSchedule(w)

Next == /\ status = "running"
        /\ MainStep \/ \E w \in Workers : WorkerStep(w)

Spec == Init /\ [][Next]_vars

(***************************************************************************)
(* Every thread is scheduled; nothing is assumed of the order in which     *)
(* they get the mutex, and no signal need ever come.                       *)
(***************************************************************************)
GoesOn(w) == WorkerStep(w) /\ UNCHANGED interrupts

FairSpec == /\ Spec
            /\ WF_vars(status = "running" /\ MainStep)
            /\ \A w \in Workers : WF_vars(status = "running" /\ GoesOn(w))

-----------------------------------------------------------------------------
WorkerPCs == {"wait", "try", "lock", "check", "front", "pop", "unlock", "run"}
MainPCs == {"idle", "lock", "push", "unlock", "post"}

(* The values the variables take.                                          *)
TypeOK == /\ workQueue \in Seq(Jobs)
          /\ holder \in Workers \union {Main, None}
          /\ queuestat \in Nat
          /\ mpc \in MainPCs
          /\ mjob \in Jobs \union {None}
          /\ wpc \in [Workers -> WorkerPCs]
          /\ wtask \in [Workers -> Jobs \union {None}]
          /\ offered \subseteq Jobs
          /\ rejected \subseteq Jobs
          /\ runs \in [Jobs -> Nat]
          /\ interrupts \in Nat
          /\ status \in {"running", "exited", "aborted", "corrupted"}

(* At most one thread is inside the section of code that queue_mutex is    *)
(* there to guard (append between lock and unlock, run() likewise).  An    *)
(* interrupted wait breaks this: the worker skips the mutex.               *)
MutualExclusion == \A t, u \in AtList : t = u

(* What the lock does give: the list is exclusive as long as no wait was   *)
(* interrupted, whether a worker came by trylock or by lock.               *)
ListGuarded == interrupts = 0 => MutualExclusion

(* Threads that own a unit of m_queuestat and have not used it yet.        *)
Woken == {w \in Workers : wpc[w] \in {"try", "lock", "check", "front", "pop"}}

(* Main has pushed a job and not posted it.                                *)
Unposted == IF mpc \in {"unlock", "post"} THEN 1 ELSE 0

Tokens == queuestat + Cardinality(Woken) + Unposted

(* As long as no wait was interrupted the semaphore never counts a job     *)
(* that is not there and never misses one: this is what lets run() pop     *)
(* without looking when trylock succeeds.                                  *)
TokenLaw == interrupts = 0 => Len(workQueue) = Tokens

(* A lost wake-up would leave a job nobody will fetch: each queued job is  *)
(* matched by a token, a worker on its way, or a post still to come.       *)
NoStrandedJob == status = "running" =>
                   Len(workQueue) <= Tokens

(* As long as no wait was interrupted, no worker reaches front() of an     *)
(* empty list or finds another job at pop_front() than at front().         *)
PopsWhatItRead == interrupts = 0 => \A w \in Workers :
  wpc[w] \in {"front", "pop"} =>
    /\ workQueue # << >>
    /\ wpc[w] = "pop" => wtask[w] = Head(workQueue)

(* The queue stays within the limit given to the constructor.              *)
QueueBound == Len(workQueue) <= MaxRequests

Queued == {workQueue[i] : i \in 1..Len(workQueue)}
InHand == {w \in Workers : wpc[w] \in {"unlock", "run"}}

(* No job is run twice, or run while it is still queued, refused or not    *)
(* yet appended; two workers never have the same one in hand.              *)
AtMostOnce == status # "corrupted" =>
  /\ \A j \in Jobs : runs[j] <= 1
  /\ \A j \in Queued \union rejected \union offered : runs[j] = 0
  /\ \A w \in InHand : runs[wtask[w]] = 0 /\ wtask[w] \notin Queued
  /\ \A v, w \in InHand : wtask[v] = wtask[w] => v = w

(* The pool implements the bounded first-in first-out queue.               *)
Abstract == INSTANCE TaskQueue WITH
  offered <- offered \union (IF mpc \in {"lock", "push"} THEN {mjob} ELSE {}),
  queue   <- workQueue,
  taken   <- {wtask[w] : w \in InHand},
  done    <- {j \in Jobs : runs[j] > 0},
  refused <- rejected
ImplementsTaskQueue == Abstract!Spec

(* Every job handed to the pool is run or refused, unless the process      *)
(* ends first.                                                             *)
EveryJobAnswered == \A j \in Jobs :
  (j \notin offered) ~> (runs[j] > 0 \/ j \in rejected \/ status # "running")
=============================================================================
