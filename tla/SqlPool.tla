------------------------------ MODULE SqlPool ------------------------------
(***************************************************************************)
(* The pool of database connections, bin/CGImysql/sql_connection_pool.cpp: *)
(* a list of open connections guarded by a mutex and counted by a          *)
(* semaphore.  A worker borrows a connection for the time of one request   *)
(* (connectionRAII in the scheduler's call) and then gives it back.        *)
(***************************************************************************)
EXTENDS Integers, Sequences, FiniteSets, SequencesExt

CONSTANTS Workers,        \* threads that borrow
          Conns,          \* the connections init() opened: m_MaxConn of them
          MaxInterrupts,  \* bound: signals that interrupt a sem_wait
          Null            \* nullptr; also "nobody" as holder of the mutex

ASSUME SqlAssumption ==
         /\ IsFiniteSet(Workers)
         /\ IsFiniteSet(Conns)
         /\ MaxInterrupts \in Nat
         /\ Null \notin Workers \union Conns

VARIABLES connList,    \* connList
          holder,      \* who holds lock
          reserve,     \* value of the semaphore reserve
          freeConn,    \* m_FreeConn
          curConn,     \* m_CurConn
          pc,          \* where each worker is
          con,         \* the worker's "con", then its conRAII
          interrupts,  \* signals delivered to a waiting worker so far
          status       \* of the process: running, aborted

vars == <<connList, holder, reserve, freeConn, curConn, pc, con, interrupts,
          status>>
counters == <<freeConn, curConn>>

Init == /\ connList \in SetToSeqs(Conns)
        /\ holder = Null
        /\ reserve = Cardinality(Conns)
        /\ freeConn = Cardinality(Conns)
        /\ curConn = 0
        /\ pc = [w \in Workers |-> "idle"]
        /\ con = [w \in Workers |-> Null]
        /\ interrupts = 0
        /\ status = "running"

Goto(w, l) == pc' = [pc EXCEPT ![w] = l]

FaultyLocked(w, from, to) == /\ pc[w] = from              \* does not block
                             /\ holder' = w
                             /\ Goto(w, to)

Locked(w, from, to) == /\ pc[w] = from /\ holder = Null
                       /\ holder' = w
                       /\ Goto(w, to)

-----------------------------------------------------------------------------
(* getConnection tests the list before it has the mutex: a list that looks *)
(* empty is answered with nullptr at once, without waiting.                *)
GetConnection(w) ==
  /\ pc[w] = "idle"
  /\ Goto(w, IF connList = << >> THEN "work" ELSE "wait")
  /\ con' = [con EXCEPT ![w] = Null]
  /\ UNCHANGED <<connList, holder, reserve, counters, interrupts, status>>

FaultyReserveWait(w) ==                                    \* does not block
  /\ pc[w] = "wait"
  /\ reserve' = reserve - 1
  /\ Goto(w, "lock")
  /\ UNCHANGED <<connList, holder, counters, con, interrupts, status>>

ReserveWait(w) ==
  /\ pc[w] = "wait" /\ reserve > 0
  /\ reserve' = reserve - 1
  /\ Goto(w, "lock")
  /\ UNCHANGED <<connList, holder, counters, con, interrupts, status>>

(* The result of wait() is not looked at: an interrupted wait goes on.     *)
WaitInterrupted(w) ==
  /\ pc[w] = "wait" /\ interrupts < MaxInterrupts
  /\ interrupts' = interrupts + 1
  /\ Goto(w, "lock")
  /\ UNCHANGED <<connList, holder, reserve, counters, con, status>>

GetLock(w) ==
  /\ Locked(w, "lock", "front")
  /\ UNCHANGED <<connList, reserve, counters, con, interrupts, status>>

ReadFront(w) ==
  /\ pc[w] = "front" /\ connList # << >>
  /\ con' = [con EXCEPT ![w] = Head(connList)]
  /\ Goto(w, "pop")
  /\ UNCHANGED <<connList, holder, reserve, counters, interrupts, status>>

(* pop_front() of an empty list frees its sentinel.                        *)
FrontOfEmpty(w) ==
  /\ pc[w] = "front" /\ connList = << >>
  /\ status' = "aborted"
  /\ UNCHANGED <<connList, holder, reserve, counters, pc, con, interrupts>>

PopFront(w) ==
  /\ pc[w] = "pop"
  /\ connList' = Tail(connList)
  /\ freeConn' = freeConn - 1 /\ curConn' = curConn + 1
  /\ Goto(w, "unlock")
  /\ UNCHANGED <<holder, reserve, con, interrupts, status>>

GetUnlock(w) ==
  /\ pc[w] = "unlock"
  /\ holder' = Null
  /\ Goto(w, "work")
  /\ UNCHANGED <<connList, reserve, counters, con, interrupts, status>>

FaultyReleaseConnection(w) ==                              \* never given back
  /\ pc[w] = "work"
  /\ Goto(w, "idle")
  /\ UNCHANGED <<connList, holder, reserve, counters, con, interrupts, status>>

(* The request is processed and ~connectionRAII runs; releaseConnection    *)
(* has nothing to do for a null pointer.                                   *)
ReleaseConnection(w) ==
  /\ pc[w] = "work"
  /\ Goto(w, IF con[w] = Null THEN "idle" ELSE "relock")
  /\ UNCHANGED <<connList, holder, reserve, counters, con, interrupts, status>>

ReleaseLock(w) ==
  /\ Locked(w, "relock", "push")
  /\ UNCHANGED <<connList, reserve, counters, con, interrupts, status>>

PushBack(w) ==
  /\ pc[w] = "push"
  /\ connList' = Append(connList, con[w])
  /\ freeConn' = freeConn + 1 /\ curConn' = curConn - 1
  /\ con' = [con EXCEPT ![w] = Null]
  /\ Goto(w, "reunlock")
  /\ UNCHANGED <<holder, reserve, interrupts, status>>

ReleaseUnlock(w) ==
  /\ pc[w] = "reunlock"
  /\ holder' = Null
  /\ Goto(w, "post")
  /\ UNCHANGED <<connList, reserve, counters, con, interrupts, status>>

ReservePost(w) ==
  /\ pc[w] = "post"
  /\ reserve' = reserve + 1
  /\ Goto(w, "idle")
  /\ UNCHANGED <<connList, holder, counters, con, interrupts, status>>

Release(w) == \/ ReleaseConnection(w)
              \/ ReleaseLock(w)
              \/ PushBack(w)
              \/ ReleaseUnlock(w)
              \/ ReservePost(w)

Get(w) == \/ ReserveWait(w)
          \/ WaitInterrupted(w)
          \/ GetLock(w)
          \/ ReadFront(w)
          \/ FrontOfEmpty(w)
          \/ PopFront(w)
          \/ GetUnlock(w)

Step(w) == GetConnection(w) \/ Get(w) \/ Release(w)

Next == status = "running" /\ \E w \in Workers : Step(w)

Spec == Init /\ [][Next]_vars

(* A worker that called the pool runs on, and a request ends; nothing      *)
(* makes a worker ask again.  Nobody promises that a waiter of the mutex   *)
(* or of the semaphore is not passed over again and again, or that a       *)
(* signal ever comes.                                                      *)
GoesOn(w) == (Get(w) \/ Release(w)) /\ UNCHANGED interrupts

FairSpec ==
  /\ Spec
  /\ \A w \in Workers : WF_vars(status = "running" /\ GoesOn(w))

-----------------------------------------------------------------------------
PCs == {"idle", "wait", "lock", "front", "pop", "unlock", "work", "relock",
        "push", "reunlock", "post"}

(* The values the variables take.                                          *)
TypeOK == /\ connList \in Seq(Conns)
          /\ holder \in Workers \union {Null}
          /\ reserve \in Nat
          /\ freeConn \in Int
          /\ curConn \in Int
          /\ pc \in [Workers -> PCs]
          /\ con \in [Workers -> Conns \union {Null}]
          /\ interrupts \in Nat
          /\ status \in {"running", "aborted"}

(* Workers that have removed a connection from the list.                   *)
Out == {w \in Workers : /\ pc[w] \in {"unlock", "work", "relock", "push"}
                        /\ con[w] # Null}
Listed == {connList[i] : i \in 1..Len(connList)}

(* A connection belongs to one worker at a time: MYSQL handles cannot be   *)
(* shared by threads.                                                      *)
ExclusiveHold ==
  /\ \A v, w \in Out : con[v] = con[w] => v = w
  /\ \A w \in Out : con[w] \notin Listed
  /\ \A i, k \in 1..Len(connList) : connList[i] = connList[k] => i = k

(* No connection is lost: each is in the list or with a worker, and the    *)
(* two counters say how many are where.                                    *)
Accounted == /\ Listed \union {con[w] : w \in Out} = Conns
             /\ freeConn = Len(connList)
             /\ curConn = Cardinality(Out)

(* As long as no wait was interrupted, a worker that got past the wait     *)
(* finds a connection in the list.                                         *)
TokenIsConnection == interrupts = 0 =>
  \A w \in Workers : pc[w] = "front" => connList # << >>

(* getConnection returns a connection to whoever asks.                     *)
AlwaysConnected == \A w \in Workers : pc[w] = "work" => con[w] # Null

(* A worker that saw a free connection and waits for the semaphore while   *)
(* others take it either gets on or is passed over by workers that do get  *)
(* connections: the pool never stalls.                                     *)
NeverStalls == \A w \in Workers :
  \/ []<>(pc[w] # "wait")
  \/ []<>(\E v \in Workers : pc[v] = "pop")
  \/ <>(status # "running")
=============================================================================
