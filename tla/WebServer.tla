----------------------------- MODULE WebServer -----------------------------
(***************************************************************************)
(* The server at work: the event loop (webserver.cpp), the workers that    *)
(* run the scheduler's call on connection objects (http_conn.cpp), the     *)
(* kernel's descriptors and epoll registrations, the timers of the         *)
(* connections, and the clients.                                           *)
(*                                                                         *)
(* There is one http_conn object per descriptor: httpConnForUsers[fd]; it  *)
(* outlives the connection and serves the next one on that descriptor.  A  *)
(* timer is named by the client it was created for.  The pool's queue is   *)
(* the bounded queue ThreadPool implements; database connections (SqlPool) *)
(* are taken and given back inside process() and are left out.             *)
(***************************************************************************)
EXTENDS Integers, Sequences, FiniteSets, TimerOrder

CONSTANTS Clients,       \* each connects at most once
          Fds,           \* descriptors accept can return
          Workers,
          Settings,      \* the configurations and environments to consider
          Lifetime,      \* time slots a timer runs for: 3
          MaxSends,      \* bound: how often a client sends
          None

(* Of a setting, mode says who reads and writes, the workers ("reactor")   *)
(* or the event loop ("proactor"); edge whether the listening socket is    *)
(* edge-triggered; maxRequests is the limit of the pool's queue, maxFd     *)
(* that of active connections (MAX_FD).  The rest is what the environment  *)
(* may do: closes, send requests that process_write refuses; slow, let     *)
(* time slots pass while a worker is at a job; torn, halt a worker between *)
(* improv and timer_flag; stop, send SIGTERM.                              *)
ASSUME WebAssumption ==
         /\ Fds \subseteq Nat /\ IsFiniteSet(Fds)
         /\ Settings \subseteq
              [mode : {"reactor", "proactor"}, edge : BOOLEAN,
               maxRequests : Nat \ {0}, maxFd : Nat,
               closes : BOOLEAN, slow : BOOLEAN, torn : BOOLEAN, stop : BOOLEAN]
         /\ Lifetime \in Nat \ {0} /\ MaxSends \in Nat
         /\ None \notin Clients \union Fds

VARIABLES
  setting,    \* never changes
  client,     \* per client: its side of the connection
  got,        \* per client: whose requests the answers it received are for
  sock,       \* per descriptor: the client at the other end, None if closed
  epoll,      \* per descriptor: "none", "off" (disarmed), "in" or "out"
  conn,       \* per descriptor: its http_conn object
  improv, timerFlag,         \* the two flags of that object
  userCount,  \* m_user_count
  queue,      \* the pool's queue: descriptors
  worker,     \* per worker: where it is, its task, the clients whose request
              \* it has read out of the buffer, what it read of userCount
  mpc, mfd, batch,           \* the event loop: where, for whom, epollEvents
  timeout, stopServer,
  timers, ttl,               \* the timer list; slots each timer has left
  timerFd,    \* per timer: the descriptor it is to close
  userTimer,  \* per descriptor: users_timer[fd].timer
  pipe, alarm,               \* signals in the pipe; is the alarm set?
  status      \* running, stopped, drained or dangling

clientVars == <<client, got>>
kernelVars == <<sock, epoll>>
connVars == <<conn, improv, timerFlag>>
mainVars == <<mpc, mfd, batch, timeout, stopServer>>
timerVars == <<timers, ttl, timerFd, userTimer>>
signalVars == <<pipe, alarm>>
vars == <<setting, clientVars, kernelVars, connVars, userCount, queue, worker,
          mainVars, timerVars, signalVars, status>>

-----------------------------------------------------------------------------
(* http_conn::init(): what it leaves of a connection object, but for live. *)
(* buf: what the read buffer holds of a request; from: who sent it; resp:  *)
(* for whom the answer in the write buffer is, {} when bytes_to_send is 0. *)
FaultyReset(c) == [c EXCEPT !.state = 0, !.buf = "empty", !.from = {}]
Reset(c) == [c EXCEPT !.state = 0, !.buf = "empty", !.from = {}, !.resp = {},
                      !.linger = FALSE, !.partial = FALSE]

Idle == [at |-> "idle", task |-> None, asked |-> {}, count |-> 0]

Fresh == [live |-> FALSE, state |-> 0, buf |-> "empty", from |-> {},
          resp |-> {}, linger |-> FALSE, partial |-> FALSE]

Init ==
  /\ setting \in Settings
  /\ client = [c \in Clients |-> [at |-> "new", inbuf |-> "none", sends |-> 0]]
  /\ got = [c \in Clients |-> {}]
  /\ sock = [k \in Fds |-> None]
  /\ epoll = [k \in Fds |-> "none"]
  /\ conn = [k \in Fds |-> Fresh]
  /\ improv = [k \in Fds |-> 0]
  /\ timerFlag = [k \in Fds |-> 0]
  /\ userCount = 0
  /\ queue = << >>
  /\ worker = [w \in Workers |-> Idle]
  /\ mpc = "wait" /\ mfd = None /\ batch = {}
  /\ timeout = FALSE /\ stopServer = FALSE
  /\ timers = << >>
  /\ ttl = [c \in Clients |-> 0]
  /\ timerFd = [c \in Clients |-> None]
  /\ userTimer = [k \in Fds |-> None]
  /\ pipe = {} /\ alarm = TRUE
  /\ status = "running"

-----------------------------------------------------------------------------
(* Clients.  One that asked (sent the end of a request) waits for the      *)
(* answer before it sends more; it may leave at any time.                  *)
At(c, l) == client' = [client EXCEPT ![c].at = l]

Connect(c) == /\ client[c].at = "new"
              /\ At(c, "backlog")
              /\ UNCHANGED got

Send(c, part) ==
  /\ client[c].at = "talking" /\ client[c].sends < MaxSends
  /\ client[c].inbuf # "last"
  /\ client' = [client EXCEPT ![c] =
                  [at |-> IF part = "last" THEN "asked" ELSE "talking",
                   inbuf |-> part, sends |-> @.sends + 1]]
  /\ UNCHANGED got

Leave(c) == /\ client[c].at \in {"talking", "asked", "told"}
            /\ At(c, "gone")
            /\ UNCHANGED got

ClientStep == /\ \E c \in Clients : \/ Connect(c)
                                    \/ \E part \in {"part", "last"} : Send(c, part)
                                    \/ Leave(c)
              /\ UNCHANGED <<setting, kernelVars, connVars, userCount, queue,
                             worker, mainVars, timerVars, signalVars, status>>

-----------------------------------------------------------------------------
(* The kernel.                                                             *)
Gone(c) == [c EXCEPT !.at = "gone", !.inbuf = "none"]
Closed(cl, k) == IF sock[k] = None THEN cl ELSE [cl EXCEPT ![sock[k]] = Gone(@)]

(* epoll_ctl(DEL) and close().                                             *)
FaultyCloseFd(k) == UNCHANGED <<client, sock, epoll>>       \* never closed
CloseFd(k) == /\ sock' = [sock EXCEPT ![k] = None]
              /\ epoll' = [epoll EXCEPT ![k] = "none"]
              /\ client' = Closed(client, k)

(* modfd on m_sockfd: fails on -1 and on what is not registered.           *)
Armed(k, ev) == IF conn[k].live /\ epoll[k] # "none"
                THEN [epoll EXCEPT ![k] = ev] ELSE epoll

-----------------------------------------------------------------------------
(* read_once() on object k.  It fails when there is nothing to read, the   *)
(* descriptor is gone, the peer reset it, or the buffer is full.           *)
Readable(k) == /\ conn[k].live /\ sock[k] # None
               /\ client[sock[k]].inbuf # "none"

ReadOnceOk(k) ==
  /\ Readable(k)
  /\ conn' = [conn EXCEPT
       ![k].buf = IF "whole" = @ \/ client[sock[k]].inbuf = "last"
                  THEN "whole" ELSE "part",
       ![k].from = @ \union {sock[k]}]
  /\ client' = [client EXCEPT ![sock[k]].inbuf = "none"]

ReadOnceFails(k) ==
  Readable(k) => client[sock[k]].at = "gone" \/ conn[k].buf # "empty"

(* write() on object k; outcome tells its ways out apart.  "init": ends in *)
(* init(), true; "again": EAGAIN, true (once for each answer); "last": all *)
(* sent and no keep-alive, false; "error": false.                          *)
Outcomes == {"init", "again", "last", "error"}
Returns(outcome) == outcome \in {"init", "again"}

Writable(k) == conn[k].live /\ sock[k] # None
Sends(k) == /\ Writable(k) /\ conn[k].resp # {}
            /\ got' = [got EXCEPT ![sock[k]] = @ \union conn[k].resp]

WriteOnce(k, outcome) ==
  \/ /\ outcome = "init" /\ conn[k].resp = {}
     /\ conn' = [conn EXCEPT ![k] = Reset(@)]
     /\ UNCHANGED got
  \/ /\ outcome = "init" /\ conn[k].linger /\ Sends(k)
     /\ conn' = [conn EXCEPT ![k] = Reset(@)]
  \/ /\ outcome = "last" /\ ~conn[k].linger /\ Sends(k)
     /\ conn' = [conn EXCEPT ![k].resp = {}]
  \/ /\ outcome = "again" /\ conn[k].resp # {} /\ Writable(k) /\ ~conn[k].partial
     /\ conn' = [conn EXCEPT ![k].partial = TRUE]
     /\ UNCHANGED got
  \/ /\ outcome = "error" /\ conn[k].resp # {}
     /\ Writable(k) => client[sock[k]].at = "gone"
     /\ UNCHANGED <<conn, got>>

(* The descriptor is re-armed by all but a failed writev.                  *)
FaultyReArm(k, outcome) ==                                  \* not after EAGAIN
  IF outcome \in {"init", "last"} THEN Armed(k, "in") ELSE epoll
ReArm(k, outcome) == CASE outcome \in {"init", "last"} -> Armed(k, "in")
                       [] outcome = "again"           -> Armed(k, "out")
                       [] outcome = "error"           -> epoll

(* The client reads its answer, and in it whether it may ask again.        *)
Told(k, outcome) ==
  IF /\ outcome \in {"init", "last"} /\ conn[k].resp # {} /\ sock[k] # None
     /\ client[sock[k]].at = "asked"
  THEN [client EXCEPT ![sock[k]].at = IF outcome = "init" THEN "talking" ELSE "told"]
  ELSE client

-----------------------------------------------------------------------------
(* Workers: the scheduler's call(task).                                    *)
Goto(w, l) ==
  worker' = [worker EXCEPT ![w] = IF l = "idle" THEN Idle
                                  ELSE [@ EXCEPT !.at = l, !.asked = {}]]

Fetch(w) ==
  /\ worker[w].at = "idle" /\ queue # << >>
  /\ queue' = Tail(queue)
  /\ worker' = [worker EXCEPT ![w].task = Head(queue), ![w].at =
                  IF setting.mode = "proactor" THEN "process"
                  ELSE IF conn[Head(queue)].state = 0 THEN "read" ELSE "write"]
  /\ UNCHANGED <<clientVars, kernelVars, connVars, userCount>>

(* improv = 1, which lets the event loop go, and, if the connection is to  *)
(* go, after it timer_flag = 1.                                            *)
ReportFailure(w) ==
  \/ setting.torn /\ Goto(w, "flag") /\ UNCHANGED timerFlag
  \/ /\ ~setting.torn /\ Goto(w, "idle")
     /\ timerFlag' = [timerFlag EXCEPT ![worker[w].task] = 1]

FaultyImproved(w) == UNCHANGED improv                       \* never reported
Improved(w) == improv' = [improv EXCEPT ![worker[w].task] = 1]

DoRead(w) ==
  /\ worker[w].at = "read"
  /\ Improved(w)
  /\ \/ ReadOnceOk(worker[w].task) /\ Goto(w, "process") /\ UNCHANGED timerFlag
     \/ ReadOnceFails(worker[w].task) /\ ReportFailure(w) /\ UNCHANGED <<client, conn>>
  /\ UNCHANGED <<got, kernelVars, userCount, queue>>

(* The init() in write() clears timer_flag too.                            *)
DoWrite(w) ==
  /\ worker[w].at = "write"
  /\ Improved(w)
  /\ \E outcome \in Outcomes :
       /\ WriteOnce(worker[w].task, outcome)
       /\ epoll' = ReArm(worker[w].task, outcome)
       /\ client' = Told(worker[w].task, outcome)
       /\ \/ /\ Returns(outcome) /\ Goto(w, "idle")
             /\ timerFlag' = IF outcome = "init"
                             THEN [timerFlag EXCEPT ![worker[w].task] = 0] ELSE timerFlag
          \/ ~Returns(outcome) /\ ReportFailure(w)
  /\ UNCHANGED <<sock, userCount, queue>>

SetTimerFlag(w) ==
  /\ worker[w].at = "flag"
  /\ timerFlag' = [timerFlag EXCEPT ![worker[w].task] = 1]
  /\ Goto(w, "idle")
  /\ UNCHANGED <<clientVars, kernelVars, conn, improv, userCount, queue>>

(* process(): NO_REQUEST (more to come, or a line that does not parse)     *)
(* re-arms the descriptor for reading ...                                  *)
NoRequest(w) ==
  /\ worker[w].at = "process"
  /\ epoll' = Armed(worker[w].task, "in")
  /\ Goto(w, "idle")
  /\ UNCHANGED <<clientVars, sock, connVars, userCount, queue>>

(* ... a whole request goes through do_request ...                         *)
DoRequest(w) ==
  /\ worker[w].at = "process" /\ conn[worker[w].task].buf = "whole"
  /\ worker' = [worker EXCEPT ![w].at = "reply", ![w].asked = conn[worker[w].task].from]
  /\ UNCHANGED <<clientVars, kernelVars, connVars, userCount, queue>>

(* ... process_write writes its answer into the object, or refuses to ...  *)
ProcessWrite(w) ==
  LET k == worker[w].task
  IN /\ worker[w].at = "reply"
     /\ \/ /\ \E keep \in BOOLEAN :
                conn' = [conn EXCEPT ![k].buf = "part", ![k].resp = @ \union worker[w].asked,
                                     ![k].linger = @ \/ keep, ![k].partial = FALSE]
           /\ Goto(w, "arm")
        \/ setting.closes /\ Goto(w, "close") /\ UNCHANGED conn
     /\ UNCHANGED <<clientVars, kernelVars, improv, timerFlag, userCount, queue>>

(* ... and the descriptor is armed for writing.                            *)
ArmOut(w) ==
  /\ worker[w].at = "arm"
  /\ epoll' = Armed(worker[w].task, "out")
  /\ Goto(w, "idle")
  /\ UNCHANGED <<clientVars, sock, connVars, userCount, queue>>

(* close_conn(): removefd, m_sockfd = -1, and m_user_count-- in two steps. *)
RemoveFd(w) ==
  /\ worker[w].at = "close"
  /\ \/ conn[worker[w].task].live /\ CloseFd(worker[w].task) /\ Goto(w, "closed")
     \/ ~conn[worker[w].task].live /\ Goto(w, "arm") /\ UNCHANGED <<client, kernelVars>>
  /\ UNCHANGED <<got, connVars, userCount, queue>>

ForgetFd(w) ==
  /\ worker[w].at = "closed"
  /\ conn' = [conn EXCEPT ![worker[w].task].live = FALSE]
  /\ worker' = [worker EXCEPT ![w].at = "count", ![w].count = userCount]
  /\ UNCHANGED <<clientVars, kernelVars, improv, timerFlag, userCount, queue>>

(* Request::release(), also called by close_conn(), is Site's.              *)
CountDown(w) ==
  /\ worker[w].at = "count"
  /\ userCount' = worker[w].count - 1
  /\ Goto(w, "arm")
  /\ UNCHANGED <<clientVars, kernelVars, connVars, queue>>

WorkerStep(w) == /\ \/ Fetch(w)
                    \/ DoRead(w)
                    \/ DoWrite(w)
                    \/ SetTimerFlag(w)
                    \/ NoRequest(w)
                    \/ DoRequest(w)
                    \/ ProcessWrite(w)
                    \/ ArmOut(w)
                    \/ RemoveFd(w)
                    \/ ForgetFd(w)
                    \/ CountDown(w)
                 /\ UNCHANGED <<setting, mainVars, timerVars, signalVars,
                                status>>

-----------------------------------------------------------------------------
(* The event loop.  Ready: what epoll_wait reports; a peer that left is    *)
(* reported first, whatever the descriptor was armed for.                  *)
Listen == [fd |-> None, kind |-> "listen"]
Signal == [fd |-> None, kind |-> "signal"]

Ready ==
  {[fd |-> k, kind |-> IF client[sock[k]].at = "gone" THEN "hup" ELSE epoll[k]] :
     k \in {f \in Fds : /\ epoll[f] \in {"in", "out"}
                        /\ \/ epoll[f] = "out"
                           \/ client[sock[f]].at = "gone"
                           \/ client[sock[f]].inbuf # "none"}}
  \union (IF \E c \in Clients : client[c].at = "backlog" THEN {Listen} ELSE {})
  \union (IF pipe # {} THEN {Signal} ELSE {})

(* An edge-triggered listening socket reports each arrival once.           *)
Seen == [c \in Clients |-> IF client[c].at = "backlog"
                           THEN [client[c] EXCEPT !.at = "reported"] ELSE client[c]]
FaultyReported == Seen                             \* edge-triggered always
Reported == IF setting.edge THEN Seen ELSE client

(* EPOLLONESHOT: what is reported is disarmed.                             *)
FaultyOneShot(reported) == epoll
OneShot(reported) ==
  [k \in Fds |-> IF \E e \in reported : e.fd = k THEN "off" ELSE epoll[k]]

EpollWait ==
  /\ mpc = "wait" /\ Ready # {}
  /\ batch' = Ready
  /\ client' = Reported
  /\ epoll' = OneShot(Ready)
  /\ mpc' = "batch"
  /\ UNCHANGED <<got, sock, connVars, userCount, queue, mfd, timeout,
                 stopServer, timerVars, signalVars, status>>

(* The loop takes the events of a batch one by one.                        *)
Handling(e) == mpc = "batch" /\ e \in batch /\ batch' = batch \ {e}

(* accept, then createTimerForUser with http_conn::init.                   *)
FreeFds == {k \in Fds : sock[k] = None}
Lowest(S) == CHOOSE k \in S : \A l \in S : k <= l

CreateTimerForUser(c, k) ==
  /\ sock' = [sock EXCEPT ![k] = c]
  /\ epoll' = [epoll EXCEPT ![k] = "in"]
  /\ conn' = [conn EXCEPT ![k] = [Reset(@) EXCEPT !.live = TRUE]]
  /\ improv' = [improv EXCEPT ![k] = 0]
  /\ timerFlag' = [timerFlag EXCEPT ![k] = 0]
  /\ userCount' = userCount + 1
  /\ timers' = InsertBy(timers, ttl, c, Lifetime)
  /\ ttl' = [ttl EXCEPT ![c] = Lifetime]
  /\ timerFd' = [timerFd EXCEPT ![c] = k]
  /\ userTimer' = [userTimer EXCEPT ![k] = c]

Backlog == {c \in Clients : client[c].at \in {"backlog", "reported"}}

Accept == \E c \in Backlog :
  /\ FreeFds # {} /\ userCount < setting.maxFd
  /\ At(c, "talking")
  /\ CreateTimerForUser(c, Lowest(FreeFds))

AcceptFails ==
  /\ \/ FreeFds = {} /\ UNCHANGED client               \* EMFILE
     \/ FreeFds # {} /\ Backlog = {} /\ UNCHANGED client   \* EAGAIN
     \/ /\ FreeFds # {} /\ userCount >= setting.maxFd       \* server busy
        /\ \E c \in Backlog : At(c, "gone")
  /\ UNCHANGED <<kernelVars, conn, improv, timerFlag, userCount, timerVars>>

(* Level-triggered: one try for each event.  Edge-triggered: tries until   *)
(* one succeeds, and leaves the loop then, whoever else is waiting.        *)
DealClientData ==
  /\ \/ Handling(Listen)
     \/ mpc = "accept" /\ UNCHANGED batch
  /\ \/ Accept /\ mpc' = "batch"
     \/ AcceptFails /\ mpc' = IF setting.edge THEN "accept" ELSE "batch"
  /\ UNCHANGED <<got, queue, mfd, timeout, stopServer, signalVars, status>>

(* remove_timer(users_timer[k].timer, k): close_user_fd(k), then the list. *)
(* A timer that was deleted before makes the outcome undefined.            *)
(* The fields of a deleted timer are no longer told apart; the pointer to  *)
(* it, users_timer[fd].timer, is left as it is.                            *)
Deleted(ts) == /\ ttl' = [c \in Clients |-> IF c \in ts THEN 0 ELSE ttl[c]]
               /\ timerFd' = [c \in Clients |-> IF c \in ts THEN None ELSE timerFd[c]]
               /\ UNCHANGED userTimer

FaultyCloseUserFd(k) == CloseFd(k) /\ UNCHANGED userCount
CloseUserFd(k) == CloseFd(k) /\ userCount' = userCount - 1

Dangling(k) == userTimer[k] \notin Running(timers)

RemoveTimer(k) ==
  /\ CloseUserFd(k)
  /\ timers' = IF Dangling(k) THEN timers ELSE Without(timers, userTimer[k])
  /\ status' = IF Dangling(k) THEN "dangling" ELSE status
  /\ Deleted({userTimer[k]})

AdjustTimer(k) ==
  LET t == userTimer[k]
  IN /\ timers' = IF Dangling(k) THEN timers
                  ELSE InsertBy(Without(timers, t), ttl, t, Lifetime)
     /\ ttl' = [ttl EXCEPT ![t] = Lifetime]
     /\ status' = IF Dangling(k) THEN "dangling" ELSE status
     /\ UNCHANGED <<timerFd, userTimer>>

Hangup(k) ==
  /\ Handling([fd |-> k, kind |-> "hup"])
  /\ RemoveTimer(k)
  /\ UNCHANGED <<got, connVars, queue, mpc, mfd, timeout, stopServer, signalVars>>

DealSysSignal ==
  /\ Handling(Signal)
  /\ timeout' = (timeout \/ "ALRM" \in pipe)
  /\ stopServer' = (stopServer \/ "TERM" \in pipe)
  /\ pipe' = {}
  /\ UNCHANGED <<clientVars, kernelVars, connVars, userCount, queue, mpc, mfd,
                 timerVars, alarm, status>>

(* append(): a full queue refuses the job, and nobody looks at the result. *)
FaultyQueueFull == Len(queue) + 1 >= setting.maxRequests
QueueFull == Len(queue) >= setting.maxRequests
AppendJob(k) == queue' = IF QueueFull THEN queue ELSE Append(queue, k)

(* Reactor: hand the descriptor to a worker, and spin until it reports.    *)
HandOver(k, kind, state) ==
  /\ setting.mode = "reactor"
  /\ Handling([fd |-> k, kind |-> kind])
  /\ AdjustTimer(k)
  /\ AppendJob(k)
  /\ conn' = IF QueueFull THEN conn ELSE [conn EXCEPT ![k].state = state]
  /\ mpc' = "spin" /\ mfd' = k
  /\ UNCHANGED <<clientVars, kernelVars, improv, timerFlag, userCount, timeout,
                 stopServer, signalVars>>

SeeImprov ==
  /\ mpc = "spin" /\ improv[mfd] = 1
  /\ mpc' = "seen"
  /\ UNCHANGED <<clientVars, kernelVars, connVars, userCount, queue, mfd, batch,
                 timeout, stopServer, timerVars, signalVars, status>>

EndSpin ==
  /\ mpc = "seen"
  /\ \/ timerFlag[mfd] = 1 /\ RemoveTimer(mfd)
     \/ timerFlag[mfd] = 0 /\ UNCHANGED <<client, kernelVars, userCount, timerVars,
                                          status>>
  /\ timerFlag' = [timerFlag EXCEPT ![mfd] = 0]
  /\ improv' = [improv EXCEPT ![mfd] = 0]
  /\ mpc' = "batch" /\ mfd' = None
  /\ UNCHANGED <<got, conn, queue, batch, timeout, stopServer, signalVars>>

(* Proactor: the event loop reads and writes itself.                       *)
ReadHere(k) ==
  /\ setting.mode = "proactor"
  /\ Handling([fd |-> k, kind |-> "in"])
  /\ \/ /\ ReadOnceOk(k) /\ AppendJob(k) /\ AdjustTimer(k)
        /\ UNCHANGED <<kernelVars, userCount>>
     \/ /\ ReadOnceFails(k) /\ RemoveTimer(k)
        /\ UNCHANGED <<conn, queue>>
  /\ UNCHANGED <<got, improv, timerFlag, mpc, mfd, timeout, stopServer, signalVars>>

WriteHere(k) ==
  /\ setting.mode = "proactor"
  /\ Handling([fd |-> k, kind |-> "out"])
  /\ \E outcome \in Outcomes :
       /\ WriteOnce(k, outcome)
       /\ \/ /\ Returns(outcome) /\ AdjustTimer(k)
             /\ epoll' = ReArm(k, outcome)
             /\ client' = Told(k, outcome)
             /\ UNCHANGED <<sock, userCount>>
          \/ ~Returns(outcome) /\ RemoveTimer(k)
  /\ UNCHANGED <<improv, timerFlag, queue, mpc, mfd, timeout, stopServer, signalVars>>

(* Deadlines pass: tick() closes the descriptors of the expired timers.    *)
FaultyExpired == {t \in Running(timers) : ttl[t] <= 1}
Expired == {t \in Running(timers) : ttl[t] = 0}
Drained == timers # << >> /\ Expired = Running(timers)

(* alarm(TIMESLOT), which timer_handler sets again.                        *)
FaultySetAlarm == alarm' = FALSE
SetAlarm == alarm' = TRUE

TimerHandler ==
  LET gone == {timerFd[t] : t \in Expired}
      lost == {sock[k] : k \in gone} \ {None}
  IN /\ sock' = [k \in Fds |-> IF k \in gone THEN None ELSE sock[k]]
     /\ epoll' = [k \in Fds |-> IF k \in gone THEN "none" ELSE epoll[k]]
     /\ client' = [c \in Clients |->
                     IF c \in lost THEN Gone(client[c]) ELSE client[c]]
     /\ userCount' = userCount - Cardinality(Expired)
     /\ timers' = SubSeq(timers, Cardinality(Expired) + 1, Len(timers))
     /\ SetAlarm
     /\ timeout' = FALSE
     /\ Deleted(Expired)

EndBatch ==
  /\ mpc = "batch" /\ batch = {}
  /\ mpc' = "wait"
  /\ \/ timeout /\ TimerHandler
     \/ ~timeout /\ UNCHANGED <<client, kernelVars, userCount, timerVars, alarm, timeout>>
  /\ status' = IF timeout /\ Drained THEN "drained"
               ELSE IF stopServer THEN "stopped" ELSE status
  /\ UNCHANGED <<got, connVars, queue, mfd, batch, stopServer, pipe>>

MainStep == /\ \/ EpollWait
               \/ DealClientData
               \/ DealSysSignal
               \/ \E k \in Fds : \/ Hangup(k)
                                 \/ HandOver(k, "in", 0)
                                 \/ HandOver(k, "out", 1)
                                 \/ ReadHere(k)
                                 \/ WriteHere(k)
               \/ SeeImprov
               \/ EndSpin
               \/ EndBatch
            /\ UNCHANGED <<setting, worker>>

-----------------------------------------------------------------------------
(* A time slot passes; the alarm, set again only by timer_handler, sends   *)
(* its byte into the pipe.                                                 *)
Aged(c) == IF ttl[c] > 0 THEN ttl[c] - 1 ELSE 0

AllIdle == queue = << >> /\ \A w \in Workers : worker[w].at = "idle"

Clock == /\ setting.slow \/ AllIdle
         /\ ttl' = [c \in Clients |-> Aged(c)]
         /\ pipe' = IF alarm THEN pipe \union {"ALRM"} ELSE pipe
         /\ alarm' = FALSE
         /\ UNCHANGED <<setting, clientVars, kernelVars, connVars, userCount,
                        queue, worker, mainVars, timers, timerFd, userTimer,
                        status>>

Terminate == /\ setting.stop /\ ~stopServer /\ "TERM" \notin pipe
             /\ pipe' = pipe \union {"TERM"}
             /\ UNCHANGED <<setting, clientVars, kernelVars, connVars,
                            userCount, queue, worker, mainVars, timerVars, alarm,
                            status>>

Next == /\ status = "running"
        /\ \/ ClientStep
           \/ MainStep
           \/ \E w \in Workers : WorkerStep(w)
           \/ Clock
           \/ Terminate

Spec == Init /\ [][Next]_vars

(* The threads of the server are scheduled and time passes; clients need   *)
(* do nothing.                                                             *)
FairSpec == /\ Spec
            /\ WF_vars(status = "running" /\ MainStep)
            /\ \A w \in Workers : WF_vars(status = "running" /\ WorkerStep(w))
            /\ WF_vars(status = "running" /\ Clock)

-----------------------------------------------------------------------------
Queued == {queue[i] : i \in 1..Len(queue)}
Working(k) == {w \in Workers : worker[w].task = k /\ worker[w].at # "idle"}
Unreported(k) == {w \in Working(k) : worker[w].at \in {"read", "write"}}
Spinning(k) == mpc \in {"spin", "seen"} /\ mfd = k

(* The reactor's handshake: while the event loop spins on a descriptor its *)
(* job is at exactly one place - queued, with a worker that has yet to     *)
(* report, or reported in improv; when it does not spin there is none.     *)
(* Otherwise it would spin for ever, or leave before the worker has read.  *)
Handshake == setting.mode = "reactor" =>
  \A k \in Fds :
    LET places == Cardinality(Unreported(k)) + improv[k]
                    + Cardinality({i \in 1..Len(queue) : queue[i] = k})
    IN places = IF Spinning(k) THEN 1 ELSE 0

(* The event loop gets back to its events: it cannot be left spinning.     *)
SpinEnds == mpc = "spin" ~> (mpc = "batch" \/ status # "running")

(* Every open connection has a running timer of its own, which             *)
(* users_timer finds, so it can time out - though a timer that a closed    *)
(* connection left behind may close the next one before its time.          *)
OpenHasTimer == status = "running" =>
  /\ \A i, l \in 1..Len(timers) : timers[i] = timers[l] => i = l
  /\ \A k \in Fds : sock[k] # None =>
       sock[k] \in Running(timers) /\ timerFd[sock[k]] = k /\ userTimer[k] = sock[k]

(* Open connections and running timers correspond: each connection can     *)
(* time out, and no timer is left to close a descriptor that was reused.   *)
TimersMatch == status = "running" =>
  /\ OpenHasTimer
  /\ \A t \in Running(timers) : sock[timerFd[t]] = t

(* m_user_count is the number of connections.                              *)
CountsConnections == status \in {"running", "stopped"} =>
  userCount = Cardinality({k \in Fds : sock[k] # None})

(* The event loop never adjusts or removes a timer that was deleted.       *)
NoDanglingTimer == status # "dangling"

(* No worker is slower than a time slot, halts between its two flags or    *)
(* closes a connection itself.  What the code promises only then is stated *)
(* for calm settings.                                                      *)
Calm == ~setting.slow /\ ~setting.torn /\ ~setting.closes

(* One worker at a time is at a connection object.                         *)
OneWorker == Calm => \A k \in Fds : Cardinality(Working(k)) <= 1

(* A client is only sent answers to what it asked itself, whatever         *)
(* descriptor it inherited.                                                *)
OwnAnswers == Calm => \A c \in Clients : got[c] \subseteq {c}

(* The descriptor a worker is at stays open and stays with its client.     *)
NotUnderWorker ==
  [][\A w \in Workers :
       (Calm /\ worker[w].at \in {"read", "write", "process", "reply", "arm"}) =>
         sock'[worker[w].task] = sock[worker[w].task]]_vars

(* A connection that epoll will not report is in somebody's hands, as long *)
(* as the queue has room for every descriptor.                             *)
NobodyForgotten == (Calm /\ setting.maxRequests >= Cardinality(Fds)) =>
  \A k \in Fds :
    (status = "running" /\ sock[k] # None /\ epoll[k] = "off") =>
       \/ \E e \in batch : e.fd = k
       \/ k \in Queued
       \/ Working(k) # {}
       \/ Spinning(k)

(* A client in the backlog of a level-triggered listening socket is        *)
(* accepted or turned away, even if it comes while no descriptor is free   *)
(* or others are being accepted.                                           *)
BacklogServed == \A c \in Clients :
  (c \in Backlog /\ ~setting.edge) ~> (c \notin Backlog \/ status # "running")

(* Every connection ends: if its client, a response or a lost report does  *)
(* not end it, its timer does.  The run listens level-triggered: with      *)
(* edge-triggered listening accept can repeat for ever and no alarm is     *)
(* handled.                                                                *)
ConnectionsEnd == \A c \in Clients :
  (\E k \in Fds : sock[k] = c) ~> ((\A k \in Fds : sock[k] # c) \/ status # "running")
=============================================================================
