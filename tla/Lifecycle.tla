------------------------------ MODULE Lifecycle ------------------------------
(***************************************************************************)
(* The process from main() to its end: the settings (configure.cpp), the   *)
(* steps of main.cpp, the event loop as far as the end of the process      *)
(* depends on it, and the three signals.  SIGALRM and SIGTERM go through a *)
(* pipe to the loop (Utils::sig_handler); SIGINT runs cleanResHandler      *)
(* (bin/signal_handler/server_handler.cpp), which deletes the server on    *)
(* the spot, in whatever thread it interrupts and whatever that holds.     *)
(*                                                                         *)
(* What the threads do with a server that is deleted is undefined: they    *)
(* crash, or go on with what is left in its memory; only that the          *)
(* descriptors are closed is certain.                                      *)
(***************************************************************************)
EXTENDS Naturals, Sequences

CONSTANTS Workers,        \* the threads of the pool
          Starts,         \* [xml, args]: conf/server-config.xml, a record
                          \* [there, props], and the command line, a
                          \* sequence of [opt, value]
          MaxQuits, MaxTerms  \* bounds: SIGINTs, SIGTERMs

ASSUME LifecycleAssumption ==
  /\ "main" \notin Workers /\ MaxQuits \in Nat /\ MaxTerms \in Nat
  /\ \A start \in Starts : start.args \in Seq({start.args[i] : i \in DOMAIN start.args})

VARIABLES mpc,            \* the next step of main
          xml, args, optind,  \* the file, the command line, how much is read
          props,          \* Configure::tab
          set,            \* the members parse_arg sets and nobody reads
          srv,            \* members of the server, once loaded
          server, binder, \* none, live, deleted: the server, templateBinder
          app,            \* current_app is not null
          fds,            \* none, open, closed: the server's descriptors
          at, batch,      \* where the loop is, events still to be handled
          timeout, stop,  \* what deal_sys_signal found
          pipe, armed,    \* bytes in u_pipefd; the alarm is set
          hpc,            \* thread -> where cleanResHandler is in it, or none
          sending,        \* the signal main runs sig_handler for, or none
          holder,         \* lock -> who holds it, or nobody
          quits, terms,   \* SIGINTs and SIGTERMs so far
          status          \* running, killed (by a signal), crashed, exited

confVars == <<xml, args, optind, props, set>>
serverVars == <<srv, server, binder, app, fds>>
loopVars == <<at, batch, timeout, stop>>
signalVars == <<pipe, armed, hpc, sending, quits, terms>>
vars == <<mpc, confVars, serverVars, loopVars, signalVars, holder, status>>

(* setProp: what is set now goes over what was there.                      *)
Over(new, old) == [name \in DOMAIN new \union DOMAIN old |->
                     IF name \in DOMAIN new THEN new[name] ELSE old[name]]

Threads == {"main"} \union Workers
Locks == {"log", "heap"}              \* Logger's mutex, and malloc's

Steps == <<"conf", "xml", "args", "build", "handler", "binder", "load", "log",
           "pool", "threads", "trig", "bind", "user", "listen", "addsig", "alarm",
           "pipe", "loop">>
Past(step) == \E i, k \in 1..Len(Steps) : i < k /\ Steps[i] = step /\ Steps[k] = mpc

Defaults == [trig |-> 0, conns |-> 8, threads |-> 8, close |-> 0, mode |-> 0]

Init == /\ mpc = "conf"
        /\ \E start \in Starts : xml = start.xml /\ args = start.args
        /\ optind = 0 /\ props = << >> /\ set = << >>
        /\ srv = << >> /\ server = "none" /\ binder = "none" /\ app = FALSE
        /\ fds = "none" /\ at = "top" /\ batch = {} /\ timeout = FALSE /\ stop = FALSE
        /\ pipe = {} /\ armed = FALSE
        /\ hpc = [t \in Threads |-> "none"] /\ sending = "none" /\ quits = 0 /\ terms = 0
        /\ holder = [lock \in Locks |-> "nobody"]
        /\ status = "running"

-----------------------------------------------------------------------------
(* One step of main, if no handler runs in it and it is in neither lock.   *)
Awake(t) == hpc[t] = "none" /\ (t = "main" => sending = "none")
MainRuns == Awake("main") /\ \A lock \in Locks : holder[lock] # "main"

Step(from, to) == /\ mpc = from /\ MainRuns
                  /\ mpc' = to
                  /\ UNCHANGED <<loopVars, pipe, hpc, sending, quits, terms, holder, status>>
End(how) == /\ MainRuns
            /\ status' = how
            /\ UNCHANGED <<mpc, confVars, serverVars, loopVars, signalVars, holder>>

SetDefaultProp == /\ Step("conf", "xml")
                  /\ props' = Defaults
                  /\ UNCHANGED <<xml, args, optind, set, serverVars, armed>>

LoadConfigFromXml == /\ xml.there
                     /\ Step("xml", "args")
                     /\ props' = Over(xml.props, props)
                     /\ UNCHANGED <<xml, args, optind, set, serverVars, armed>>

(* openXMlFile never fails, and the root of no document is asked for its   *)
(* children.                                                               *)
NoXmlFile == mpc = "xml" /\ ~xml.there /\ End("crashed")

(* -m (as -p and -l) sets a property; -o, -s, -t, -c and -a set members of *)
(* Configure that nothing reads.                                           *)
Read == {"trig"}

ParseArg ==
  /\ optind < Len(args) /\ Step("args", "args")
  /\ optind' = optind + 1
  /\ LET opt == args[optind'].opt
         given == [name \in {opt} |-> args[optind'].value]
     IN  IF opt \in Read THEN props' = Over(given, props) /\ UNCHANGED set
                         ELSE set' = Over(given, set) /\ UNCHANGED props
  /\ UNCHANGED <<xml, args, serverVars, armed>>

GenConf == /\ optind = Len(args) /\ Step("args", "build")
           /\ UNCHANGED <<confVars, serverVars, armed>>

BuilderServer == /\ Step("build", "handler")
                 /\ server' = "live" /\ app' = TRUE
                 /\ UNCHANGED <<srv, binder, fds, confVars, armed>>

RegisterQuitHandler == /\ Step("handler", "binder")
                       /\ UNCHANGED <<confVars, serverVars, armed>>

NewBinder == /\ Step("binder", "load")
             /\ binder' = "live"
             /\ UNCHANGED <<srv, server, app, fds, confVars, armed>>

(* A property that is missing throws out of main.                          *)
LoadFromConf == /\ Step("load", "log") /\ "db" \in DOMAIN props
                /\ srv' = props
                /\ UNCHANGED <<server, binder, app, fds, confVars, armed>>
NoSuchProp == mpc = "load" /\ "db" \notin DOMAIN props /\ End("crashed")

InitLogWrite == Step("log", "pool") /\ UNCHANGED <<confVars, serverVars, armed>>

(* The pool connects, or ends the process; a pool of none gives            *)
(* initmysql_result a null connection.                                     *)
SqlPool == /\ Step("pool", "threads") /\ srv.conns > 0
           /\ UNCHANGED <<confVars, serverVars, armed>>
SqlPoolFails == /\ mpc = "pool"
                /\ End(IF srv.conns > 0 THEN "exited" ELSE "crashed")

CreateThreadPool == /\ Step("threads", "trig") /\ srv.threads > 0
                    /\ UNCHANGED <<confVars, serverVars, armed>>
NoThreads == mpc = "threads" /\ srv.threads = 0 /\ End("crashed")

FaultyListens(trig) == trig = 1 \/ trig = 3                \* swapped
Listens(trig) == trig = 2 \/ trig = 3
Connects(trig) == trig = 1 \/ trig = 3

(* Any other trigger mode leaves the two members as they were: unset.      *)
SetTrigMode ==
  /\ Step("trig", "bind")
  /\ \E l, c \in BOOLEAN :
       /\ srv.trig \in 0..3 => l = Listens(srv.trig) /\ c = Connects(srv.trig)
       /\ srv' = Over([edgeListen |-> l, edgeConn |-> c], srv)
  /\ UNCHANGED <<server, binder, app, fds, confVars, armed>>

BindServer == Step("bind", "user") /\ UNCHANGED <<confVars, serverVars, armed>>

(* preProcess() says whether errno is 0, and main goes on if it is not:    *)
(* that depends on what the library calls so far have left there.          *)
PreProcess == \/ Step("user", "listen") /\ UNCHANGED <<confVars, serverVars, armed>>
              \/ mpc = "user" /\ End("exited")

(* bind and listen throw out of main.                                      *)
OpenFds == /\ Step("listen", "addsig")
           /\ fds' = "open"
           /\ UNCHANGED <<srv, server, binder, app, confVars, armed>>
ListenFails == mpc = "listen" /\ End("crashed")

AddSig == Step("addsig", "alarm") /\ UNCHANGED <<confVars, serverVars, armed>>

SetAlarm == /\ Step("alarm", "pipe")
            /\ armed' = TRUE
            /\ UNCHANGED <<confVars, serverVars>>

SetPipe == Step("pipe", "loop") /\ UNCHANGED <<confVars, serverVars, armed>>

-----------------------------------------------------------------------------
(* The event loop.  epoll_wait fails at once if its descriptor is closed.  *)
FaultyUsable == fds \in {"open", "closed"}         \* nothing is closed
Usable == fds = "open"

LoopStep(place) == /\ mpc = "loop" /\ at = place /\ MainRuns
                   /\ UNCHANGED <<mpc, confVars, serverVars, hpc, sending, quits, terms, holder>>

EpollWait == /\ LoopStep("top")
             /\ \/ Usable /\ at' = "wait" /\ UNCHANGED status
                \/ ~Usable /\ status' = "exited" /\ UNCHANGED at
             /\ UNCHANGED <<batch, timeout, stop, pipe, armed>>

(* Clients' descriptors stay in epoll even when the server's are closed.   *)
Wake == /\ LoopStep("wait")
        /\ \E seen \in SUBSET {"listen", "pipe", "request"} :
             /\ seen # {}
             /\ "pipe" \in seen <=> Usable /\ pipe # {}
             /\ "listen" \in seen => Usable
             /\ batch' = seen
        /\ at' = "batch"
        /\ UNCHANGED <<timeout, stop, pipe, armed, status>>
WakeForPipe == Usable /\ pipe # {} /\ Wake

(* The next event of the batch, in any order.                              *)
HandleEvent(event, place) ==
  /\ event \in batch /\ batch' = batch \ {event}
  /\ LoopStep("batch") /\ at' = place
  /\ UNCHANGED armed

(* Edge-triggered listening accepts until it succeeds: with nobody in the  *)
(* backlog, a full server or a closed descriptor, it goes on and on.       *)
DealClientData == /\ HandleEvent("listen", IF srv.edgeListen THEN "accept" ELSE "batch")
                  /\ UNCHANGED <<timeout, stop, pipe, status>>
Accept == /\ LoopStep("accept") /\ Usable
          /\ at' = "batch"
          /\ UNCHANGED <<batch, timeout, stop, pipe, armed, status>>

FaultyStops == pipe = {"TERM"}                     \* one byte is looked at
Stops == "TERM" \in pipe

DealSysSignal ==
  /\ HandleEvent("pipe", "batch")
  /\ IF Usable THEN /\ timeout' = (timeout \/ "ALRM" \in pipe)
                    /\ stop' = (stop \/ Stops)
                    /\ pipe' = {}
               ELSE UNCHANGED <<timeout, stop, pipe>>
  /\ UNCHANGED status

(* A request is handed to a worker, for which a reactor spins, or read     *)
(* here.  Any other mode throws, and main catches that and returns.        *)
DealWithRead == /\ HandleEvent("request", IF srv.mode = 1 THEN "spin" ELSE "batch")
                /\ status' = IF srv.mode \in {1, 2} THEN status ELSE "exited"
                /\ UNCHANGED <<timeout, stop, pipe>>
SpinOver == /\ LoopStep("spin")
            /\ at' = "batch"
            /\ UNCHANGED <<batch, timeout, stop, pipe, armed, status>>

EndBatch == /\ batch = {} /\ LoopStep("batch")
            /\ at' = "top"
            /\ armed' = (armed \/ timeout) /\ timeout' = FALSE
            /\ status' = IF stop THEN "exited" ELSE status
            /\ UNCHANGED <<batch, stop, pipe>>

Dispatch == DealClientData \/ DealSysSignal \/ DealWithRead \/ EndBatch

-----------------------------------------------------------------------------
(* Every thread that runs logs now and then, if the log was opened, and    *)
(* allocates memory, in the log too; malloc takes no other lock.           *)
Logging == Past("log") /\ srv.close = 0
CanRun(t) == /\ Awake(t)
             /\ IF t = "main" THEN at \notin {"wait", "spin"} ELSE Past("threads")

Acquire(t, lock) == /\ CanRun(t) /\ holder[lock] = "nobody"
                    /\ lock = "log" => Logging /\ holder["heap"] # t
                    /\ holder' = [holder EXCEPT ![lock] = t]
                    /\ UNCHANGED <<mpc, confVars, serverVars, loopVars, signalVars, status>>

Release(t, lock) == /\ Awake(t) /\ holder[lock] = t
                    /\ holder' = [holder EXCEPT ![lock] = "nobody"]
                    /\ UNCHANGED <<mpc, confVars, serverVars, loopVars, signalVars, status>>

UsesDeleted == /\ server = "deleted" /\ \E t \in Threads : CanRun(t)
               /\ status' = "crashed"
               /\ UNCHANGED <<mpc, confVars, serverVars, loopVars, signalVars, holder>>

-----------------------------------------------------------------------------
(* SIGINT: the kernel gives it to the main thread, or, while that runs a   *)
(* handler with SIGINT blocked, to another.  cleanResHandler logs, deletes *)
(* the server if current_app is not null, logs and clears that, and the    *)
(* same with templateBinder.                                               *)
Interrupt(t) ==
  /\ quits < MaxQuits /\ quits' = quits + 1
  /\ Awake(t) /\ t # "main" => Past("threads") /\ ~Awake("main")
  /\ IF Past("handler") THEN hpc' = [hpc EXCEPT ![t] = "warn"] /\ UNCHANGED status
                        ELSE status' = "killed" /\ UNCHANGED hpc
  /\ at' = IF t = "main" /\ at = "wait" THEN "top" ELSE at
  /\ UNCHANGED <<mpc, confVars, serverVars, batch, timeout, stop, pipe, armed, sending, terms,
                 holder>>

(* A line is logged in a string of its own, and delete frees memory.       *)
Needs(t) == CASE hpc[t] \in {"warn", "clear", "bye"} -> IF Logging THEN Locks ELSE {}
              [] hpc[t] \in {"delete", "unbind"} -> {"heap"}
              [] OTHER -> {}

HandlerStep(t, from, to) ==
  /\ hpc[t] = from /\ (t = "main" => sending = "none")
  /\ \A lock \in Needs(t) : holder[lock] = "nobody"
  /\ hpc' = [hpc EXCEPT ![t] = to]
  /\ UNCHANGED <<mpc, confVars, srv, loopVars, pipe, armed, sending, quits, terms, holder>>

Unbind == IF binder = "none" THEN "return" ELSE "unbind"
HandlerWarn(t) == /\ HandlerStep(t, "warn", IF app THEN "delete" ELSE Unbind)
                  /\ UNCHANGED <<server, binder, app, fds, status>>

(* ~WebServer: a second handler frees it twice, and before                 *)
(* createThreadPool the pointer to the pool is not set.                    *)
DeleteServer(t) ==
  /\ HandlerStep(t, "delete", "clear")
  /\ server' = "deleted" /\ fds' = IF fds = "open" THEN "closed" ELSE fds
  /\ status' \in IF server = "live" /\ Past("threads") THEN {status} ELSE {status, "crashed"}
  /\ UNCHANGED <<binder, app>>

HandlerClear(t) == /\ HandlerStep(t, "clear", Unbind)
                   /\ app' = FALSE
                   /\ UNCHANGED <<server, binder, fds, status>>

DeleteBinder(t) ==
  /\ HandlerStep(t, "unbind", "bye")
  /\ binder' = "deleted"
  /\ status' \in IF binder = "live" THEN {status} ELSE {status, "crashed"}
  /\ UNCHANGED <<server, app, fds>>

HandlerBye(t) == /\ HandlerStep(t, "bye", "return")
                 /\ binder' = "none"
                 /\ UNCHANGED <<server, app, fds, status>>

HandlerReturn(t) == /\ HandlerStep(t, "return", "none")
                    /\ UNCHANGED <<server, binder, app, fds, status>>

Handler(t) == \/ HandlerWarn(t) \/ DeleteServer(t) \/ HandlerClear(t)
              \/ DeleteBinder(t) \/ HandlerBye(t) \/ HandlerReturn(t)

-----------------------------------------------------------------------------
(* SIGTERM and SIGALRM run sig_handler in main, in the middle of the quit  *)
(* handler too, with all signals blocked.  (A second one meanwhile goes to *)
(* a worker and sends its byte from there, as if it came later.)           *)
RunSigHandler(sig) ==
  /\ sending = "none" /\ sending' = sig
  /\ at' = IF at = "wait" THEN "top" ELSE at
  /\ UNCHANGED <<mpc, confVars, serverVars, batch, timeout, stop, pipe, hpc, quits, holder>>

Terminate == /\ terms < MaxTerms /\ terms' = terms + 1
             /\ Past("addsig") /\ RunSigHandler("TERM")
             /\ UNCHANGED <<armed, status>>
Killed == /\ ~Past("addsig") /\ status' = "killed"
          /\ UNCHANGED <<mpc, confVars, serverVars, loopVars, signalVars, holder>>
Alarm == armed /\ armed' = FALSE /\ RunSigHandler("ALRM") /\ UNCHANGED <<terms, status>>

(* u_pipefd is null until registerEventListen sets it at last, and points  *)
(* into the server, which may be deleted.                                  *)
PipeSet == Past("pipe")

SendByte ==
  /\ sending # "none" /\ sending' = "none"
  /\ \/ /\ ~PipeSet \/ server = "deleted"
        /\ status' = "crashed" /\ UNCHANGED pipe
     \/ /\ PipeSet
        /\ pipe' = IF Usable THEN pipe \union {sending} ELSE pipe     \* EBADF
        /\ UNCHANGED status
  /\ UNCHANGED <<mpc, confVars, serverVars, loopVars, armed, hpc, quits, terms, holder>>

-----------------------------------------------------------------------------
StartUp == \/ SetDefaultProp \/ LoadConfigFromXml \/ NoXmlFile \/ ParseArg \/ GenConf
           \/ BuilderServer \/ RegisterQuitHandler \/ NewBinder
           \/ LoadFromConf \/ NoSuchProp \/ InitLogWrite \/ SqlPool \/ SqlPoolFails
           \/ CreateThreadPool \/ NoThreads \/ SetTrigMode \/ BindServer \/ PreProcess
           \/ OpenFds \/ ListenFails \/ AddSig \/ SetAlarm \/ SetPipe

EventLoop == EpollWait \/ Wake \/ Dispatch \/ Accept \/ SpinOver

Signals == Terminate \/ Killed \/ Alarm \/ SendByte

Next == /\ status = "running"
        /\ \/ StartUp \/ EventLoop \/ Signals \/ UsesDeleted
           \/ \E t \in Threads :
                \/ \E lock \in Locks : Acquire(t, lock) \/ Release(t, lock)
                \/ Interrupt(t) \/ Handler(t)

(* Threads run, handlers too, and the alarm goes off.  Main does not log   *)
(* or allocate for ever between two steps, and epoll_wait reports the pipe *)
(* however many requests it reports with it.  As long as no SIGINT came    *)
(* the spin ends (SpinEnds of WebServer).  The locks are not fair, and no  *)
(* client to accept, no other signal and no crash is owed.                 *)
Running(A) == status = "running" /\ A
Spec == /\ Init /\ [][Next]_vars
        /\ SF_vars(Running(StartUp)) /\ SF_vars(Running(EpollWait))
        /\ SF_vars(Running(WakeForPipe)) /\ SF_vars(Running(Dispatch))
        /\ SF_vars(Running(quits = 0 /\ SpinOver))
        /\ WF_vars(Running(Alarm)) /\ WF_vars(Running(SendByte))
        /\ \A t \in Threads : /\ WF_vars(Running(Handler(t)))
                              /\ \A lock \in Locks : WF_vars(Running(Release(t, lock)))

-----------------------------------------------------------------------------
(* What the command line asks for, or else the file, or the default.       *)
Given(name) == {i \in 1..Len(args) : args[i].opt = name}
InFile(name) == IF name \in DOMAIN xml.props THEN xml.props[name] ELSE Defaults[name]
Asked(name) ==
  IF Given(name) = {} THEN InFile(name)
  ELSE args[CHOOSE i \in Given(name) : \A k \in Given(name) : k <= i].value

(* The settings of a server that got to its loop: the trigger mode of the  *)
(* last -m on the command line, whatever stands between and around it, or  *)
(* else of the file or the default, and its two members for listening and  *)
(* connections: LT + LT, LT + ET, ET + LT, ET + ET; and everything else    *)
(* as in the file or the default, whatever -s, -t, -c and -a say.          *)
AsConfigured == mpc = "loop" =>
  /\ srv.trig = Asked("trig")
  /\ \A name \in DOMAIN Defaults \ {"trig"} : srv[name] = InFile(name)
  /\ srv.trig \in 0..3 => /\ srv.edgeListen <=> srv.trig \div 2 = 1
                          /\ srv.edgeConn <=> srv.trig % 2 = 1

(* SIGTERM that finds the server in its loop ends it, by the pipe and when *)
(* the loop comes round, unless SIGINT comes too, or the loop is caught in *)
(* edge-triggered accept (webserver.cpp:274).                              *)
TermStops ==
  \/ <>[](at = "accept")
  \/ (mpc = "loop" /\ "TERM" \in pipe) ~> (status = "exited" \/ quits > 0)

(* A thread that SIGINT interrupted while it held a lock that the handler  *)
(* needs waits for itself, and whoever wants the lock waits for it.        *)
SelfLocked == \E t \in Threads : \E lock \in Needs(t) : holder[lock] = t

(* Once the quit handler has deleted a server that was in its loop the     *)
(* process ends, one way or another: main does not get into epoll_wait     *)
(* again, nor go round on it.  That is unless a handler waits for its own  *)
(* thread; unless main is caught in accept on the closed descriptor, or in *)
(* its spin for a worker; unless the workers never leave the locks alone.  *)
(* A worker's handler may delete the server when main is in epoll_wait     *)
(* already: then nothing need wake it.                                     *)
QuitEnds ==
  \/ []<>(\E lock \in Locks : holder[lock] \in Workers)
  \/ <>[](at \in {"accept", "spin"})
  \/ (server = "deleted" /\ fds = "closed" /\ at # "wait")
        ~> (status # "running" \/ SelfLocked)
=============================================================================
