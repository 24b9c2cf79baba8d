-------------------------- MODULE LifecycleProofs --------------------------
(***************************************************************************)
(* AsConfigured, for every configuration file, every command line of any   *)
(* length, every number of threads and every way the signals come: a       *)
(* server that got to its loop has the trigger mode that the last -m asks  *)
(* for, and everything else as in the file or the default, whichever       *)
(* options there were.                                                     *)
(*                                                                         *)
(* Signals move the handlers, the pipe and the status, never main's next   *)
(* step or what it has read; so the argument follows main.  Before the     *)
(* loop of getopt the properties are the defaults with the file over them; *)
(* an option that is a trigger mode makes that one what is asked for by    *)
(* one option more, any other leaves them all; the server takes them, and  *)
(* the trigger mode at last gives its two members a value.                 *)
(***************************************************************************)
EXTENDS Lifecycle, TLAPS

(* The options read so far, and what they ask for, as Given and Asked say  *)
(* it of all of them; and what the server is to have by then.              *)
GivenBy(name, n) == {i \in 1..n : args[i].opt = name}
Latest(S) == CHOOSE i \in S : \A k \in S : k <= i
AskedBy(name, n) ==
  IF GivenBy(name, n) = {} THEN InFile(name) ELSE args[Latest(GivenBy(name, n))].value
Wanted(name, n) == IF name = "trig" THEN AskedBy(name, n) ELSE InFile(name)

Names == DOMAIN Defaults

(* The steps of main in four stretches.                                    *)
Reading == {"args", "build", "handler", "binder", "load"}
Loaded == {"log", "pool", "threads", "trig", "bind", "user", "listen", "addsig",
           "alarm", "pipe", "loop"}
Modes == Loaded \ {"log", "pool", "threads", "trig"}

(* The command lines.                                                      *)
Lines == {start.args : start \in Starts}

HasWanted(f, n) == \A name \in Names : name \in DOMAIN f /\ f[name] = Wanted(name, n)
ModesSet == srv.trig \in 0..3 => /\ srv.edgeListen <=> srv.trig \div 2 = 1
                                 /\ srv.edgeConn <=> srv.trig % 2 = 1

ConfInv ==
  /\ args \in Lines /\ optind \in 0..Len(args)
  /\ mpc \in {"conf", "xml"} \union Reading \union Loaded
  /\ mpc \in {"conf", "xml"} => optind = 0
  /\ mpc = "xml" => props = Defaults
  /\ mpc \in Reading => HasWanted(props, optind)
  /\ mpc \in Reading \ {"args"} => optind = Len(args)
  /\ mpc \in Loaded => HasWanted(srv, Len(args))
  /\ mpc \in Modes => ModesSet

(* What ConfInv speaks of; all but main's own steps leave it alone.        *)
mainVars == <<mpc, xml, args, optind, props, srv>>

LEMMA LinesHaveLength == ASSUME NEW words \in Lines PROVE Len(words) \in Nat
  BY LifecycleAssumption DEF Lines

LEMMA OverHas ==
  ASSUME NEW new, NEW old, NEW name
  PROVE  /\ name \in DOMAIN Over(new, old) <=> name \in DOMAIN new \/ name \in DOMAIN old
         /\ name \in DOMAIN new => Over(new, old)[name] = new[name]
         /\ name \in DOMAIN old /\ name \notin DOMAIN new => Over(new, old)[name] = old[name]
  BY DEF Over

(* One option more: if it is the name's, it is the latest.                 *)
LEMMA OneMore ==
  ASSUME NEW name, NEW n \in Nat
  PROVE  /\ args[n + 1].opt = name => AskedBy(name, n + 1) = args[n + 1].value
         /\ args[n + 1].opt # name => AskedBy(name, n + 1) = AskedBy(name, n)
<1>1. CASE args[n + 1].opt = name
  <2>1. n + 1 \in GivenBy(name, n + 1)
    BY <1>1 DEF GivenBy
  <2>2. \A k \in GivenBy(name, n + 1) : k \in Nat /\ k <= n + 1
    BY DEF GivenBy
  <2>3. \A i \in GivenBy(name, n + 1) :
          (\A k \in GivenBy(name, n + 1) : k <= i) => i = n + 1
    BY <2>1, <2>2
  <2>4. Latest(GivenBy(name, n + 1)) \in GivenBy(name, n + 1)
        /\ \A k \in GivenBy(name, n + 1) : k <= Latest(GivenBy(name, n + 1))
    BY <2>1, <2>2 DEF Latest
  <2>5. Latest(GivenBy(name, n + 1)) = n + 1
    BY <2>3, <2>4
  <2> QED
    BY <1>1, <2>1, <2>5 DEF AskedBy
<1>2. CASE args[n + 1].opt # name
  <2>1. GivenBy(name, n + 1) = GivenBy(name, n)
    BY <1>2 DEF GivenBy
  <2> QED
    BY <1>2, <2>1 DEF AskedBy
<1> QED
  BY <1>1, <1>2

LEMMA AskedOfAll ==
  ASSUME NEW name
  PROVE  AskedBy(name, Len(args)) = Asked(name)
  BY DEF AskedBy, Asked, GivenBy, Given, Latest

LEMMA ConfInit == Init => ConfInv
<1> SUFFICES ASSUME Init PROVE ConfInv
  OBVIOUS
<1>1. args \in Lines /\ optind = 0 /\ mpc = "conf"
  BY DEF Init, Lines
<1>2. optind \in 0..Len(args)
  BY <1>1, LinesHaveLength
<1> QED
  BY <1>1, <1>2 DEF ConfInv, Reading, Loaded, Modes

LEMMA Quiet == ConfInv /\ UNCHANGED mainVars => ConfInv'
<1> SUFFICES ASSUME ConfInv, UNCHANGED mainVars PROVE ConfInv'
  OBVIOUS
<1>1. UNCHANGED <<mpc, xml, args, optind, props, srv>>
  BY DEF mainVars
<1>2. \A name, n : Wanted(name, n)' = Wanted(name, n)
  BY <1>1 DEF Wanted, AskedBy, GivenBy, InFile
<1>3. \A f, n : HasWanted(f, n)' = HasWanted(f, n)
  BY <1>2 DEF HasWanted
<1>4. ModesSet' = ModesSet
  BY <1>1 DEF ModesSet
<1> QED
  BY <1>1, <1>3, <1>4 DEF ConfInv

(* Steps that end the process, the loop, the locks and the signals.        *)
LEMMA OthersQuiet ==
  /\ NoXmlFile \/ NoSuchProp \/ SqlPoolFails \/ NoThreads \/ ListenFails => UNCHANGED mainVars
  /\ EventLoop \/ UsesDeleted \/ Signals => UNCHANGED mainVars
  /\ \A t \in Threads : Interrupt(t) \/ Handler(t) => UNCHANGED mainVars
  /\ \A t \in Threads, lock \in Locks :
       Acquire(t, lock) \/ Release(t, lock) => UNCHANGED mainVars
<1>1. NoXmlFile \/ NoSuchProp \/ SqlPoolFails \/ NoThreads \/ ListenFails => UNCHANGED mainVars
  BY DEF NoXmlFile, NoSuchProp, SqlPoolFails, NoThreads, ListenFails, End, mainVars,
         confVars, serverVars
<1>2. EventLoop => UNCHANGED mainVars
  BY DEF EventLoop, EpollWait, Wake, Dispatch, DealClientData, DealSysSignal, DealWithRead,
         EndBatch, Accept, SpinOver, HandleEvent, LoopStep, mainVars, confVars, serverVars
<1>3. UsesDeleted \/ Signals => UNCHANGED mainVars
  BY DEF UsesDeleted, Signals, Terminate, Killed, Alarm, RunSigHandler, SendByte, mainVars,
         confVars, serverVars
<1>4. ASSUME NEW t \in Threads
      PROVE  Interrupt(t) => UNCHANGED mainVars
  BY DEF Interrupt, mainVars, confVars, serverVars
<1>5. ASSUME NEW t \in Threads
      PROVE  Handler(t) => UNCHANGED mainVars
  BY DEF Handler, HandlerStep, HandlerWarn, DeleteServer, HandlerClear, DeleteBinder,
         HandlerBye, HandlerReturn, mainVars, confVars, serverVars
<1>6. ASSUME NEW t \in Threads, NEW lock \in Locks
      PROVE  Acquire(t, lock) \/ Release(t, lock) => UNCHANGED mainVars
  BY DEF Acquire, Release, mainVars, confVars, serverVars
<1> QED
  BY <1>1, <1>2, <1>3, <1>4, <1>5, <1>6

(* Steps of main that change nothing but what comes next, in the stretch   *)
(* where the server is loaded.                                             *)
LEMMA OnlyNext ==
  InitLogWrite \/ SqlPool \/ CreateThreadPool \/ BindServer \/ PreProcess
     \/ OpenFds \/ AddSig \/ SetAlarm \/ SetPipe =>
    \/ UNCHANGED mainVars
    \/ /\ UNCHANGED <<xml, args, optind, props, srv>>
       /\ mpc \in Loaded /\ mpc' \in Loaded
       /\ mpc' \in Modes => mpc \in Modes
  BY DEF InitLogWrite, SqlPool, CreateThreadPool, BindServer, PreProcess, OpenFds, AddSig,
         SetAlarm, SetPipe, Step, End, mainVars, confVars, serverVars, Loaded, Modes

LEMMA ConfStep == ConfInv /\ Next => ConfInv'
<1> SUFFICES ASSUME ConfInv, Next PROVE ConfInv'
  OBVIOUS
<1> USE DEF Reading, Loaded, Modes
<1>0. /\ args \in Lines /\ optind \in 0..Len(args) /\ Len(args) \in Nat
      /\ optind \in Nat
  BY LinesHaveLength DEF ConfInv
<1>1. CASE SetDefaultProp
  BY <1>0, <1>1 DEF SetDefaultProp, Step, ConfInv, serverVars
<1>2. CASE LoadConfigFromXml
  <2>1. /\ mpc = "xml" /\ mpc' = "args" /\ props' = Over(xml.props, props)
        /\ UNCHANGED <<xml, args, optind, srv>>
    BY <1>2 DEF LoadConfigFromXml, Step, serverVars
  <2>2. props = Defaults /\ optind = 0
    BY <2>1 DEF ConfInv
  <2>3. \A name : Wanted(name, 0) = InFile(name)
    BY DEF Wanted, AskedBy, GivenBy
  <2>4. \A name \in Names : name \in DOMAIN props' /\ props'[name] = InFile(name)
    BY <2>1, <2>2, OverHas DEF InFile, Names
  <2>5. \A name, n : Wanted(name, n)' = Wanted(name, n)
    BY <2>1 DEF Wanted, AskedBy, GivenBy, InFile
  <2>6. HasWanted(props, optind)'
    BY <2>1, <2>2, <2>3, <2>4, <2>5 DEF HasWanted
  <2> QED
    BY <1>0, <2>1, <2>6 DEF ConfInv
<1>3. CASE ParseArg
  <2> DEFINE opt == args[optind + 1].opt
             given == [name \in {opt} |-> args[optind + 1].value]
  <2>1. /\ mpc = "args" /\ mpc' = "args" /\ optind' = optind + 1 /\ optind < Len(args)
        /\ UNCHANGED <<xml, args, srv>>
        /\ IF opt \in Read THEN props' = Over(given, props) ELSE props' = props
    BY <1>3 DEF ParseArg, Step, serverVars
  <2>2. HasWanted(props, optind)
    BY <2>1 DEF ConfInv
  <2>3. ASSUME NEW name \in Names
        PROVE  name \in DOMAIN props' /\ props'[name] = Wanted(name, optind + 1)
    <3>1. name \in DOMAIN props /\ props[name] = Wanted(name, optind)
      BY <2>2 DEF HasWanted
    <3>2. CASE opt = "trig"
      <4>1. props' = Over(given, props)
        BY <2>1, <3>2 DEF Read
      <4>2. DOMAIN given = {"trig"} /\ given["trig"] = args[optind + 1].value
        BY <3>2
      <4>3. AskedBy("trig", optind + 1) = args[optind + 1].value
        BY <1>0, <3>2, OneMore
      <4> HIDE DEF given
      <4> QED
        BY <3>1, <4>1, <4>2, <4>3, OverHas DEF Wanted
    <3>3. CASE opt # "trig"
      <4>1. AskedBy("trig", optind + 1) = AskedBy("trig", optind)
        BY <1>0, <3>3, OneMore
      <4>2. props' = props
        BY <2>1, <3>3 DEF Read
      <4> QED
        BY <3>1, <4>1, <4>2 DEF Wanted
    <3> QED
      BY <3>2, <3>3
  <2>4. \A name, n : Wanted(name, n)' = Wanted(name, n)
    BY <2>1 DEF Wanted, AskedBy, GivenBy, InFile
  <2>5. HasWanted(props, optind)'
    BY <2>1, <2>3, <2>4 DEF HasWanted
  <2> QED
    BY <1>0, <2>1, <2>5 DEF ConfInv
<1>4. CASE GenConf \/ BuilderServer \/ RegisterQuitHandler \/ NewBinder
  <2>1. /\ UNCHANGED <<xml, args, optind, props, srv>>
        /\ mpc \in Reading /\ mpc' \in Reading \ {"args"}
        /\ mpc = "args" => optind = Len(args)
    BY <1>4 DEF GenConf, BuilderServer, RegisterQuitHandler, NewBinder, Step, confVars, serverVars
  <2>2. HasWanted(props, optind)'
    BY <2>1 DEF ConfInv, HasWanted, Wanted, AskedBy, GivenBy, InFile
  <2> QED
    BY <2>1, <2>2 DEF ConfInv
<1>5. CASE LoadFromConf
  <2>1. /\ UNCHANGED <<xml, args, optind, props>> /\ srv' = props
        /\ mpc = "load" /\ mpc' = "log"
    BY <1>5 DEF LoadFromConf, Step, confVars
  <2>2. HasWanted(props, optind) /\ optind = Len(args)
    BY <2>1 DEF ConfInv
  <2>3. HasWanted(srv, Len(args))'
    BY <2>1, <2>2 DEF HasWanted, Wanted, AskedBy, GivenBy, InFile
  <2> QED
    BY <2>1, <2>3 DEF ConfInv
<1>6. CASE SetTrigMode
  <2>1. PICK l \in BOOLEAN, c \in BOOLEAN :
          /\ srv.trig \in 0..3 => l = Listens(srv.trig) /\ c = Connects(srv.trig)
          /\ srv' = Over([edgeListen |-> l, edgeConn |-> c], srv)
    BY <1>6 DEF SetTrigMode
  <2>2. /\ UNCHANGED <<xml, args, optind, props>> /\ mpc = "trig" /\ mpc' = "bind"
    BY <1>6 DEF SetTrigMode, Step, confVars
  <2> DEFINE modes == [edgeListen |-> l, edgeConn |-> c]
  <2>3. DOMAIN modes = {"edgeListen", "edgeConn"} /\ modes.edgeListen = l /\ modes.edgeConn = c
    OBVIOUS
  <2>4. "trig" \in Names /\ "edgeListen" \notin Names /\ "edgeConn" \notin Names
    BY DEF Names, Defaults
  <2>5. HasWanted(srv, Len(args))
    BY <2>2 DEF ConfInv
  <2>6. srv' = Over(modes, srv)
    BY <2>1
  <2> HIDE DEF modes
  <2>7. \A name \in Names : name \in DOMAIN srv' /\ srv'[name] = srv[name]
    BY <2>3, <2>4, <2>5, <2>6, OverHas DEF HasWanted
  <2>8. HasWanted(srv, Len(args))'
    BY <2>2, <2>5, <2>7 DEF HasWanted, Wanted, AskedBy, GivenBy, InFile, Names
  <2>9. srv'.trig = srv.trig /\ srv'.edgeListen = l /\ srv'.edgeConn = c
    BY <2>3, <2>4, <2>6, <2>7, OverHas
  <2>10. ASSUME srv.trig \in 0..3
         PROVE  /\ Listens(srv.trig) <=> srv.trig \div 2 = 1
                /\ Connects(srv.trig) <=> srv.trig % 2 = 1
    <3>1. srv.trig = 0 \/ srv.trig = 1 \/ srv.trig = 2 \/ srv.trig = 3
      BY <2>10
    <3> QED
      BY <3>1 DEF Listens, Connects
  <2>11. ModesSet'
    BY <2>1, <2>9, <2>10 DEF ModesSet
  <2> QED
    BY <2>2, <2>8, <2>11 DEF ConfInv
<1>7. CASE InitLogWrite \/ SqlPool \/ CreateThreadPool \/ BindServer \/ PreProcess
             \/ OpenFds \/ AddSig \/ SetAlarm \/ SetPipe
  <2>1. CASE UNCHANGED mainVars
    BY <2>1, Quiet
  <2>2. CASE /\ UNCHANGED <<xml, args, optind, props, srv>>
             /\ mpc \in Loaded /\ mpc' \in Loaded
             /\ mpc' \in Modes => mpc \in Modes
    <3>1. HasWanted(srv, Len(args))'
      BY <2>2 DEF ConfInv, HasWanted, Wanted, AskedBy, GivenBy, InFile
    <3>2. mpc' \in Modes => ModesSet'
      BY <2>2 DEF ConfInv, ModesSet
    <3> QED
      BY <2>2, <3>1, <3>2 DEF ConfInv
  <2> QED
    BY <1>7, <2>1, <2>2, OnlyNext
<1>8. CASE NoXmlFile \/ NoSuchProp \/ SqlPoolFails \/ NoThreads \/ ListenFails
             \/ EventLoop \/ UsesDeleted \/ Signals
  BY <1>8, OthersQuiet, Quiet
<1>9. CASE \E t \in Threads : \/ \E lock \in Locks : Acquire(t, lock) \/ Release(t, lock)
                              \/ Interrupt(t) \/ Handler(t)
  BY <1>9, OthersQuiet, Quiet
<1> QED
  BY <1>1, <1>2, <1>3, <1>4, <1>5, <1>6, <1>7, <1>8, <1>9 DEF Next, StartUp

LEMMA ConfAlways == Spec => []ConfInv
<1>1. UNCHANGED vars => UNCHANGED mainVars
  BY DEF vars, confVars, serverVars, mainVars
<1>2. ConfInv /\ [Next]_vars => ConfInv'
  BY <1>1, Quiet, ConfStep
<1> QED
  BY <1>2, ConfInit, PTL DEF Spec

(* A server that got to its loop has the trigger mode of the last -m, or   *)
(* of the file or the default, and the two members that go with it; and    *)
(* everything else as in the file or the default, whatever the other       *)
(* options say.                                                            *)
THEOREM ServerAsConfigured == Spec => []AsConfigured
<1>1. ConfInv => AsConfigured
  <2> SUFFICES ASSUME ConfInv, mpc = "loop" PROVE AsConfigured
    BY DEF AsConfigured
  <2>1. HasWanted(srv, Len(args)) /\ ModesSet
    BY DEF ConfInv, Loaded, Modes
  <2>2. "trig" \in Names
    BY DEF Names, Defaults
  <2>3. srv.trig = Asked("trig")
    BY <2>1, <2>2, AskedOfAll DEF HasWanted, Wanted
  <2>4. \A name \in DOMAIN Defaults \ {"trig"} : srv[name] = InFile(name)
    BY <2>1 DEF HasWanted, Wanted, Names
  <2> QED
    BY <2>1, <2>3, <2>4 DEF AsConfigured, ModesSet
<1> QED
  BY <1>1, ConfAlways, PTL
=============================================================================
