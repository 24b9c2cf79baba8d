---------------------------- MODULE MCLifecycle ----------------------------
(***************************************************************************)
(* A small instance of Lifecycle: a reactor with level-triggered listening *)
(* and the options of its command line, read, read twice or kept where     *)
(* nobody looks; a proactor with edge-triggered listening and no log; and  *)
(* the files with which no server gets to its loop: none at all, one with  *)
(* a property missing and those with a number of none.                     *)
(***************************************************************************)
EXTENDS Lifecycle, TLC

XmlFile(tab) == [there |-> TRUE, props |-> tab]
NoFile == [there |-> FALSE, props |-> << >>]
Shipped == ("db" :> 1) @@ ("close" :> 0) @@ ("mode" :> 1)
Proactor == ("trig" :> 2) @@ ("close" :> 1) @@ ("mode" :> 2) @@ ("db" :> 1)

Option(opt, value) == [opt |-> opt, value |-> value]
SomeOptions == <<Option("trig", 3), Option("threads", 0), Option("trig", 1), Option("mode", 2)>>

SmallStarts ==
  {[xml |-> XmlFile(Shipped), args |-> SomeOptions]}
  \union {[xml |-> file, args |-> << >>] :
            file \in {XmlFile(tab) : tab \in {Proactor, "mode" :> 1, ("conns" :> 0) @@ Shipped,
                                             ("threads" :> 0) @@ Shipped}}
                      \union {NoFile}}
=============================================================================
