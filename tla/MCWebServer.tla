---------------------------- MODULE MCWebServer ----------------------------
(***************************************************************************)
(* Small instances of WebServer: two or three clients share one or two     *)
(* descriptors, so that the second use of a descriptor meets what the      *)
(* first one left.                                                         *)
(***************************************************************************)
EXTENDS WebServer, TLC

(* A queue and a server with room for every descriptor, an environment     *)
(* that leaves the workers alone.                                          *)
Quiet(mode, edge) ==
  [mode |-> mode, edge |-> edge, maxRequests |-> 2, maxFd |-> 2,
   closes |-> FALSE, slow |-> FALSE, torn |-> FALSE, stop |-> FALSE]

(* Everything the environment may do at once, a queue of one and a server  *)
(* that is full with one connection.                                       *)
Hostile == [mode |-> "reactor", edge |-> FALSE, maxRequests |-> 1, maxFd |-> 1,
            closes |-> TRUE, slow |-> TRUE, torn |-> TRUE, stop |-> TRUE]

MixedSettings == {Quiet("reactor", FALSE), Quiet("proactor", FALSE),
                  [Quiet("reactor", TRUE) EXCEPT !.maxFd = 1], Hostile}

SlowSettings == {[Quiet(mode, FALSE) EXCEPT !.slow = TRUE, !.torn = TRUE,
                                            !.maxRequests = 1, !.maxFd = 1] :
                   mode \in {"reactor", "proactor"}}

ClosingSettings == {[Quiet("reactor", FALSE) EXCEPT !.closes = TRUE,
                                                    !.maxRequests = 1, !.maxFd = 1]}

Symmetry == Permutations(Clients) \union Permutations(Workers)
=============================================================================
