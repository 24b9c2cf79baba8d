---------------------------- MODULE MCThreadPool ----------------------------
(***************************************************************************)
(* Small instances of ThreadPool: two or three workers contend with the    *)
(* event loop for a queue that is shorter than the number of jobs.         *)
(***************************************************************************)
EXTENDS ThreadPool, TLC

(* Workers are interchangeable, and so are the jobs that do not fail.      *)
Symmetry == Permutations(Workers) \union Permutations(Jobs \ Failing)
=============================================================================
