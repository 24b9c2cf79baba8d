----------------------------- MODULE MCSqlPool -----------------------------
(***************************************************************************)
(* Small instances of SqlPool: fewer connections than workers, so that the *)
(* list runs empty between the test and the wait, and as many as workers,  *)
(* which is how the server is configured by default.                       *)
(***************************************************************************)
EXTENDS SqlPool, TLC

Symmetry == Permutations(Workers) \union Permutations(Conns)
=============================================================================
