------------------------------ MODULE MCLogger ------------------------------
(***************************************************************************)
(* Small instances of Logger: two threads and a ring of two slots, where  *)
(* both may find the last slot free and one has to wait; a midnight.       *)
(***************************************************************************)
EXTENDS Logger, TLC
=============================================================================
