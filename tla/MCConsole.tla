------------------------------ MODULE MCConsole -----------------------------
(***************************************************************************)
(* Small instance of Console: two queries, whose streams may be open at    *)
(* once after an error event, a history and two threads.                   *)
(***************************************************************************)
EXTENDS Console, TLC

=============================================================================
