------------------------------ MODULE MCFuture ------------------------------
(* Small instances of Future for TLC. *)
EXTENDS Future
=============================================================================
