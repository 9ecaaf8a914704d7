------------------------------ MODULE MCThread ------------------------------
(* The instance of Thread that TLC checks; its bounds are in MCThread.cfg. *)
EXTENDS Thread
=============================================================================
