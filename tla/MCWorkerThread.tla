-------------------------- MODULE MCWorkerThread --------------------------
(***************************************************************************)
(* Three threads and two buttons: two threads that finished and wait, and  *)
(* one that starts while they do.                                          *)
(***************************************************************************)
EXTENDS WorkerThread
=============================================================================
