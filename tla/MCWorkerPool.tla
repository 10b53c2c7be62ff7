---------------------------- MODULE MCWorkerPool ----------------------------
(* Instances of WorkerPool for TLC: four items on three workers, so that   *)
(* some worker comes back for a second item while others panic.            *)
EXTENDS WorkerPool
=============================================================================
