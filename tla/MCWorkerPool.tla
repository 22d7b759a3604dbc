---------------------------- MODULE MCWorkerPool ----------------------------
(* TLC instance of WorkerPool: two workers, or three.                        *)
EXTENDS WorkerPool, TLC

CONSTANTS w1, w2, w3

MCTwo   == <<w1, w2>>
MCThree == <<w1, w2, w3>>
MCConditions == {"wait", "isRunning"} \X Workers
=============================================================================
