------------------------------ MODULE MCWorker ------------------------------
(* Two workers on a queue; a tick is five seconds.                           *)
EXTENDS Worker

CONSTANTS w1, w2
=============================================================================
