---------------------------- MODULE MCThreadPool ----------------------------
(* A small instance of ThreadPool: with two slots and three tasks the ring   *)
(* fills up and wraps, with two workers one may sleep while the other runs.  *)
EXTENDS ThreadPool

CONSTANTS w1, w2, c1, c2, k1, k2, k3

MCWorkers == {w1, w2}
MCClients == {c1, c2}
MCTasks   == {k1, k2, k3}
=============================================================================
