------------------------------ MODULE MCWorker ------------------------------
(* The instance of Worker that TLC checks: one document allows what is told   *)
(* in three different ways (at once, deferred, and last); the other is        *)
(* disabled.                                                                  *)
EXTENDS Worker

MCDocs == {[enabled |-> TRUE, port |-> 1, features |-> {"dumps", "queries", "requests"}],
           [enabled |-> FALSE, port |-> 1, features |-> Feature]}
=============================================================================
