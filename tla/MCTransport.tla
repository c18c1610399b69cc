----------------------------- MODULE MCTransport -----------------------------
(* The instance of Transport that TLC checks: its bounds are the constants.   *)
EXTENDS Transport
=============================================================================
