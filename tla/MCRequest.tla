----------------------------- MODULE MCRequest -----------------------------
(* The instance of Request that TLC checks: documents Yerd writes, chosen so  *)
(* that what one allows another does not.  `jobs` and `views` are on in none: *)
(* they pass the same gates as `logs` and `cache`.                            *)
EXTENDS Request, TLC

Some(features) == [enabled |-> TRUE, port |-> 1, features |-> features]

\* Two allow different features; two are disabled, in both ways.
MCDocs == {Some({"queries", "requests", "logs"}), Some({"dumps", "cache", "requests"}),
           [enabled |-> FALSE, port |-> 1, features |-> {"dumps"}],
           [enabled |-> TRUE, port |-> 0, features |-> {"http"}]}

WorkerSymmetry == Permutations(Workers)
=============================================================================
