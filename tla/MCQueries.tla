------------------------------ MODULE MCQueries ------------------------------
(* Instances of Queries for TLC.  Every bound of the runs is a constant of    *)
(* Queries given its value in the configuration files.                        *)
EXTENDS Queries, TLC

HandleSymmetry == Permutations(Handles)
=============================================================================
