------------------------------- MODULE MCSchema -------------------------------
(* Instances of SchemaMigrations for TLC: two obligations, three attempts.   *)
EXTENDS SchemaMigrations, TLC

CONSTANTS o1, o2, a1, a2, a3

Interchangeable == Permutations({a1, a2, a3}) \cup Permutations({o1, o2})
===============================================================================
