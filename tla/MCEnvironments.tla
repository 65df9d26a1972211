--------------------------- MODULE MCEnvironments ---------------------------
(* One pull request with an environment and one that only opens and       *)
(* closes; a list that may be too short for both.                          *)
EXTENDS PrEnvironments

=============================================================================
