------------------------------- MODULE MCBooks -------------------------------
(***************************************************************************)
(* Instances of PortalBooks for TLC.                                       *)
(***************************************************************************)
EXTENDS PortalBooks

CONSTANTS c1, k1, f1, i1, i2, p1, p2, d1

AllowAll == [c \in Clients |-> Fees]
===============================================================================
