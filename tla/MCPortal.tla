------------------------------- MODULE MCPortal -------------------------------
(***************************************************************************)
(* Instances of PaymentPortal for TLC: one client, one or two references,  *)
(* one or two attempts, at most two environments of each Lambda function.  *)
(***************************************************************************)
EXTENDS PortalProperties

CONSTANTS c1, k1, k2, f1, f2, i1, i2, p1, p2, d1, d2

AllowAll == [c \in Clients |-> Fees]
===============================================================================
