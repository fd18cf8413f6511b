------------------------------- MODULE MCDevice -------------------------------
(* Device on small instances.  *)
EXTENDS Device
=============================================================================
