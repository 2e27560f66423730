-------------------------------- MODULE MCKd --------------------------------
(* Small instances of Kd.                                                  *)
EXTENDS Kd
=============================================================================
