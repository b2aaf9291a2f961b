---------------------------- MODULE MCImageStore ----------------------------
(* The image and the device over it: two imports, two failing calls, one     *)
(* crash, and one press of "Prepare Device".                                 *)
EXTENDS MachineManager
=============================================================================
