-------------------------- MODULE MCQemuSupervisor --------------------------
(* QemuSupervisor with two image sources. *)
EXTENDS QemuSupervisor
=============================================================================
