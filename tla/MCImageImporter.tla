-------------------------- MODULE MCImageImporter --------------------------
(* ImageImporter with two of the eight download workers and two objects. *)
EXTENDS ImageImporter
=============================================================================
