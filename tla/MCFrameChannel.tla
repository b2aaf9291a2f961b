--------------------------- MODULE MCFrameChannel ---------------------------
(* FrameChannel with one application display next to Android's own screen. *)
EXTENDS FrameChannel
=============================================================================
