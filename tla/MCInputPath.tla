----------------------------- MODULE MCInputPath -----------------------------
(***************************************************************************)
(* InputPath with two windows and three keys: an ordinary one, Caps Lock   *)
(* and a pair of modifiers.  A report has room for one key, so that Caps   *)
(* Lock with the other key down overflows it, and a socket for one line,   *)
(* so that every send may find it full.                                    *)
(***************************************************************************)
EXTENDS InputPath
=============================================================================
