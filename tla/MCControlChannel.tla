--------------------------- MODULE MCControlChannel ---------------------------
(* HELLO, sent by start(), and one caller race the reader and stop().      *)
EXTENDS ControlChannel
===============================================================================
