------------------------ MODULE MCGuestControlClient ------------------------
(* Lines and installs over successive connections, with stop() at any time. *)
EXTENDS GuestControlClient
=============================================================================
