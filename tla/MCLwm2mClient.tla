--------------------------- MODULE MCLwm2mClient ----------------------------
(* The client of one server with a network that may lose messages. *)
EXTENDS Lwm2mClient
=============================================================================
