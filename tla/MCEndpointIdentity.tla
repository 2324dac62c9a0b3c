------------------------- MODULE MCEndpointIdentity -------------------------
(* Instances of EndpointIdentity for TLC. *)
EXTENDS EndpointIdentity
=============================================================================
