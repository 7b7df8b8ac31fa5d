---- MODULE MCPunycodeRoundTrip ----
(* PunycodeRoundTrip with the parameters of MCPunycode.                           *)
EXTENDS PunycodeRoundTrip, MCPunycode
====
