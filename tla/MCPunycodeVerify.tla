---- MODULE MCPunycodeVerify ----
(* PunycodeVerify with the parameters of MCPunycode.                           *)
EXTENDS PunycodeVerify, MCPunycode
====
