----------------------------- MODULE MCWsGateway -----------------------------
(* WsGateway for TLC. *)
EXTENDS WsGateway, TLC

CONSTANT c1
=============================================================================
