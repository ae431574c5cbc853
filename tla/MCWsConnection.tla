----------------------------- MODULE MCWsConnection -----------------------------
(***************************************************************************)
(* WsConnection for TLC: two addresses, two messages each way, and two     *)
(* close() calls, the handle's and the pool's.                             *)
(***************************************************************************)
EXTENDS WsConnection
================================================================================
