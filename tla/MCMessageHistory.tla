--------------------------- MODULE MCMessageHistory ----------------------------
(***************************************************************************)
(* Instances of MessageHistory for TLC.                                    *)
(***************************************************************************)
EXTENDS MessageHistory
================================================================================
