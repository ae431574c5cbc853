------------------------------ MODULE MCEventSub ------------------------------
(***************************************************************************)
(* Instances of EventSub for TLC: one or two requests, made for the same   *)
(* Twitch user or for two.                                                 *)
(***************************************************************************)
EXTENDS EventSub

CONSTANTS a, b, alice, bob

OneOwner == [r \in Requests |-> alice]
TwoOwners == [r \in Requests |-> IF r = a THEN alice ELSE bob]
================================================================================
