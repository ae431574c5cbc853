------------------------------ MODULE MCTwitchIrc ------------------------------
(***************************************************************************)
(* Instances of TwitchIrc for TLC: one name that is opened and closed      *)
(* again and again, one account besides the anonymous one, one thread      *)
(* besides the GUI thread, and rate limiters with a budget of one.         *)
(***************************************************************************)
EXTENDS TwitchIrc

CONSTANTS a, alice, eventsub
================================================================================
