---------------------------- MODULE MCLiveUpdates ----------------------------
(***************************************************************************)
(* Instances of LiveUpdates for TLC: two keys, one of which stands for a   *)
(* BTTV channel (two topics, of which parting releases one) and one for a  *)
(* 7TV user (one topic), and a smaller one of two 7TV users.               *)
(***************************************************************************)
EXTENDS LiveUpdates

CONSTANTS a, b, c, channel, user

BttvTopics == {a, b, c}
BttvJoins == [k \in {channel, user} |-> IF k = channel THEN {a, b} ELSE {c}]
BttvParts == [k \in {channel, user} |-> IF k = channel THEN {a} ELSE {c}]

SeventvTopics == {a, b}
SeventvJoins == [k \in {channel, user} |-> IF k = channel THEN {a} ELSE {b}]
================================================================================
