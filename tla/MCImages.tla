-------------------------------- MODULE MCImages --------------------------------
(***************************************************************************)
(* Instances of Images for TLC: an image, the one that is made when it is  *)
(* wanted again, one of the same URL with dynamic frames, and a request of *)
(* somebody else.                                                          *)
(***************************************************************************)
EXTENDS Images

CONSTANTS plain, again, dynamic, emote, other

MCLoads == Images \X (1 .. MaxLoads)
MCRequests == MCLoads \cup {<<other, 1>>}
MCOther == {<<other, 1>>}
MCUrlOf == [r \in MCLoads |-> emote]
MCKeyOf == [i \in Images |-> IF i = again THEN plain ELSE i]
================================================================================
