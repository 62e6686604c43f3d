---------------------------- MODULE MCShareSession ----------------------------
(***************************************************************************)
(* Two shares with a photo in common, one of them locked; an upload puts a *)
(* new photo first.                                                        *)
(***************************************************************************)
EXTENDS ShareSession

MCListings == ("a" :> <<<<1, 2>>, <<3, 1, 2>>>>) @@ ("b" :> <<<<2>>>>)
MCDay == [id \in 1 .. 3 |-> IF id = 2 THEN 1 ELSE 2]
=============================================================================
