--------------------------- MODULE MCUploadDelivery ---------------------------
(***************************************************************************)
(* Two files, the same or different ones; the library may have the first   *)
(* of them already.                                                        *)
(***************************************************************************)
EXTENDS UploadDelivery

MCSelections == {<<"x", "x">>, <<"x", "y">>}
=============================================================================
