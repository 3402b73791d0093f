---------------------------- MODULE MCPicturePool ----------------------------
(***************************************************************************)
(* A slot and an alert, three icons and two files: messages that call none *)
(* of the icons, one, or two, and one that calls more than there is room   *)
(* for.                                                                    *)
(***************************************************************************)
EXTENDS PicturePool

CONSTANTS i1, i2, i3

MCMessages == {<<>>, <<i1>>, <<i2>>, <<i3, i1>>, <<i1, i2, i3>>}
=============================================================================
