---------------------------- MODULE MCAssetFiles ----------------------------
(* Downloads of one name that overlap each other, an upload and a deletion. *)
EXTENDS AssetFiles

CONSTANTS g1, g2, g3, u1
=============================================================================
