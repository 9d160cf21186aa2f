--------------------------- MODULE MCDeviceFinder ---------------------------
(* Two pieces of body: one may come with the header and one behind it.     *)
EXTENDS DeviceFinder

MCBodyPieces == 2
=============================================================================
