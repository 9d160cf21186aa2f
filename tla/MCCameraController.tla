------------------------- MODULE MCCameraController -------------------------
(* Two streams, so that one replaces another, and a thread for each call.  *)
EXTENDS CameraController

MCMaxPosts == 2
MCMaxStarts == 2
=============================================================================
