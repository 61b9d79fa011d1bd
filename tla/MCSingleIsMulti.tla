--------------------------- MODULE MCSingleIsMulti ---------------------------
(* A small instance of SingleIsMulti for TLC.                               *)
EXTENDS SingleIsMulti

OneThread == 0 :> 0
=============================================================================
