--------------------------- MODULE MCMaterializer ---------------------------
(* The instances of Materializer that TLC checks. *)
EXTENDS Materializer
===============================================================================
