---------------------------- MODULE MCAsyncLog ----------------------------
(* The instances of AsyncLog that TLC checks. *)
EXTENDS AsyncLog
===============================================================================
