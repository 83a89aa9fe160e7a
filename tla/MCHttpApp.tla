------------------------------ MODULE MCHttpApp ------------------------------
(* Instance of HttpApp for TLC.                                             *)
EXTENDS HttpApp
=============================================================================
