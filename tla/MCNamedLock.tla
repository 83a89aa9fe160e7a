---------------------------- MODULE MCNamedLock ----------------------------
(* Instance of NamedLock for TLC.                                           *)
EXTENDS NamedLock
=============================================================================
