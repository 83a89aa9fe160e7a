------------------------------- MODULE MCMgmt -------------------------------
(* Instances of Mgmt for TLC; those of MCStore are its instances too.       *)
EXTENDS Mgmt, MCStore

\* With the history its properties are about.
MgmtView == <<View, before>>
=============================================================================
