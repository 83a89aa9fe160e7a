---------------------------- MODULE MCContentTree ----------------------------
(* Instance of ContentTree for TLC.                                         *)
EXTENDS ContentTree, TLC

\* Two data directories that part below the host, at the last level but one.
TwoPaths == "d" :> <<"h", "x", "y", "d">> @@ "e" :> <<"h", "x", "z", "e">>
TwoOrder == <<"h", "x", "y", "d", "z", "e">>
=============================================================================
