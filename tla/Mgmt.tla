-------------------------------- MODULE Mgmt --------------------------------
(***************************************************************************)
(* apps/mgmtapp.go mgmtHandler: the management server calls the purges of  *)
(* the store (module Store) and tells its client by a status what came of  *)
(* them.  A client of Store that purges is a management request here; the  *)
(* server has no state of its own.                                         *)
(***************************************************************************)
EXTENDS Store

Purges == {"purge", "purgehost", "purgeall"}

\* Seeded fault: an error that is none of the known ones is not looked at.
StatusKnown(c) == IF res[c] = "notexists" THEN 404 ELSE 200

\* The status of the answer to the purge that returns.
Status(c) == CASE res[c] = "ok" -> 200
               [] res[c] = "notexists" /\ op[c] # "purgeall" -> 404
               [] OTHER -> 500

-----------------------------------------------------------------------------
(* Properties.                                                              *)

\* mgmtapp.go 99-165, "purged" and "not exists": when a purge is answered with one of
\* them, nothing of what it was asked for and was there when it was called is there
\* any more, whatever ran beside it and whatever failed.
PurgedIsGone ==
  \A c \in Clients : pc[c] = "return" /\ op[c] \in Purges /\ Status(c) \in {200, 404}
                     => before[c] \cap Present = {}
=============================================================================
